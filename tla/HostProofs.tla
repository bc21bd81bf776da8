----------------------------- MODULE HostProofs -----------------------------
(***************************************************************************)
(* What is proved of the parts inside and around the application: the      *)
(* table of pending evals, traces and the recordings they own, the         *)
(* watchdog, the start of the server, and the launcher with its capture.   *)
(***************************************************************************)
EXTENDS PendingEvals, TraceOwner, Watchdog, AppStart, Launcher, FiniteSetTheorems,
        SequenceTheorems, TLAPS

(***************************************************************************)
(* TableIsShared for any evals, windows and budgets, and with it that the  *)
(* fair lock is one: it has one owner, and its queue holds each waiting    *)
(* job once (PendingTypeOK).  The budgets are kept because they are tested *)
(* and used in one critical section; that agents are not crowded out then  *)
(* follows by counting.  That an answer comes from the right window needs  *)
(* the lock: a delivery only ever starts from an accepted result, also     *)
(* when the lock is handed to it by somebody else (Asked).                 *)
(***************************************************************************)

(* How far a call is, as its two jobs show it. *)
Progress ==
    \A e \in Evals :
        /\ future[e] = "new" => job[<<"reserve", e>>] = "idle"
        /\ future[e] # "ended" => job[<<"remove", e>>] = "idle"
        /\ job[<<"reserve", e>>] \notin {"idle", "over"} => future[e] = "reserving"

(* A delivery is of a result that came from the window asked. *)
Asked ==
    \A e \in Evals :
        /\ evalTarget[e] \in {NoWindow, WindowOf[e]}
        /\ job[<<"deliver", e>>] # "idle" => from[e] = WindowOf[e]
        /\ e \in got => job[<<"deliver", e>>] # "idle"

Budgets == IsFiniteSet(pending) /\ HardCeilings /\ PagesDoNotStarveAgents

PendingInv == PendingTypeOK /\ Progress /\ Asked /\ Budgets
-----------------------------------------------------------------------------
(* The lock. *)

LEMMA JobsOf ==
    ASSUME NEW e \in Evals
    PROVE  /\ <<"reserve", e>> \in Jobs /\ <<"remove", e>> \in Jobs /\ <<"deliver", e>> \in Jobs
           /\ <<"reserve", e>> # <<"remove", e>> /\ <<"reserve", e>> # <<"deliver", e>>
           /\ <<"remove", e>> # <<"deliver", e>>
BY DEF Jobs

(* The first attempt: the job gets the lock, or waits in one of two ways. *)
LEMMA RequestKeeps ==
    ASSUME LockOk, NEW j \in Jobs, job[j] = "idle", RequestSlot(j)
    PROVE  /\ LockOk'
           /\ job' = [job EXCEPT ![j] = job'[j]]
           /\ job'[j] \in {"running", "queued", "retrying"}
<1> USE PendingAssumption
<1>1. CASE lock = Free
  BY <1>1 DEF LockOk, RequestSlot, States
<1>2. CASE lock # Free /\ ~Queues(j)
  BY <1>2 DEF LockOk, RequestSlot, States
<1>3. CASE lock # Free /\ Queues(j)
  <2>1. /\ job' = [job EXCEPT ![j] = "queued"]
        /\ queue' = Append(queue, j) /\ lock' = lock
    BY <1>3 DEF RequestSlot
  <2>2. queue \in Seq(Jobs) /\ \A k \in DOMAIN queue : queue[k] # j
    BY DEF LockOk
  <2>3. /\ queue' \in Seq(Jobs) /\ DOMAIN queue' = 1..(Len(queue) + 1)
        /\ DOMAIN queue = 1..Len(queue) /\ Len(queue) \in Nat
        /\ \A k \in 1..Len(queue) : queue'[k] = queue[k]
        /\ queue'[Len(queue) + 1] = j
    BY <2>1, <2>2
  <2>4. \A i \in Jobs : (\E k \in DOMAIN queue' : queue'[k] = i) <=>
                           (i = j \/ \E k \in DOMAIN queue : queue[k] = i)
    BY <2>3
  <2>5. \A k, l \in DOMAIN queue' : queue'[k] = queue'[l] => k = l
    BY <2>2, <2>3 DEF LockOk
  <2> QED
    BY <2>1, <2>3, <2>4, <2>5 DEF LockOk, States
<1> QED
  BY <1>1, <1>2, <1>3

(* The release: the lock is free, or goes to the first of the queue. *)
LEMMA ReleaseKeeps ==
    ASSUME LockOk, NEW j \in Jobs, job[j] \in {"running", "granted"}, ReleaseLock(j)
    PROVE  /\ LockOk'
           /\ job'[j] = "over"
           /\ \A i \in Jobs : i # j => \/ job'[i] = job[i]
                                       \/ job[i] = "queued" /\ job'[i] = "granted"
<1> USE PendingAssumption
<1>1. lock = j
  BY DEF LockOk
<1>2. CASE queue = <<>>
  BY <1>1, <1>2 DEF LockOk, ReleaseLock, States
<1>3. CASE queue # <<>>
  <2> DEFINE h == Head(queue)
  <2>1. /\ lock' = h
        /\ job' = [job EXCEPT ![j] = "over", ![h] = "granted"]
        /\ queue' = Tail(queue)
    BY <1>3 DEF ReleaseLock
  <2>2. /\ queue \in Seq(Jobs) /\ DOMAIN queue = 1..Len(queue) /\ Len(queue) \in Nat \ {0}
        /\ h = queue[1] /\ h \in Jobs /\ 1 \in DOMAIN queue
    BY <1>3 DEF LockOk
  <2>3. /\ queue' \in Seq(Jobs) /\ DOMAIN queue' = 1..(Len(queue) - 1)
        /\ \A k \in 1..(Len(queue) - 1) : queue'[k] = queue[k + 1]
    BY <1>3, <2>1, <2>2
  <2>4. job[h] = "queued" /\ h # j
    BY <2>2 DEF LockOk
  <2>5. \A i \in Jobs : (\E k \in DOMAIN queue' : queue'[k] = i) <=>
                           (i # h /\ \E k \in DOMAIN queue : queue[k] = i)
    <3> SUFFICES ASSUME NEW i \in Jobs
        PROVE (\E k \in DOMAIN queue' : queue'[k] = i) <=>
                (i # h /\ \E k \in DOMAIN queue : queue[k] = i)
      OBVIOUS
    <3>1. ASSUME NEW k \in DOMAIN queue', queue'[k] = i
          PROVE  i # h /\ \E l \in DOMAIN queue : queue[l] = i
      <4>1. k + 1 \in DOMAIN queue /\ queue[k + 1] = i /\ k + 1 # 1
        BY <2>2, <2>3, <3>1
      <4> QED
        BY <2>2, <4>1 DEF LockOk
    <3>2. ASSUME i # h, NEW k \in DOMAIN queue, queue[k] = i
          PROVE  \E l \in DOMAIN queue' : queue'[l] = i
      <4>1. k - 1 \in DOMAIN queue' /\ queue'[k - 1] = i
        BY <2>2, <2>3, <3>2
      <4> QED
        BY <4>1
    <3> QED
      BY <3>1, <3>2
  <2>6. \A k, l \in DOMAIN queue' : queue'[k] = queue'[l] => k = l
    <3> SUFFICES ASSUME NEW k \in DOMAIN queue', NEW l \in DOMAIN queue', queue'[k] = queue'[l]
        PROVE k = l
      OBVIOUS
    <3>1. k + 1 \in DOMAIN queue /\ l + 1 \in DOMAIN queue /\ queue[k + 1] = queue[l + 1]
      BY <2>2, <2>3
    <3>2. k + 1 = l + 1
      BY <3>1 DEF LockOk
    <3> QED
      BY <2>3, <3>2
  <2> HIDE DEF h
  <2>7. /\ job \in [Jobs -> States] /\ job'[h] = "granted" /\ job'[j] = "over"
        /\ \A i \in Jobs : i # j /\ i # h => job'[i] = job[i]
        /\ job' \in [Jobs -> States]
    BY <2>1, <2>2, <2>4 DEF LockOk, States
  <2>8. \A i \in Jobs : (lock' = i) <=> (job'[i] \in {"running", "granted"})
    BY <1>1, <2>1, <2>2, <2>4, <2>7 DEF LockOk
  <2>9. \A i \in Jobs : (job'[i] = "queued") <=> (\E k \in DOMAIN queue' : queue'[k] = i)
    BY <2>4, <2>5, <2>7 DEF LockOk
  <2> QED
    BY <2>1, <2>2, <2>3, <2>4, <2>6, <2>7, <2>8, <2>9 DEF LockOk
<1> QED
  BY <1>2, <1>3

(* A job that queues gives up its place. *)
LEMMA LeaveKeeps ==
    ASSUME LockOk, NEW j \in Jobs, job[j] = "queued",
           job' = [job EXCEPT ![j] = "over"], queue' = LeaveQueue(j), lock' = lock
    PROVE  LockOk'
<1> USE PendingAssumption
<1> DEFINE p == CHOOSE k \in DOMAIN queue : queue[k] = j
<1> DEFINE n == Len(queue)
<1>1. queue \in Seq(Jobs) /\ n \in Nat /\ DOMAIN queue = 1..n
  BY DEF LockOk
<1>2. p \in 1..n /\ queue[p] = j
  BY <1>1 DEF LockOk
<1>3. queue' = SubSeq(queue, 1, p - 1) \o SubSeq(queue, p + 1, n)
  BY DEF LeaveQueue
<1> HIDE DEF p, n
<1>4. /\ queue' \in Seq(Jobs) /\ DOMAIN queue' = 1..(n - 1)
      /\ \A k \in 1..(n - 1) : queue'[k] = IF k < p THEN queue[k] ELSE queue[k + 1]
  <2> DEFINE a == SubSeq(queue, 1, p - 1)
  <2> DEFINE b == SubSeq(queue, p + 1, n)
  <2>1. a \in Seq(Jobs) /\ Len(a) = p - 1 /\ \A i \in 1..(p - 1) : a[i] = queue[i]
    <3>1. n = Len(queue)
      BY DEF n
    <3>2. p - 1 \in 0..Len(queue)
      BY <1>1, <1>2, <3>1
    <3> QED
      BY <1>1, <1>2, <3>2
  <2>2. b \in Seq(Jobs) /\ Len(b) = n - p /\ \A i \in 1..(n - p) : b[i] = queue[p + i]
    <3>1. n = Len(queue)
      BY DEF n
    <3>2. p + 1 \in 1..(Len(queue) + 1) /\ n \in (p + 1) - 1..Len(queue)
      BY <1>1, <1>2, <3>1
    <3>3. /\ b \in Seq(Jobs)
          /\ Len(b) = IF p + 1 <= n THEN n - (p + 1) + 1 ELSE 0
          /\ \A i \in 1..(n - (p + 1) + 1) : b[i] = queue[(p + 1) + i - 1]
      BY <1>1, <3>2, SubSeqProperties
    <3>4. n - (p + 1) + 1 = n - p /\ \A i \in 1..(n - p) : (p + 1) + i - 1 = p + i
      BY <1>1, <1>2
    <3> HIDE DEF b
    <3> QED
      BY <1>1, <1>2, <3>3, <3>4
  <2> HIDE DEF a, b
  <2>3. /\ a \o b \in Seq(Jobs) /\ Len(a \o b) = n - 1
        /\ \A i \in 1..(n - 1) : (a \o b)[i] = IF i <= p - 1 THEN a[i] ELSE b[i - (p - 1)]
    <3>1. /\ a \o b \in Seq(Jobs) /\ Len(a \o b) = Len(a) + Len(b)
          /\ \A i \in 1..Len(a) + Len(b) : (a \o b)[i] =
                 IF i <= Len(a) THEN a[i] ELSE b[i - Len(a)]
      BY <2>1, <2>2, ConcatProperties
    <3>2. Len(a) + Len(b) = n - 1
      BY <1>1, <1>2, <2>1, <2>2
    <3> QED
      BY <2>1, <3>1, <3>2
  <2>4. queue' = a \o b
    BY <1>3 DEF a, b
  <2>5. ASSUME NEW k \in 1..(n - 1)
        PROVE  queue'[k] = IF k < p THEN queue[k] ELSE queue[k + 1]
    <3>1. CASE k < p
      BY <1>1, <1>2, <2>1, <2>3, <2>4, <3>1
    <3>2. CASE ~(k < p)
      <4>1. k - (p - 1) \in 1..(n - p) /\ p + (k - (p - 1)) = k + 1
        BY <1>1, <1>2, <3>2
      <4>2. queue'[k] = b[k - (p - 1)]
        BY <1>1, <1>2, <2>3, <2>4, <3>2
      <4> QED
        BY <2>2, <3>2, <4>1, <4>2
    <3> QED
      BY <3>1, <3>2
  <2> QED
    BY <1>1, <1>2, <2>3, <2>4, <2>5
<1>5. \A i \in Jobs : (\E k \in DOMAIN queue' : queue'[k] = i) <=>
                         (i # j /\ \E k \in DOMAIN queue : queue[k] = i)
  <2> SUFFICES ASSUME NEW i \in Jobs
      PROVE (\E k \in DOMAIN queue' : queue'[k] = i) <=>
              (i # j /\ \E k \in DOMAIN queue : queue[k] = i)
    OBVIOUS
  <2>1. ASSUME NEW k \in DOMAIN queue', queue'[k] = i
        PROVE  i # j /\ \E l \in DOMAIN queue : queue[l] = i
    <3>1. PICK l \in DOMAIN queue : l # p /\ queue[l] = i
      <4>1. CASE k < p
        BY <1>1, <1>2, <1>4, <2>1, <4>1
      <4>2. CASE ~(k < p)
        BY <1>1, <1>2, <1>4, <2>1, <4>2
      <4> QED
        BY <4>1, <4>2
    <3> QED
      BY <1>1, <1>2, <3>1 DEF LockOk
  <2>2. ASSUME i # j, NEW k \in DOMAIN queue, queue[k] = i
        PROVE  \E l \in DOMAIN queue' : queue'[l] = i
    <3>1. CASE k < p
      BY <1>1, <1>2, <1>4, <2>2, <3>1
    <3>2. CASE k > p
      <4>1. k - 1 \in DOMAIN queue' /\ queue'[k - 1] = queue[k]
        BY <1>1, <1>2, <1>4, <3>2
      <4> QED
        BY <2>2, <4>1
    <3> QED
      BY <1>1, <1>2, <2>2, <3>1, <3>2
  <2> QED
    BY <2>1, <2>2
<1>6. \A k, l \in DOMAIN queue' : queue'[k] = queue'[l] => k = l
  <2> SUFFICES ASSUME NEW k \in DOMAIN queue', NEW l \in DOMAIN queue', queue'[k] = queue'[l]
      PROVE k = l
    OBVIOUS
  <2> DEFINE at(i) == IF i < p THEN i ELSE i + 1
  <2>1. /\ at(k) \in DOMAIN queue /\ at(l) \in DOMAIN queue
        /\ queue'[k] = queue[at(k)] /\ queue'[l] = queue[at(l)]
    BY <1>1, <1>2, <1>4
  <2>2. at(k) = at(l) => k = l
    BY <1>1, <1>2, <1>4
  <2> HIDE DEF at
  <2>3. at(k) = at(l)
    BY <2>1 DEF LockOk
  <2> QED
    BY <2>2, <2>3
<1>7. lock # j
  BY DEF LockOk
<1> QED
  BY <1>4, <1>5, <1>6, <1>7 DEF LockOk, States
-----------------------------------------------------------------------------
(* The budgets. *)

LEMMA Sizes ==
    ASSUME NEW S, IsFiniteSet(S), NEW T \in SUBSET S
    PROVE  IsFiniteSet(T) /\ Cardinality(T) \in Nat /\ Cardinality(S) \in Nat
           /\ Cardinality(T) <= Cardinality(S)
BY FS_Subset, FS_CardinalityType

(* At most one more. *)
LEMMA OneMore ==
    ASSUME NEW S, IsFiniteSet(S), NEW x, NEW T \in SUBSET (S \cup {x}), NEW n \in Nat,
           Cardinality(S) < n
    PROVE  IsFiniteSet(T) /\ Cardinality(T) <= n
<1>1. /\ IsFiniteSet(S \cup {x}) /\ Cardinality(S) \in Nat
      /\ Cardinality(S \cup {x}) = IF x \in S THEN Cardinality(S) ELSE Cardinality(S) + 1
  BY FS_AddElement, FS_CardinalityType
<1>2. /\ IsFiniteSet(T) /\ Cardinality(T) \in Nat /\ Cardinality(S \cup {x}) \in Nat
      /\ Cardinality(T) <= Cardinality(S \cup {x})
  BY <1>1, Sizes
<1> QED
  BY <1>1, <1>2

(* An eval that was tested against the budgets fits them. *)
LEMMA InsertFits ==
    ASSUME Budgets, pending \in SUBSET Evals, NEW e \in Evals, ~Full(e),
           pending' = pending \cup {e}
    PROVE  IsFiniteSet(pending') /\ HardCeilings'
<1> USE PendingAssumption DEF Budgets
<1> DEFINE mine == pending \cap PageEvals
<1>1. Cardinality(pending) \in Nat /\ IsFiniteSet(mine) /\ Cardinality(mine) \in Nat
  BY Sizes
<1>2. IsFiniteSet(pending') /\ Cardinality(pending') <= MaxPending
  <2>1. Cardinality(pending) < MaxPending
    BY <1>1 DEF Full
  <2> QED
    BY <2>1, OneMore
<1>3. Cardinality(pending' \cap PageEvals) <= MaxPage
  <2>1. CASE e \in PageEvals
    <3>1. Cardinality(mine) < MaxPage
      BY <1>1, <2>1 DEF Full
    <3>2. pending' \cap PageEvals \in SUBSET (mine \cup {e}) /\ MaxPage \in Nat
      OBVIOUS
    <3> QED
      BY <1>1, <3>1, <3>2, OneMore
  <2>2. CASE e \notin PageEvals
    <3>1. pending' \cap PageEvals = pending \cap PageEvals
      BY <2>2
    <3> QED
      BY <3>1 DEF HardCeilings
  <2> QED
    BY <2>1, <2>2
<1>4. ASSUME NEW w \in Windows
      PROVE  Cardinality({d \in pending' \cap PageEvals : WindowOf[d] = w}) <= MaxPerWindow
  <2> DEFINE old == {d \in mine : WindowOf[d] = w}
  <2> DEFINE new == {d \in pending' \cap PageEvals : WindowOf[d] = w}
  <2>1. IsFiniteSet(old) /\ Cardinality(old) \in Nat
    BY <1>1, Sizes
  <2>2. CASE e \in PageEvals /\ WindowOf[e] = w
    <3>1. Cardinality(old) < MaxPerWindow
      BY <2>1, <2>2 DEF Full
    <3>2. new \in SUBSET (old \cup {e}) /\ MaxPerWindow \in Nat
      OBVIOUS
    <3> QED
      BY <2>1, <3>1, <3>2, OneMore
  <2>3. CASE ~(e \in PageEvals /\ WindowOf[e] = w)
    <3>1. new = old
      BY <2>3
    <3>2. Cardinality(old) <= MaxPerWindow
      BY <1>4 DEF HardCeilings
    <3> QED
      BY <3>1, <3>2
  <2> QED
    BY <2>2, <2>3
<1> QED
  BY <1>2, <1>3, <1>4 DEF HardCeilings

(* What fits, fits when evals leave. *)
LEMMA RemovalFits ==
    ASSUME Budgets, pending' \in SUBSET pending
    PROVE  IsFiniteSet(pending') /\ HardCeilings'
<1> USE PendingAssumption DEF Budgets
<1>1. /\ IsFiniteSet(pending') /\ Cardinality(pending') \in Nat
      /\ Cardinality(pending) \in Nat /\ Cardinality(pending') <= Cardinality(pending)
  BY Sizes
<1>2. Cardinality(pending' \cap PageEvals) <= MaxPage
  <2>1. IsFiniteSet(pending \cap PageEvals)
    BY Sizes
  <2>2. /\ Cardinality(pending' \cap PageEvals) \in Nat /\ Cardinality(pending \cap PageEvals) \in Nat
        /\ Cardinality(pending' \cap PageEvals) <= Cardinality(pending \cap PageEvals)
    BY <2>1, Sizes
  <2> QED
    BY <2>2 DEF HardCeilings
<1>3. ASSUME NEW w \in Windows
      PROVE  Cardinality({d \in pending' \cap PageEvals : WindowOf[d] = w}) <= MaxPerWindow
  <2> DEFINE old == {d \in pending \cap PageEvals : WindowOf[d] = w}
  <2> DEFINE new == {d \in pending' \cap PageEvals : WindowOf[d] = w}
  <2>1. IsFiniteSet(old)
    BY Sizes
  <2>2. new \in SUBSET old
    OBVIOUS
  <2>3. Cardinality(old) <= MaxPerWindow
    BY <1>3 DEF HardCeilings
  <2> HIDE DEF old, new
  <2>4. Cardinality(new) \in Nat /\ Cardinality(old) \in Nat /\ Cardinality(new) <= Cardinality(old)
    BY <2>1, <2>2, Sizes
  <2>5. Cardinality(new) <= MaxPerWindow
    BY <2>3, <2>4
  <2> QED
    BY <2>5 DEF new
<1>4. Cardinality(pending') <= MaxPending
  BY <1>1 DEF HardCeilings
<1> QED
  BY <1>1, <1>2, <1>3, <1>4 DEF HardCeilings

(* An agent call that finds the table full finds it full of agent calls, but
   for the pages' share.                                                   *)
LEMMA RefusedAmongAgents ==
    ASSUME Budgets, pending \in SUBSET Evals
    PROVE  /\ Cardinality(pending \cap Agents) \in 0..MaxPending
           /\ \A e \in Agents : Full(e) => Cardinality(pending \cap Agents) >= MaxPending - MaxPage
<1> USE PendingAssumption DEF Budgets
<1> DEFINE agents == pending \cap Agents
<1> DEFINE pages == pending \cap PageEvals
<1>1. /\ IsFiniteSet(agents) /\ IsFiniteSet(pages)
      /\ Cardinality(agents) \in Nat /\ Cardinality(pages) \in Nat /\ Cardinality(pending) \in Nat
      /\ Cardinality(agents) <= Cardinality(pending)
  BY Sizes
<1>2. Cardinality(pending) <= MaxPending /\ Cardinality(pages) <= MaxPage
  BY DEF HardCeilings
<1>3. Cardinality(pending) = Cardinality(agents) + Cardinality(pages)
  <2>1. pending = agents \cup pages /\ agents \cap pages = {}
    BY DEF Evals
  <2>2. Cardinality(agents \cup pages) =
          Cardinality(agents) + Cardinality(pages) - Cardinality(agents \cap pages)
    BY <1>1, FS_Union
  <2>3. Cardinality({}) = 0
    BY FS_EmptySet
  <2> HIDE DEF agents, pages
  <2>4. Cardinality(agents \cap pages) = 0
    BY <2>1, <2>3
  <2>5. Cardinality(pending) = Cardinality(agents \cup pages)
    BY <2>1
  <2> QED
    BY <1>1, <2>2, <2>4, <2>5
<1>4. \A e \in Agents : Full(e) => Cardinality(pending) >= MaxPending
  BY DEF Full
<1> HIDE DEF agents, pages
<1>5. \A e \in Agents : Full(e) => Cardinality(agents) >= MaxPending - MaxPage
  BY <1>1, <1>2, <1>3, <1>4
<1>6. Cardinality(agents) \in 0..MaxPending
  BY <1>1, <1>2
<1> QED
  BY <1>5, <1>6 DEF agents
-----------------------------------------------------------------------------
(* The steps.  Each is a change of the table and one use of the lock. *)

LEMMA ReserveStep ==
    ASSUME PendingInv, NEW e \in Evals, Reserve(e)
    PROVE  PendingInv'
<1> USE PendingAssumption DEF PendingInv
<1> DEFINE j == <<"reserve", e>>
<1>1. /\ future[e] = "new" /\ future' = [future EXCEPT ![e] = "reserving"]
      /\ RequestSlot(j)
      /\ UNCHANGED <<pending, evalTarget, from, got, crowd, blocked>>
  BY DEF Reserve
<1>2. j \in Jobs /\ job[j] = "idle" /\ LockOk /\ future \in [Evals -> {"new", "reserving", "live", "ended"}]
  BY <1>1, JobsOf DEF Progress, PendingTypeOK
<1>3. LockOk' /\ job' = [job EXCEPT ![j] = job'[j]] /\ job'[j] \in {"running", "queued", "retrying"}
  BY <1>1, <1>2, RequestKeeps
<1>4. \A i \in Jobs : i # j => job'[i] = job[i]
  BY <1>2, <1>3 DEF LockOk
<1>5. \A d \in Evals : d # e => <<"reserve", d>> # j
  OBVIOUS
<1> HIDE DEF j
<1>6. PendingTypeOK'
  BY <1>1, <1>2, <1>3 DEF PendingTypeOK
<1>7. Progress'
  <2> SUFFICES ASSUME NEW d \in Evals
      PROVE  /\ future'[d] = "new" => job'[<<"reserve", d>>] = "idle"
             /\ future'[d] # "ended" => job'[<<"remove", d>>] = "idle"
             /\ job'[<<"reserve", d>>] \notin {"idle", "over"} => future'[d] = "reserving"
    BY DEF Progress
  <2>1. job'[<<"remove", d>>] = job[<<"remove", d>>]
    BY <1>4, JobsOf DEF j
  <2>2. CASE d = e
    BY <1>1, <1>2, <1>3, <2>1, <2>2 DEF Progress, j
  <2>3. CASE d # e
    BY <1>1, <1>2, <1>4, <1>5, <2>1, <2>3, JobsOf DEF Progress
  <2> QED
    BY <2>2, <2>3
<1>8. Asked'
  <2>1. \A d \in Evals : job'[<<"deliver", d>>] = job[<<"deliver", d>>]
    BY <1>4, JobsOf DEF j
  <2> QED
    BY <1>1, <2>1 DEF Asked
<1>9. Budgets'
  BY <1>1 DEF Budgets, HardCeilings, PagesDoNotStarveAgents
<1> QED
  BY <1>6, <1>7, <1>8, <1>9

LEMMA DropSlotStep ==
    ASSUME PendingInv, NEW e \in Evals, DropSlot(e)
    PROVE  PendingInv'
<1> USE PendingAssumption DEF PendingInv
<1> DEFINE j == <<"remove", e>>
<1>1. /\ future[e] = "live" /\ future' = [future EXCEPT ![e] = "ended"]
      /\ evalTarget' = [evalTarget EXCEPT ![e] = NoWindow]
      /\ RequestSlot(j)
      /\ UNCHANGED <<pending, from, got, crowd, blocked>>
  BY DEF DropSlot
<1>2. /\ j \in Jobs /\ job[j] = "idle" /\ LockOk
      /\ future \in [Evals -> {"new", "reserving", "live", "ended"}]
      /\ evalTarget \in [Evals -> Windows \cup {NoWindow}]
  BY <1>1, JobsOf DEF Progress, PendingTypeOK
<1>3. LockOk' /\ job' = [job EXCEPT ![j] = job'[j]] /\ job'[j] \in {"running", "queued", "retrying"}
  BY <1>1, <1>2, RequestKeeps
<1>4. \A i \in Jobs : i # j => job'[i] = job[i]
  BY <1>2, <1>3 DEF LockOk
<1>5. \A d \in Evals : d # e => <<"remove", d>> # j
  OBVIOUS
<1> HIDE DEF j
<1>6. PendingTypeOK'
  BY <1>1, <1>2, <1>3 DEF PendingTypeOK
<1>7. Progress'
  <2> SUFFICES ASSUME NEW d \in Evals
      PROVE  /\ future'[d] = "new" => job'[<<"reserve", d>>] = "idle"
             /\ future'[d] # "ended" => job'[<<"remove", d>>] = "idle"
             /\ job'[<<"reserve", d>>] \notin {"idle", "over"} => future'[d] = "reserving"
    BY DEF Progress
  <2>1. job'[<<"reserve", d>>] = job[<<"reserve", d>>]
    BY <1>4, JobsOf DEF j
  <2>2. CASE d = e
    BY <1>1, <1>2, <2>1, <2>2 DEF Progress
  <2>3. CASE d # e
    BY <1>1, <1>2, <1>4, <1>5, <2>1, <2>3, JobsOf DEF Progress
  <2> QED
    BY <2>2, <2>3
<1>8. Asked'
  <2>1. \A d \in Evals : job'[<<"deliver", d>>] = job[<<"deliver", d>>]
    BY <1>4, JobsOf DEF j
  <2> QED
    BY <1>1, <1>2, <2>1 DEF Asked
<1>9. Budgets'
  BY <1>1 DEF Budgets, HardCeilings, PagesDoNotStarveAgents
<1> QED
  BY <1>6, <1>7, <1>8, <1>9

LEMMA ResultStep ==
    ASSUME PendingInv, NEW e \in Evals, NEW w \in Windows, Result(e, w)
    PROVE  PendingInv'
<1> USE PendingAssumption DEF PendingInv
<1> DEFINE j == <<"deliver", e>>
<1>1. /\ job[j] = "idle" /\ Accepted(e, w)
      /\ from' = [from EXCEPT ![e] = w]
      /\ RequestSlot(j)
      /\ UNCHANGED <<future, pending, evalTarget, got, crowd, blocked>>
  BY DEF Result
<1>2. j \in Jobs /\ LockOk /\ from \in [Evals -> Windows \cup {NoWindow}]
  BY JobsOf DEF PendingTypeOK
<1>3. LockOk' /\ job' = [job EXCEPT ![j] = job'[j]] /\ job'[j] \in {"running", "queued", "retrying"}
  BY <1>1, <1>2, RequestKeeps
<1>4. \A i \in Jobs : i # j => job'[i] = job[i]
  BY <1>2, <1>3 DEF LockOk
<1>5. w = WindowOf[e]
  BY <1>1 DEF Accepted, Asked
<1>6. \A d \in Evals : d # e => <<"deliver", d>> # j
  OBVIOUS
<1> HIDE DEF j
<1>7. PendingTypeOK'
  BY <1>1, <1>2, <1>3 DEF PendingTypeOK
<1>8. Progress'
  <2>1. \A d \in Evals : /\ job'[<<"reserve", d>>] = job[<<"reserve", d>>]
                         /\ job'[<<"remove", d>>] = job[<<"remove", d>>]
    BY <1>4, JobsOf DEF j
  <2> QED
    BY <1>1, <2>1 DEF Progress
<1>9. Asked'
  <2> SUFFICES ASSUME NEW d \in Evals
      PROVE  /\ evalTarget'[d] \in {NoWindow, WindowOf[d]}
             /\ job'[<<"deliver", d>>] # "idle" => from'[d] = WindowOf[d]
             /\ d \in got' => job'[<<"deliver", d>>] # "idle"
    BY DEF Asked
  <2>1. CASE d = e
    BY <1>1, <1>2, <1>3, <1>5, <2>1 DEF Asked, j
  <2>2. CASE d # e
    BY <1>1, <1>2, <1>4, <1>6, <2>2, JobsOf DEF Asked
  <2> QED
    BY <2>1, <2>2
<1>10. Budgets'
  BY <1>1 DEF Budgets, HardCeilings, PagesDoNotStarveAgents
<1> QED
  BY <1>7, <1>8, <1>9, <1>10

LEMMA RetryStep ==
    ASSUME PendingInv, NEW j \in Jobs, Retry(j)
    PROVE  PendingInv'
<1> USE PendingAssumption DEF PendingInv
<1>1. /\ job[j] = "retrying" /\ lock = Free /\ lock' = j
      /\ job' = [job EXCEPT ![j] = "running"]
      /\ UNCHANGED <<future, queue, pending, evalTarget, from, got, crowd, blocked>>
  BY DEF Retry
<1>2. LockOk'
  BY <1>1 DEF PendingTypeOK, LockOk, States
<1>3. PendingTypeOK'
  BY <1>1, <1>2 DEF PendingTypeOK
<1>4. /\ \A i \in Jobs : job'[i] = "idle" <=> job[i] = "idle"
      /\ \A i \in Jobs : job'[i] \in {"idle", "over"} <=> job[i] \in {"idle", "over"}
  BY <1>1 DEF PendingTypeOK, LockOk
<1>5. Progress' /\ Asked'
  BY <1>1, <1>4, JobsOf DEF Progress, Asked
<1>6. Budgets'
  BY <1>1 DEF Budgets, HardCeilings, PagesDoNotStarveAgents
<1> QED
  BY <1>3, <1>5, <1>6

(* A job that ends and hands the lock on: nobody becomes idle or leaves the
   idle, and nobody else is over.                                          *)
LEMMA OthersStay ==
    ASSUME LockOk, NEW j \in Jobs, job'[j] = "over", job[j] \notin {"idle", "over"},
           \A i \in Jobs : i # j => \/ job'[i] = job[i]
                                    \/ job[i] = "queued" /\ job'[i] = "granted"
    PROVE  /\ \A i \in Jobs : (job'[i] = "idle") <=> (job[i] = "idle")
           /\ \A i \in Jobs : i # j => ((job'[i] \in {"idle", "over"}) <=> (job[i] \in {"idle", "over"}))
OBVIOUS

LEMMA InsertStep ==
    ASSUME PendingInv, NEW e \in Evals, Insert(e)
    PROVE  PendingInv'
<1> USE PendingAssumption DEF PendingInv
<1> DEFINE j == <<"reserve", e>>
<1>1. /\ job[j] \in {"running", "granted"} /\ ReleaseLock(j)
      /\ future' = [future EXCEPT ![e] = IF Full(e) THEN "ended" ELSE "live"]
      /\ UNCHANGED <<from, got, blocked>>
  BY DEF Insert, Holding
<1>2. /\ j \in Jobs /\ LockOk /\ pending \in SUBSET Evals
      /\ future \in [Evals -> {"new", "reserving", "live", "ended"}]
      /\ evalTarget \in [Evals -> Windows \cup {NoWindow}]
      /\ crowd \in [Evals -> 0..MaxPending] /\ WindowOf[e] \in Windows
  BY JobsOf DEF PendingTypeOK, Windows
<1>3. /\ LockOk' /\ job'[j] = "over"
      /\ \A i \in Jobs : i # j => \/ job'[i] = job[i]
                                  \/ job[i] = "queued" /\ job'[i] = "granted"
  BY <1>1, <1>2, ReleaseKeeps
<1>4. /\ \A i \in Jobs : (job'[i] = "idle") <=> (job[i] = "idle")
      /\ \A i \in Jobs : i # j => ((job'[i] \in {"idle", "over"}) <=> (job[i] \in {"idle", "over"}))
  BY <1>1, <1>2, <1>3, OthersStay
<1>5. \A d \in Evals : d # e => <<"reserve", d>> # j
  OBVIOUS
<1>6. future[e] = "reserving"
  BY <1>1 DEF Progress
<1> HIDE DEF j
<1>7. Progress'
  <2> SUFFICES ASSUME NEW d \in Evals
      PROVE  /\ future'[d] = "new" => job'[<<"reserve", d>>] = "idle"
             /\ future'[d] # "ended" => job'[<<"remove", d>>] = "idle"
             /\ job'[<<"reserve", d>>] \notin {"idle", "over"} => future'[d] = "reserving"
    BY DEF Progress
  <2>1. /\ <<"reserve", d>> \in Jobs /\ <<"remove", d>> \in Jobs
        /\ future[d] # "ended" => job[<<"remove", d>>] = "idle"
        /\ future[d] = "new" => job[<<"reserve", d>>] = "idle"
        /\ job[<<"reserve", d>>] \notin {"idle", "over"} => future[d] = "reserving"
    BY JobsOf DEF Progress
  <2>2. job'[<<"remove", d>>] = "idle" <=> job[<<"remove", d>>] = "idle"
    BY <1>4, <2>1
  <2>3. CASE d = e
    <3>1. job'[<<"reserve", d>>] = "over"
      BY <1>3, <2>3 DEF j
    <3>2. future'[d] # "new"
      BY <1>1, <1>2, <2>3
    <3> QED
      BY <1>6, <2>1, <2>2, <2>3, <3>1, <3>2
  <2>4. CASE d # e
    <3>1. future'[d] = future[d]
      BY <1>1, <1>2, <2>4
    <3>2. /\ job'[<<"reserve", d>>] = "idle" <=> job[<<"reserve", d>>] = "idle"
          /\ job'[<<"reserve", d>>] \in {"idle", "over"} <=> job[<<"reserve", d>>] \in {"idle", "over"}
      BY <1>4, <1>5, <2>1, <2>4
    <3> QED
      BY <2>1, <2>2, <3>1, <3>2
  <2> QED
    BY <2>3, <2>4
<1>8. CASE Full(e)
  <2>1. /\ crowd' = [crowd EXCEPT ![e] = Cardinality(pending \cap Agents)]
        /\ UNCHANGED <<pending, evalTarget>>
    BY <1>8 DEF Insert
  <2>2. /\ Cardinality(pending \cap Agents) \in 0..MaxPending
        /\ e \in Agents => Cardinality(pending \cap Agents) >= MaxPending - MaxPage
    BY <1>2, <1>8, RefusedAmongAgents
  <2>3. PendingTypeOK'
    BY <1>1, <1>2, <1>3, <2>1, <2>2 DEF PendingTypeOK
  <2>4. Asked'
    BY <1>1, <1>4, <2>1, JobsOf DEF Asked
  <2>5. Budgets'
    <3>1. PagesDoNotStarveAgents'
      <4> SUFFICES ASSUME NEW d \in Agents PROVE crowd'[d] >= MaxPending - MaxPage
        BY DEF PagesDoNotStarveAgents
      <4>1. d \in Evals
        BY DEF Evals
      <4>2. CASE d = e
        BY <1>2, <2>1, <2>2, <4>2
      <4>3. CASE d # e
        BY <1>2, <2>1, <4>1, <4>3 DEF Budgets, PagesDoNotStarveAgents
      <4> QED
        BY <4>2, <4>3
    <3> QED
      BY <2>1, <3>1 DEF Budgets, HardCeilings
  <2> QED
    BY <1>7, <2>3, <2>4, <2>5
<1>9. CASE ~Full(e)
  <2>1. /\ pending' = pending \cup {e}
        /\ evalTarget' = [evalTarget EXCEPT ![e] = WindowOf[e]]
        /\ crowd' = crowd
    BY <1>9 DEF Insert
  <2>2. PendingTypeOK'
    BY <1>1, <1>2, <1>3, <2>1 DEF PendingTypeOK
  <2>3. Asked'
    BY <1>1, <1>2, <1>4, <2>1, JobsOf DEF Asked
  <2>4. Budgets'
    <3>1. IsFiniteSet(pending') /\ HardCeilings'
      BY <1>2, <1>9, <2>1, InsertFits
    <3> QED
      BY <2>1, <3>1 DEF Budgets, PagesDoNotStarveAgents
  <2> QED
    BY <1>7, <2>2, <2>3, <2>4
<1> QED
  BY <1>8, <1>9

LEMMA CancelReserveStep ==
    ASSUME PendingInv, NEW e \in Evals, CancelReserve(e)
    PROVE  PendingInv'
<1> USE PendingAssumption DEF PendingInv
<1> DEFINE j == <<"reserve", e>>
<1>1. /\ job[j] \in {"queued", "granted", "retrying"}
      /\ future' = [future EXCEPT ![e] = "ended"]
      /\ UNCHANGED <<pending, evalTarget, from, got, crowd, blocked>>
      /\ job[j] = "granted" => ReleaseLock(j)
      /\ job[j] # "granted" =>
           /\ job' = [job EXCEPT ![j] = "over"] /\ lock' = lock
           /\ queue' = IF job[j] = "queued" THEN LeaveQueue(j) ELSE queue
  BY DEF CancelReserve
<1>2. /\ j \in Jobs /\ LockOk
      /\ future \in [Evals -> {"new", "reserving", "live", "ended"}]
  BY JobsOf DEF PendingTypeOK
<1>3. \A d \in Evals : d # e => <<"reserve", d>> # j
  OBVIOUS
<1> HIDE DEF j
<1>4. /\ LockOk' /\ job'[j] = "over"
      /\ \A i \in Jobs : i # j => \/ job'[i] = job[i]
                                  \/ job[i] = "queued" /\ job'[i] = "granted"
  <2>1. CASE job[j] = "granted"
    BY <1>1, <1>2, <2>1, ReleaseKeeps
  <2>2. CASE job[j] = "queued"
    <3>1. LockOk'
      BY <1>1, <1>2, <2>2, LeaveKeeps
    <3> QED
      BY <1>1, <1>2, <2>2, <3>1 DEF LockOk
  <2>3. CASE job[j] = "retrying"
    BY <1>1, <1>2, <2>3 DEF LockOk, States
  <2> QED
    BY <1>1, <2>1, <2>2, <2>3
<1>5. /\ \A i \in Jobs : (job'[i] = "idle") <=> (job[i] = "idle")
      /\ \A i \in Jobs : i # j => ((job'[i] \in {"idle", "over"}) <=> (job[i] \in {"idle", "over"}))
  BY <1>1, <1>2, <1>4, OthersStay
<1>6. PendingTypeOK'
  BY <1>1, <1>2, <1>4 DEF PendingTypeOK
<1>7. Progress'
  <2> SUFFICES ASSUME NEW d \in Evals
      PROVE  /\ future'[d] = "new" => job'[<<"reserve", d>>] = "idle"
             /\ future'[d] # "ended" => job'[<<"remove", d>>] = "idle"
             /\ job'[<<"reserve", d>>] \notin {"idle", "over"} => future'[d] = "reserving"
    BY DEF Progress
  <2>1. CASE d = e
    BY <1>1, <1>2, <1>4, <2>1 DEF j
  <2>2. CASE d # e
    <3>1. /\ <<"reserve", d>> \in Jobs /\ <<"remove", d>> \in Jobs
          /\ future[d] # "ended" => job[<<"remove", d>>] = "idle"
          /\ future[d] = "new" => job[<<"reserve", d>>] = "idle"
          /\ job[<<"reserve", d>>] \notin {"idle", "over"} => future[d] = "reserving"
      BY JobsOf DEF Progress
    <3>2. future'[d] = future[d]
      BY <1>1, <1>2, <2>2
    <3>3. /\ job'[<<"remove", d>>] = "idle" <=> job[<<"remove", d>>] = "idle"
          /\ job'[<<"reserve", d>>] = "idle" <=> job[<<"reserve", d>>] = "idle"
          /\ job'[<<"reserve", d>>] \in {"idle", "over"} <=> job[<<"reserve", d>>] \in {"idle", "over"}
      BY <1>3, <1>5, <2>2, <3>1
    <3> QED
      BY <3>1, <3>2, <3>3
  <2> QED
    BY <2>1, <2>2
<1>8. Asked'
  BY <1>1, <1>5, JobsOf DEF Asked
<1>9. Budgets'
  BY <1>1 DEF Budgets, HardCeilings, PagesDoNotStarveAgents
<1> QED
  BY <1>6, <1>7, <1>8, <1>9

LEMMA RemovalStep ==
    ASSUME PendingInv, NEW e \in Evals, RemoveEntry(e) \/ DeliverResult(e)
    PROVE  PendingInv'
<1> USE PendingAssumption DEF PendingInv
<1>1. PICK j \in {<<"remove", e>>, <<"deliver", e>>} :
        /\ job[j] \in {"running", "granted"} /\ ReleaseLock(j)
        /\ pending' = pending \ {e}
        /\ got' = got \/ (got' = got \cup {e} /\ j = <<"deliver", e>>)
        /\ UNCHANGED <<future, evalTarget, from, crowd, blocked>>
  BY DEF RemoveEntry, DeliverResult, Holding
<1>2. /\ j \in Jobs /\ LockOk /\ pending \in SUBSET Evals /\ got \in SUBSET Evals
      /\ \A d \in Evals : <<"reserve", d>> # j
  <2>1. \A d \in Evals : <<"reserve", d>> # <<"remove", e>> /\ <<"reserve", d>> # <<"deliver", e>>
    OBVIOUS
  <2> QED
    BY <2>1, JobsOf DEF PendingTypeOK
<1>3. /\ LockOk' /\ job'[j] = "over"
      /\ \A i \in Jobs : i # j => \/ job'[i] = job[i]
                                  \/ job[i] = "queued" /\ job'[i] = "granted"
  BY <1>1, <1>2, ReleaseKeeps
<1>4. /\ \A i \in Jobs : (job'[i] = "idle") <=> (job[i] = "idle")
      /\ \A i \in Jobs : i # j => ((job'[i] \in {"idle", "over"}) <=> (job[i] \in {"idle", "over"}))
  BY <1>1, <1>2, <1>3, OthersStay
<1>5. PendingTypeOK'
  BY <1>1, <1>2, <1>3 DEF PendingTypeOK
<1>6. Progress'
  BY <1>1, <1>2, <1>4, JobsOf DEF Progress
<1>7. Asked'
  BY <1>1, <1>2, <1>4, JobsOf DEF Asked
<1>8. Budgets'
  <2>1. IsFiniteSet(pending') /\ HardCeilings'
    BY <1>1, RemovalFits
  <2> QED
    BY <1>1, <2>1 DEF Budgets, PagesDoNotStarveAgents
<1> QED
  BY <1>5, <1>6, <1>7, <1>8

LEMMA PendingInitInv == PendingInit => PendingInv
<1> SUFFICES ASSUME PendingInit PROVE PendingInv
  OBVIOUS
<1> USE PendingAssumption DEF PendingInit
<1>1. LockOk
  BY DEF LockOk, States
<1>2. blocked \in BOOLEAN
  BY Zenon
<1>3. PendingTypeOK
  BY <1>1, <1>2 DEF PendingTypeOK
<1>4. Progress
  BY JobsOf DEF Progress
<1>5. Asked
  BY JobsOf DEF Asked
<1>6. Budgets
  <2>1. pending = {} /\ IsFiniteSet({}) /\ Cardinality({}) = 0
    BY FS_EmptySet
  <2>2. pending \cap PageEvals = {} /\ \A w : {e \in pending \cap PageEvals : WindowOf[e] = w} = {}
    BY <2>1
  <2>3. HardCeilings
    BY <2>1, <2>2 DEF HardCeilings
  <2>4. PagesDoNotStarveAgents
    BY DEF PagesDoNotStarveAgents, Evals
  <2> QED
    BY <2>1, <2>3, <2>4 DEF Budgets
<1> QED
  BY <1>3, <1>4, <1>5, <1>6 DEF PendingInv

LEMMA PendingStep == PendingInv /\ [PendingNext]_pendingVars => PendingInv'
<1> SUFFICES ASSUME PendingInv, [PendingNext]_pendingVars PROVE PendingInv'
  OBVIOUS
<1>1. CASE BlockApp
  <2>1. /\ blocked' \in BOOLEAN
        /\ UNCHANGED <<future, job, lock, queue, pending, evalTarget, from, got, crowd>>
    BY <1>1, Zenon DEF BlockApp
  <2> QED
    BY <2>1 DEF PendingInv, PendingTypeOK, LockOk, Progress, Asked, Budgets, HardCeilings,
                PagesDoNotStarveAgents
<1>2. CASE UNCHANGED pendingVars
  BY <1>2 DEF PendingInv, PendingTypeOK, LockOk, Progress, Asked, Budgets, HardCeilings,
              PagesDoNotStarveAgents, pendingVars
<1> QED
  BY <1>1, <1>2, ReserveStep, CancelReserveStep, DropSlotStep, InsertStep, RemovalStep,
     ResultStep, RetryStep DEF PendingNext, Work

(* For any number of agent and page evals and any budgets, whoever is
   cancelled, blocked or answered in whatever order: the budgets are hard
   ceilings, page script cannot crowd agents out of the table, an answer
   comes from the window asked, and the lock has one owner.                *)
THEOREM TableIsSharedAlways == PendingSpec => [](PendingTypeOK /\ TableIsShared)
<1>1. PendingInv => PendingTypeOK /\ TableIsShared
  BY DEF PendingInv, PendingTypeOK, Asked, Budgets, TableIsShared, AnsweredByItsWindow
<1> QED
  BY <1>1, PendingInitInv, PendingStep, PTL DEF PendingSpec

-----------------------------------------------------------------------------

(***************************************************************************)
(* TracesOwnTheirs and ClientsEndTheirOwn for any number of clients and of *)
(* calls.  Neither is inductive.  A handler that started a trace goes on   *)
(* with a generation taken several steps ago, so the proof needs that the  *)
(* generation is its alone and that nobody else touches the task or the    *)
(* recording of that generation meanwhile (OneEach, NotSpawned, NotOwned); *)
(* and that whatever a trace, a handler or a task will end is a recording  *)
(* a trace started (Held), which is why it never ends a client's.          *)
(***************************************************************************)

Starting == {"supersede", "record", "reset", "own", "disown", "spawn"}

(* A start and a stop take one generation each, and so does the one end that
   each trace may come to by itself: Generations are never used up.        *)
Counting == trace.generation + (IF trace.active THEN 1 ELSE 0) <= 2 * ops

(* No task runs for a generation nobody has taken. *)
Fresh == \A g \in Generations : g > trace.generation => task[g] = NoTask

(* The task of a generation is spawned by the handler that took it. *)
NotSpawned ==
    \A c \in Clients : op[c].pc \in Starting =>
        op[c].gen \in 1..trace.generation /\ task[op[c].gen] = NoTask

(* No two handlers have the same generation. *)
OneEach ==
    \A c, d \in Clients :
        op[c].pc \in Starting /\ op[d].pc \in Starting /\ c # d => op[c].gen # op[d].gen

(* A trace owns no recording before its own handler gives it one. *)
NotOwned ==
    \A c \in Clients :
        op[c].pc \in {"supersede", "record", "reset", "own"} /\ IsCurrent(op[c].gen)
            => trace.owned = None

(* What will be ended is a recording a trace started. *)
HeldOk(r) == r = None \/ (r \in 1..generations /\ by[r] = "trace")
Held ==
    /\ HeldOk(trace.owned)
    /\ \A c \in Clients :
         /\ op[c].pc = "supersede" => HeldOk(op[c].prev)
         /\ op[c].pc \in {"reset", "own", "disown", "stop"} => HeldOk(op[c].rec)
    /\ \A g \in Generations : task[g].pc = "dropping" => HeldOk(task[g].rec)

FramesOk == FramesAreOfOneTrace /\ (trace.active => latest = trace.generation)

TakenInv == Counting /\ Fresh /\ NotSpawned /\ OneEach /\ NotOwned
TraceInv == TraceTypeOK /\ TakenInv /\ Held /\ FramesOk /\ NoOwnerlessRecording
-----------------------------------------------------------------------------
(* What a call holds at each of its steps. *)
LEMMA Shapes ==
    ASSUME TraceTypeOK, NEW c \in Clients
    PROVE  /\ op[c].pc \in {"supersede", "record"} =>
                /\ op[c].gen \in Generations /\ op[c].prev \in Nat \cup {None}
                /\ op[c].events \in BOOLEAN
                /\ op[c] = [pc |-> op[c].pc, gen |-> op[c].gen,
                            prev |-> op[c].prev, events |-> op[c].events]
           /\ op[c].pc \in {"reset", "own", "disown"} =>
                /\ op[c].gen \in Generations /\ op[c].rec \in Nat
                /\ op[c] = [pc |-> op[c].pc, gen |-> op[c].gen, rec |-> op[c].rec]
           /\ op[c].pc = "spawn" => op[c].gen \in Generations
           /\ op[c].pc = "stop" => op[c].rec \in Nat \cup {None}
           /\ op[c].pc = "mark" => op[c].rec \in Nat
<1>1. op[c] \in OpStates
  BY DEF TraceTypeOK
<1> QED
  BY <1>1 DEF OpStates, NoOp

Early == {"supersede", "record", "reset", "own"}

(* A handler goes on with the generation it has, or is done with it. *)
LEMMA TakenStep ==
    ASSUME TakenInv, NEW c \in Clients, UNCHANGED <<trace, task>>,
           trace.generation \in Nat, ops \in Nat, ops' \in {ops, ops + 1},
           \A d \in Clients : d # c => op'[d] = op[d],
           op'[c].pc \in Starting => op[c].pc \in Starting /\ op'[c].gen = op[c].gen,
           op'[c].pc \in Early => op[c].pc \in Early
    PROVE  TakenInv'
<1> USE DEF TakenInv
<1>1. Counting'
  BY DEF Counting
<1>2. Fresh'
  BY DEF Fresh
<1>3. NotSpawned'
  BY DEF NotSpawned
<1>4. OneEach'
  BY DEF OneEach
<1>5. NotOwned'
  BY DEF NotOwned, IsCurrent, Early, Starting
<1> QED
  BY <1>1, <1>2, <1>3, <1>4, <1>5

(* Ending the recording of a generation touches no other recording. *)
LEMMA StopKeeps ==
    ASSUME TraceTypeOK, NEW r, StopIfGeneration(r)
    PROVE  /\ generations' = generations
           /\ IsRecording' => recording' = recording /\ IsRecording /\ recording.generation # r
           /\ HeldOk(r) /\ IsRecording /\ by[recording.generation] = "client"
                => recording' = recording
BY RecorderAssumption DEF TraceTypeOK, StopIfGeneration, Finish, IsRecording, HeldOk, recVars

(* A handler that does not have the recording in its hands may go on. *)
LEMMA HandsStay ==
    ASSUME NoOwnerlessRecording, NEW c \in Clients, UNCHANGED <<trace, task>>,
           op[c].pc # "spawn", \A d \in Clients : d # c => op'[d] = op[d],
           ByTrace' => /\ ByTrace /\ recording' = recording
                       /\ ~Minds(c, recording.generation)
    PROVE  NoOwnerlessRecording'
<1> SUFFICES ASSUME ByTrace'
    PROVE  WithTrace(recording.generation)' \/ WithHandler(recording.generation)'
             \/ WithTask(recording.generation)'
  BY DEF NoOwnerlessRecording
<1>1. /\ recording' = recording /\ ~Minds(c, recording.generation)
      /\ \/ WithTrace(recording.generation) \/ WithHandler(recording.generation)
         \/ WithTask(recording.generation)
  BY DEF NoOwnerlessRecording
<1>2. CASE WithTrace(recording.generation)
  BY <1>1, <1>2 DEF WithTrace, TaskAlive
<1>3. CASE WithHandler(recording.generation)
  BY <1>1, <1>3 DEF WithHandler, Minds
<1>4. CASE WithTask(recording.generation)
  BY <1>1, <1>4 DEF WithTask
<1> QED
  BY <1>1, <1>2, <1>3, <1>4
-----------------------------------------------------------------------------
LEMMA StartTraceStep ==
    ASSUME TraceInv, NEW c \in Clients, NEW withEvents \in BOOLEAN, StartTrace(c, withEvents)
    PROVE  TraceInv'
<1> USE RecorderAssumption, TraceAssumption
    DEF TraceInv, TakenInv, StartTrace, Begin, ScreencastStart, recVars
<1> DEFINE n == trace.generation + 1
<1>1. TraceTypeOK'
  BY DEF TraceTypeOK, OpStates, NoOp, IsRecording, Counting, Generations
<1>2. /\ trace' = [active |-> TRUE, generation |-> n, owned |-> None]
      /\ op' = [op EXCEPT ![c] = [pc |-> "supersede", gen |-> n, prev |-> trace.owned,
                                  events |-> withEvents]]
      /\ task' = task /\ op[c].pc = "idle" /\ op \in [Clients -> OpStates]
      /\ trace.generation \in Nat /\ n \in Generations
  BY DEF TraceTypeOK, NoOp, Counting, Generations
<1>3. Counting'
  BY DEF TraceTypeOK, Counting
<1>4. Fresh'
  BY <1>2 DEF Fresh, Generations
<1>5. NotSpawned'
  <2> SUFFICES ASSUME NEW d \in Clients, op'[d].pc \in Starting
      PROVE op'[d].gen \in 1..n /\ task[op'[d].gen] = NoTask
    BY <1>2 DEF NotSpawned
  <2>1. CASE d = c
    BY <1>2, <2>1 DEF Fresh
  <2>2. CASE d # c
    BY <1>2, <2>2 DEF NotSpawned
  <2> QED
    BY <2>1, <2>2
<1>6. OneEach'
  <2> SUFFICES ASSUME NEW d \in Clients, NEW e \in Clients, d # e,
                      op'[d].pc \in Starting, op'[e].pc \in Starting
      PROVE op'[d].gen # op'[e].gen
    BY DEF OneEach
  <2>1. ASSUME NEW f \in Clients, f # c, op'[f].pc \in Starting
        PROVE op'[f] = op[f] /\ op[f].gen # n
    BY <1>2, <2>1 DEF NotSpawned
  <2> QED
    BY <1>2, <2>1 DEF OneEach
<1>7. NotOwned'
  BY <1>2 DEF NotOwned
<1>8. Held'
  BY DEF TraceTypeOK, OpStates, Held, HeldOk, NoOp
<1>9. FramesOk'
  BY DEF FramesOk, FramesAreOfOneTrace
<1>10. NoOwnerlessRecording'
  <2> SUFFICES ASSUME ByTrace PROVE WithHandler(recording.generation)' \/ WithTask(recording.generation)'
    BY DEF NoOwnerlessRecording, ByTrace, IsRecording
  <2>1. CASE WithTrace(recording.generation)
    BY <1>2, <2>1 DEF WithTrace, WithHandler, Minds
  <2>2. CASE WithHandler(recording.generation)
    BY <1>2, <2>2 DEF WithHandler, Minds
  <2>3. CASE WithTask(recording.generation)
    BY <1>2, <2>3 DEF WithTask
  <2> QED
    BY <2>1, <2>2, <2>3 DEF NoOwnerlessRecording
<1> QED
  BY <1>1, <1>3, <1>4, <1>5, <1>6, <1>7, <1>8, <1>9, <1>10

LEMMA OwnStep ==
    ASSUME TraceInv, NEW c \in Clients, Own(c)
    PROVE  TraceInv'
<1> USE RecorderAssumption, TraceAssumption DEF TraceInv, TakenInv
<1> DEFINE next == IF IsCurrent(op[c].gen) THEN "spawn" ELSE "disown"
<1>1. /\ op[c].pc = "own" /\ op[c].gen \in Generations /\ op[c].rec \in Nat
      /\ op' = [op EXCEPT ![c] = [pc |-> next, gen |-> op[c].gen, rec |-> op[c].rec]]
      /\ trace' = IF IsCurrent(op[c].gen) THEN [trace EXCEPT !.owned = op[c].rec] ELSE trace
      /\ UNCHANGED <<recording, lastSession, generations, frames, task, epoch, ops, by, latest>>
  <2>1. op[c].pc = "own"
    BY DEF Own
  <2>2. /\ op[c].gen \in Generations /\ op[c].rec \in Nat
        /\ op[c] = [pc |-> op[c].pc, gen |-> op[c].gen, rec |-> op[c].rec]
    BY <2>1, Shapes
  <2>3. [op[c] EXCEPT !.pc = next] = [pc |-> next, gen |-> op[c].gen, rec |-> op[c].rec]
    BY <2>2
  <2>4. op' = [op EXCEPT ![c] = [pc |-> next, gen |-> op[c].gen, rec |-> op[c].rec]]
    BY <2>3 DEF Own
  <2> QED
    BY <2>1, <2>2, <2>4 DEF Own, SetOwnedRecording, recVars
<1>2. /\ op \in [Clients -> OpStates]
      /\ trace \in [active : BOOLEAN, generation : 0..(2 * MaxOps), owned : Nat \cup {None}]
  BY DEF TraceTypeOK
<1>3. /\ trace'.generation = trace.generation /\ trace'.active = trace.active
      /\ trace'.owned = IF IsCurrent(op[c].gen) THEN op[c].rec ELSE trace.owned
  BY <1>1, <1>2
<1>4. TraceTypeOK'
  <2>1. op' \in [Clients -> OpStates]
    BY <1>1, <1>2 DEF OpStates
  <2>2. trace' \in [active : BOOLEAN, generation : 0..(2 * MaxOps), owned : Nat \cup {None}]
    BY <1>1, <1>2
  <2> QED
    BY <1>1, <2>1, <2>2 DEF TraceTypeOK, IsRecording
<1>5. Counting' /\ Fresh'
  BY <1>1, <1>3 DEF Counting, Fresh
<1>6. NotSpawned' /\ OneEach'
  BY <1>1, <1>2, <1>3 DEF NotSpawned, OneEach, Starting
<1>7. NotOwned'
  <2> SUFFICES ASSUME NEW d \in Clients, trace'.active, trace'.generation = op'[d].gen,
                      op'[d].pc \in {"supersede", "record", "reset", "own"}
      PROVE trace'.owned = None
    BY DEF NotOwned, IsCurrent
  <2>1. d # c /\ op'[d] = op[d] /\ IsCurrent(op[d].gen)
    BY <1>1, <1>2, <1>3 DEF IsCurrent
  <2>2. op[d].gen # op[c].gen
    BY <1>1, <2>1 DEF OneEach, Starting
  <2> QED
    BY <1>3, <2>1, <2>2 DEF NotOwned, IsCurrent
<1>8. Held'
  BY <1>1, <1>2, <1>3 DEF Held, HeldOk
<1>9. FramesOk'
  BY <1>1, <1>3 DEF FramesOk, FramesAreOfOneTrace
<1>10. NoOwnerlessRecording'
  <2> SUFFICES ASSUME ByTrace
      PROVE  WithTrace(recording.generation)' \/ WithHandler(recording.generation)'
               \/ WithTask(recording.generation)'
    BY <1>1 DEF NoOwnerlessRecording, ByTrace, IsRecording
  <2>1. recording.generation # None
    BY DEF TraceTypeOK, ByTrace
  <2>2. CASE WithTrace(recording.generation)
    <3>1. ~IsCurrent(op[c].gen)
      BY <1>1, <2>1, <2>2 DEF NotOwned, WithTrace
    <3> QED
      BY <1>1, <1>2, <1>3, <2>2, <3>1 DEF WithTrace, TaskAlive
  <2>3. CASE WithHandler(recording.generation)
    <3> PICK d \in Clients : Minds(d, recording.generation)
      BY <2>3 DEF WithHandler
    <3>1. CASE d # c \/ ~IsCurrent(op[c].gen)
      BY <1>1, <1>2, <3>1 DEF WithHandler, Minds
    <3>2. CASE d = c /\ IsCurrent(op[c].gen)
      BY <1>1, <1>2, <1>3, <3>2 DEF Minds, WithTrace, TaskAlive, IsCurrent
    <3> QED
      BY <3>1, <3>2
  <2>4. CASE WithTask(recording.generation)
    BY <1>1, <2>4 DEF WithTask
  <2> QED
    BY <2>2, <2>3, <2>4 DEF NoOwnerlessRecording
<1> QED
  BY <1>4, <1>5, <1>6, <1>7, <1>8, <1>9, <1>10

LEMMA SupersedeStep ==
    ASSUME TraceInv, NEW c \in Clients, Supersede(c)
    PROVE  TraceInv'
<1> USE RecorderAssumption, TraceAssumption DEF TraceInv
<1> DEFINE next == IF op[c].events THEN "record" ELSE "spawn"
<1>1. /\ op[c].pc = "supersede" /\ op[c].gen \in Generations
      /\ op[c].prev \in Nat \cup {None} /\ op[c].events \in BOOLEAN
      /\ op[c] = [pc |-> op[c].pc, gen |-> op[c].gen, prev |-> op[c].prev, events |-> op[c].events]
  BY Shapes DEF Supersede
<1>2. [op[c] EXCEPT !.pc = next] =
        [pc |-> next, gen |-> op[c].gen, prev |-> op[c].prev, events |-> op[c].events]
  BY <1>1
<1>3. /\ op' = [op EXCEPT ![c] = [pc |-> next, gen |-> op[c].gen, prev |-> op[c].prev,
                                  events |-> op[c].events]]
      /\ StopIfGeneration(op[c].prev)
      /\ UNCHANGED <<trace, frames, task, epoch, ops, by, latest>>
  BY <1>2 DEF Supersede, traceVars
<1>4. op \in [Clients -> OpStates] /\ ops \in Nat /\ trace.generation \in Nat
  BY DEF TraceTypeOK
<1>5. /\ generations' = generations
      /\ IsRecording' => recording' = recording /\ IsRecording /\ recording.generation # op[c].prev
  BY <1>3, StopKeeps
<1>6. TraceTypeOK'
  <2>1. op' \in [Clients -> OpStates]
    BY <1>1, <1>3, <1>4 DEF OpStates
  <2> QED
    BY <1>3, <1>5, <2>1 DEF TraceTypeOK
<1>7. TakenInv'
  BY <1>1, <1>3, <1>4, TakenStep DEF Starting, Early
<1>8. Held'
  BY <1>1, <1>3, <1>4, <1>5 DEF Held, HeldOk
<1>9. FramesOk'
  BY <1>3 DEF FramesOk, FramesAreOfOneTrace
<1>10. NoOwnerlessRecording'
  BY <1>1, <1>3, <1>4, <1>5, HandsStay DEF ByTrace, Minds
<1> QED
  BY <1>6, <1>7, <1>8, <1>9, <1>10

LEMMA RecordStep ==
    ASSUME TraceInv, NEW c \in Clients, Record(c)
    PROVE  TraceInv'
<1> USE RecorderAssumption, TraceAssumption DEF TraceInv
<1>1. /\ op[c].pc = "record" /\ op[c].gen \in Generations
      /\ op[c].prev \in Nat \cup {None} /\ op[c].events \in BOOLEAN
      /\ op[c] = [pc |-> op[c].pc, gen |-> op[c].gen, prev |-> op[c].prev, events |-> op[c].events]
  BY Shapes DEF Record
<1>2. /\ op \in [Clients -> OpStates] /\ ops \in Nat /\ trace.generation \in Nat
      /\ UNCHANGED <<trace, frames, task, epoch, ops, latest>>
  BY DEF TraceTypeOK, Record, traceVars
<1>3. FramesOk'
  BY <1>2 DEF FramesOk, FramesAreOfOneTrace
<1>4. CASE IsRecording
  <2>1. [op[c] EXCEPT !.pc = "spawn"] =
          [pc |-> "spawn", gen |-> op[c].gen, prev |-> op[c].prev, events |-> op[c].events]
    BY <1>1
  <2>2. /\ op' = [op EXCEPT ![c] = [pc |-> "spawn", gen |-> op[c].gen, prev |-> op[c].prev,
                                    events |-> op[c].events]]
        /\ UNCHANGED <<recording, lastSession, generations, by>>
    BY <1>4, <2>1 DEF Record, recVars
  <2>3. op' \in [Clients -> OpStates]
    BY <1>1, <1>2, <2>2 DEF OpStates
  <2>4. TraceTypeOK'
    BY <1>2, <2>2, <2>3 DEF TraceTypeOK, IsRecording
  <2>5. TakenInv'
    BY <1>1, <1>2, <2>2, TakenStep DEF Starting, Early
  <2>6. Held'
    BY <1>1, <1>2, <2>2 DEF Held, HeldOk
  <2>7. NoOwnerlessRecording'
    BY <1>1, <1>2, <2>2, HandsStay DEF ByTrace, IsRecording, Minds
  <2> QED
    BY <1>3, <2>4, <2>5, <2>6, <2>7
<1>5. CASE ~IsRecording
  <2> DEFINE n == generations + 1
  <2>1. /\ op' = [op EXCEPT ![c] = [pc |-> "reset", gen |-> op[c].gen, rec |-> n]]
        /\ generations' = n /\ recording'.generation = n
        /\ by' = Append(by, "trace")
    BY <1>5 DEF Record, StartSession
  <2>2. generations \in Nat /\ by \in Seq({"trace", "client"}) /\ Len(by) = generations
    BY DEF TraceTypeOK
  <2>3. /\ by' \in Seq({"trace", "client"}) /\ Len(by') = n /\ by'[n] = "trace"
        /\ \A r \in 1..generations : by'[r] = by[r]
    BY <2>1, <2>2
  <2>4. op' \in [Clients -> OpStates]
    BY <1>1, <1>2, <2>1, <2>2 DEF OpStates
  <2>5. TraceTypeOK'
    BY <1>2, <2>1, <2>2, <2>3, <2>4 DEF TraceTypeOK
  <2>6. TakenInv'
    BY <1>1, <1>2, <2>1, TakenStep DEF Starting, Early
  <2>7. Held'
    BY <1>1, <1>2, <2>1, <2>2, <2>3 DEF Held, HeldOk
  <2>8. NoOwnerlessRecording'
    BY <1>2, <2>1 DEF NoOwnerlessRecording, WithHandler, Minds
  <2> QED
    BY <1>3, <2>5, <2>6, <2>7, <2>8
<1> QED
  BY <1>4, <1>5

LEMMA ResetStep ==
    ASSUME TraceInv, NEW c \in Clients, Reset(c)
    PROVE  TraceInv'
<1> USE RecorderAssumption, TraceAssumption DEF TraceInv
<1>1. /\ op[c].pc = "reset" /\ op[c].gen \in Generations /\ op[c].rec \in Nat
      /\ op[c] = [pc |-> op[c].pc, gen |-> op[c].gen, rec |-> op[c].rec]
  BY Shapes DEF Reset
<1>2. [op[c] EXCEPT !.pc = "own"] = [pc |-> "own", gen |-> op[c].gen, rec |-> op[c].rec]
  BY <1>1
<1>3. /\ op' = [op EXCEPT ![c] = [pc |-> "own", gen |-> op[c].gen, rec |-> op[c].rec]]
      /\ epoch' \in {epoch, op[c].rec}
      /\ UNCHANGED <<recording, lastSession, generations, trace, frames, task, ops, by, latest>>
  BY <1>2 DEF Reset, ResetMarks, recVars, traceVars
<1>4. op \in [Clients -> OpStates] /\ ops \in Nat /\ trace.generation \in Nat
  BY DEF TraceTypeOK
<1>5. op' \in [Clients -> OpStates]
  BY <1>1, <1>3, <1>4 DEF OpStates
<1>6. TraceTypeOK'
  BY <1>1, <1>3, <1>5 DEF TraceTypeOK, IsRecording
<1>7. TakenInv'
  BY <1>1, <1>3, <1>4, TakenStep DEF Starting, Early
<1>8. Held'
  BY <1>1, <1>3, <1>4 DEF Held, HeldOk
<1>9. FramesOk'
  BY <1>3 DEF FramesOk, FramesAreOfOneTrace
<1>10. NoOwnerlessRecording'
  <2>1. ASSUME NEW r, WithHandler(r) PROVE WithHandler(r)'
    BY <1>1, <1>3, <1>4, <2>1 DEF WithHandler, Minds
  <2>2. ASSUME NEW r, WithTrace(r) PROVE WithTrace(r)'
    BY <1>1, <1>3, <1>4, <2>2 DEF WithTrace, TaskAlive
  <2>3. ASSUME NEW r, WithTask(r) PROVE WithTask(r)'
    BY <1>3, <2>3 DEF WithTask
  <2> QED
    BY <1>3, <2>1, <2>2, <2>3 DEF NoOwnerlessRecording, ByTrace, IsRecording
<1> QED
  BY <1>6, <1>7, <1>8, <1>9, <1>10

LEMMA DisownStep ==
    ASSUME TraceInv, NEW c \in Clients, Disown(c)
    PROVE  TraceInv'
<1> USE RecorderAssumption, TraceAssumption DEF TraceInv
<1>1. /\ op[c].pc = "disown" /\ op[c].gen \in Generations /\ op[c].rec \in Nat
      /\ op[c] = [pc |-> op[c].pc, gen |-> op[c].gen, rec |-> op[c].rec]
  BY Shapes DEF Disown
<1>2. [op[c] EXCEPT !.pc = "spawn"] = [pc |-> "spawn", gen |-> op[c].gen, rec |-> op[c].rec]
  BY <1>1
<1>3. /\ op' = [op EXCEPT ![c] = [pc |-> "spawn", gen |-> op[c].gen, rec |-> op[c].rec]]
      /\ StopIfGeneration(op[c].rec)
      /\ UNCHANGED <<trace, frames, task, epoch, ops, by, latest>>
  BY <1>2 DEF Disown, traceVars
<1>4. op \in [Clients -> OpStates] /\ ops \in Nat /\ trace.generation \in Nat
  BY DEF TraceTypeOK
<1>5. /\ generations' = generations
      /\ IsRecording' => recording' = recording /\ IsRecording /\ recording.generation # op[c].rec
  BY <1>3, StopKeeps
<1>6. op' \in [Clients -> OpStates]
  BY <1>1, <1>3, <1>4 DEF OpStates
<1>7. TraceTypeOK'
  BY <1>3, <1>5, <1>6 DEF TraceTypeOK
<1>8. TakenInv'
  BY <1>1, <1>3, <1>4, TakenStep DEF Starting, Early
<1>9. Held'
  BY <1>1, <1>3, <1>4, <1>5 DEF Held, HeldOk
<1>10. FramesOk'
  BY <1>3 DEF FramesOk, FramesAreOfOneTrace
<1>11. NoOwnerlessRecording'
  BY <1>1, <1>3, <1>4, <1>5, HandsStay DEF ByTrace, Minds
<1> QED
  BY <1>7, <1>8, <1>9, <1>10, <1>11

LEMMA SpawnTaskStep ==
    ASSUME TraceInv, NEW c \in Clients, SpawnTask(c)
    PROVE  TraceInv'
<1> USE RecorderAssumption, TraceAssumption DEF TraceInv
<1> DEFINE g == op[c].gen
<1>1. /\ op[c].pc = "spawn" /\ g \in Generations
      /\ task' = [task EXCEPT ![g] = [pc |-> "loop"]]
      /\ op' = [op EXCEPT ![c] = NoOp]
      /\ UNCHANGED <<recording, lastSession, generations, trace, frames, epoch, ops, by, latest>>
  BY Shapes DEF SpawnTask, recVars, traceVars
<1>2. op \in [Clients -> OpStates] /\ task \in [Generations -> TaskStates]
  BY DEF TraceTypeOK
<1>3. op'[c].pc = "idle" /\ \A d \in Clients : d # c => op'[d] = op[d]
  BY <1>1, <1>2 DEF NoOp
<1>4. g \in 1..trace.generation /\ task[g] = NoTask
  BY <1>1 DEF TakenInv, NotSpawned, Starting
<1>5. TraceTypeOK'
  <2>1. op' \in [Clients -> OpStates]
    BY <1>1, <1>2 DEF OpStates
  <2>2. task' \in [Generations -> TaskStates]
    BY <1>1, <1>2 DEF TaskStates
  <2> QED
    BY <1>1, <2>1, <2>2 DEF TraceTypeOK, IsRecording
<1>6. TakenInv'
  <2> USE DEF TakenInv
  <2>1. Counting' /\ OneEach' /\ NotOwned'
    BY <1>1, <1>3 DEF Counting, OneEach, NotOwned, IsCurrent, Starting
  <2>2. Fresh'
    BY <1>1, <1>2, <1>4 DEF Fresh, TraceTypeOK
  <2>3. NotSpawned'
    <3> SUFFICES ASSUME NEW d \in Clients, op'[d].pc \in Starting
        PROVE  op'[d].gen \in 1..trace.generation /\ task'[op'[d].gen] = NoTask
      BY <1>1 DEF NotSpawned
    <3>1. d # c /\ op'[d] = op[d]
      BY <1>3 DEF Starting
    <3>2. op[d].gen # g
      BY <1>1, <3>1 DEF OneEach, Starting
    <3> QED
      BY <1>1, <1>2, <3>1, <3>2 DEF NotSpawned
  <2> QED
    BY <2>1, <2>2, <2>3
<1>7. Held'
  <2>1. \A h \in Generations : task'[h].pc = "dropping" => task'[h] = task[h]
    BY <1>1, <1>2
  <2> QED
    BY <1>1, <1>3, <2>1 DEF Held, HeldOk
<1>8. FramesOk'
  BY <1>1 DEF FramesOk, FramesAreOfOneTrace
<1>9. NoOwnerlessRecording'
  <2>1. ASSUME NEW r, WithHandler(r) PROVE WithHandler(r)'
    BY <1>1, <1>3, <2>1 DEF WithHandler, Minds
  <2>2. ASSUME NEW r, WithTrace(r) PROVE WithTrace(r)'
    <3>1. CASE trace.generation = g
      BY <1>1, <1>2, <2>2, <3>1 DEF WithTrace, TaskAlive
    <3>2. CASE trace.generation # g
      BY <1>1, <1>2, <1>3, <2>2, <3>2 DEF WithTrace, TaskAlive
    <3> QED
      BY <3>1, <3>2
  <2>3. ASSUME NEW r, WithTask(r) PROVE WithTask(r)'
    BY <1>1, <1>2, <1>4, <2>3 DEF WithTask, NoTask
  <2> QED
    BY <1>1, <2>1, <2>2, <2>3 DEF NoOwnerlessRecording, ByTrace, IsRecording
<1> QED
  BY <1>5, <1>6, <1>7, <1>8, <1>9

LEMMA StopTraceStep ==
    ASSUME TraceInv, NEW c \in Clients, StopTrace(c)
    PROVE  TraceInv'
<1> USE RecorderAssumption, TraceAssumption DEF TraceInv
<1>1. /\ op[c].pc = "idle" /\ ops' = ops + 1 /\ ops < MaxOps
      /\ trace' = [active |-> FALSE, generation |-> trace.generation + 1, owned |-> None]
      /\ op' = [op EXCEPT ![c] = [pc |-> "stop", rec |-> trace.owned]]
      /\ UNCHANGED <<recording, lastSession, generations, frames, task, epoch, by, latest>>
  BY DEF StopTrace, Begin, ScreencastStop, NoOp, recVars
<1>2. /\ op \in [Clients -> OpStates] /\ ops \in 0..MaxOps /\ trace.generation \in Nat
      /\ trace.owned \in Nat \cup {None}
  BY DEF TraceTypeOK
<1>3. trace.generation <= 2 * ops
  BY <1>2 DEF TakenInv, Counting
<1>4. op'[c].pc = "stop" /\ \A d \in Clients : d # c => op'[d] = op[d]
  BY <1>1, <1>2
<1>5. TraceTypeOK'
  <2>1. op' \in [Clients -> OpStates]
    BY <1>1, <1>2 DEF OpStates
  <2>2. trace' \in [active : BOOLEAN, generation : 0..(2 * MaxOps), owned : Nat \cup {None}]
    BY <1>1, <1>2, <1>3
  <2> QED
    BY <1>1, <1>2, <2>1, <2>2 DEF TraceTypeOK, IsRecording
<1>6. TakenInv'
  <2> USE DEF TakenInv
  <2>1. Counting'
    BY <1>1, <1>2, <1>3 DEF Counting
  <2>2. Fresh' /\ NotSpawned' /\ OneEach'
    BY <1>1, <1>2, <1>4 DEF Fresh, NotSpawned, OneEach, Starting, Generations
  <2>3. NotOwned'
    BY <1>1 DEF NotOwned
  <2> QED
    BY <2>1, <2>2, <2>3
<1>7. Held'
  BY <1>1, <1>2, <1>4 DEF Held, HeldOk
<1>8. FramesOk'
  BY <1>1 DEF FramesOk, FramesAreOfOneTrace
<1>9. NoOwnerlessRecording'
  <2>1. ASSUME NEW r, WithHandler(r) PROVE WithHandler(r)'
    BY <1>1, <1>4, <2>1 DEF WithHandler, Minds
  <2>2. ASSUME NEW r, WithTrace(r) PROVE WithHandler(r)'
    BY <1>1, <1>2, <2>2 DEF WithTrace, WithHandler, Minds
  <2>3. ASSUME NEW r, WithTask(r) PROVE WithTask(r)'
    BY <1>1, <2>3 DEF WithTask
  <2> QED
    BY <1>1, <2>1, <2>2, <2>3 DEF NoOwnerlessRecording, ByTrace, IsRecording
<1> QED
  BY <1>5, <1>6, <1>7, <1>8, <1>9

LEMMA StopOwnedStep ==
    ASSUME TraceInv, NEW c \in Clients, StopOwned(c)
    PROVE  TraceInv'
<1> USE RecorderAssumption, TraceAssumption DEF TraceInv
<1>1. /\ op[c].pc = "stop" /\ StopIfGeneration(op[c].rec)
      /\ op' = [op EXCEPT ![c] = NoOp]
      /\ UNCHANGED <<trace, frames, task, epoch, ops, by, latest>>
  BY DEF StopOwned, traceVars
<1>2. op \in [Clients -> OpStates] /\ ops \in Nat /\ trace.generation \in Nat
  BY DEF TraceTypeOK
<1>3. op'[c].pc = "idle" /\ \A d \in Clients : d # c => op'[d] = op[d]
  BY <1>1, <1>2 DEF NoOp
<1>4. /\ generations' = generations
      /\ IsRecording' => recording' = recording /\ IsRecording /\ recording.generation # op[c].rec
  BY <1>1, StopKeeps
<1>5. op' \in [Clients -> OpStates]
  BY <1>1, <1>2 DEF OpStates
<1>6. TraceTypeOK'
  BY <1>1, <1>4, <1>5 DEF TraceTypeOK
<1>7. TakenInv'
  BY <1>1, <1>2, <1>3, TakenStep DEF Starting, Early
<1>8. Held'
  BY <1>1, <1>3, <1>4 DEF Held, HeldOk
<1>9. FramesOk'
  BY <1>1 DEF FramesOk, FramesAreOfOneTrace
<1>10. NoOwnerlessRecording'
  BY <1>1, <1>3, <1>4, HandsStay DEF ByTrace, Minds
<1> QED
  BY <1>6, <1>7, <1>8, <1>9, <1>10

LEMMA StartRecordingStep ==
    ASSUME TraceInv, NEW c \in Clients, StartRecording(c)
    PROVE  TraceInv'
<1> USE RecorderAssumption, TraceAssumption DEF TraceInv
<1> DEFINE n == generations + 1
<1>1. /\ op[c].pc = "idle" /\ ops' = ops + 1 /\ ops < MaxOps
      /\ op' = [op EXCEPT ![c] = [pc |-> "mark", rec |-> n]]
      /\ generations' = n /\ recording'.generation = n /\ by' = Append(by, "client")
      /\ UNCHANGED <<trace, frames, task, epoch, latest>>
  BY DEF StartRecording, StartSession, Begin, NoOp, traceVars
<1>2. /\ op \in [Clients -> OpStates] /\ ops \in 0..MaxOps /\ trace.generation \in Nat
      /\ generations \in Nat /\ by \in Seq({"trace", "client"}) /\ Len(by) = generations
  BY DEF TraceTypeOK
<1>3. /\ by' \in Seq({"trace", "client"}) /\ Len(by') = n /\ by'[n] = "client"
      /\ \A r \in 1..generations : by'[r] = by[r]
  BY <1>1, <1>2
<1>4. op'[c].pc = "mark" /\ \A d \in Clients : d # c => op'[d] = op[d]
  BY <1>1, <1>2
<1>5. op' \in [Clients -> OpStates]
  BY <1>1, <1>2 DEF OpStates
<1>6. TraceTypeOK'
  BY <1>1, <1>2, <1>3, <1>5 DEF TraceTypeOK
<1>7. TakenInv'
  BY <1>1, <1>2, <1>4, TakenStep DEF Starting, Early
<1>8. Held'
  BY <1>1, <1>2, <1>3, <1>4 DEF Held, HeldOk
<1>9. FramesOk'
  BY <1>1 DEF FramesOk, FramesAreOfOneTrace
<1>10. NoOwnerlessRecording'
  BY <1>1, <1>3 DEF NoOwnerlessRecording, ByTrace
<1> QED
  BY <1>6, <1>7, <1>8, <1>9, <1>10

LEMMA MarkRecordingStep ==
    ASSUME TraceInv, NEW c \in Clients, MarkRecording(c)
    PROVE  TraceInv'
<1> USE RecorderAssumption, TraceAssumption DEF TraceInv
<1>1. /\ op[c].pc = "mark" /\ op[c].rec \in Nat
      /\ op' = [op EXCEPT ![c] = NoOp] /\ epoch' \in {epoch, op[c].rec}
      /\ UNCHANGED <<recording, lastSession, generations, trace, frames, task, ops, by, latest>>
  BY Shapes DEF MarkRecording, ResetMarks, recVars, traceVars
<1>2. op \in [Clients -> OpStates] /\ ops \in Nat /\ trace.generation \in Nat
  BY DEF TraceTypeOK
<1>3. op'[c].pc = "idle" /\ \A d \in Clients : d # c => op'[d] = op[d]
  BY <1>1, <1>2 DEF NoOp
<1>4. op' \in [Clients -> OpStates]
  BY <1>1, <1>2 DEF OpStates
<1>5. TraceTypeOK'
  BY <1>1, <1>4 DEF TraceTypeOK, IsRecording
<1>6. TakenInv'
  BY <1>1, <1>2, <1>3, TakenStep DEF Starting, Early
<1>7. Held'
  BY <1>1, <1>3 DEF Held, HeldOk
<1>8. FramesOk'
  BY <1>1 DEF FramesOk, FramesAreOfOneTrace
<1>9. NoOwnerlessRecording'
  BY <1>1, <1>3, HandsStay DEF ByTrace, IsRecording, Minds
<1> QED
  BY <1>5, <1>6, <1>7, <1>8, <1>9

LEMMA StopRecordingStep ==
    ASSUME TraceInv, NEW c \in Clients, StopRecording(c)
    PROVE  TraceInv'
<1> USE RecorderAssumption, TraceAssumption DEF TraceInv
<1>1. /\ op[c].pc = "idle" /\ ops' = ops + 1 /\ ops < MaxOps
      /\ recording' = None /\ generations' = generations
      /\ UNCHANGED <<trace, frames, task, epoch, op, by, latest>>
  BY DEF StopRecording, Stop, Finish, Begin, NoOp, traceVars
<1>2. ops \in 0..MaxOps /\ trace.generation \in Nat
  BY DEF TraceTypeOK
<1>3. TraceTypeOK'
  BY <1>1, <1>2 DEF TraceTypeOK, IsRecording
<1>4. TakenInv'
  BY <1>1, <1>2, TakenStep DEF Starting, Early
<1>5. Held'
  BY <1>1 DEF Held, HeldOk
<1>6. FramesOk'
  BY <1>1 DEF FramesOk, FramesAreOfOneTrace
<1>7. NoOwnerlessRecording'
  BY <1>1 DEF NoOwnerlessRecording, ByTrace, IsRecording
<1> QED
  BY <1>3, <1>4, <1>5, <1>6, <1>7
-----------------------------------------------------------------------------
(* The capture tasks. *)

(* The task of a generation goes on, and what it holds of a recording stays
   with it.                                                                *)
LEMMA TaskGoesOn ==
    ASSUME TraceInv, NEW g \in Generations, task[g].pc \in {"loop", "capturing"},
           NEW p \in {"loop", "capturing"}, task' = [task EXCEPT ![g].pc = p],
           UNCHANGED <<recVars, trace, epoch, op, ops, by, latest>>,
           frames' \in Seq(Nat), Len(frames') <= MaxFrames, FramesOk'
    PROVE  TraceInv'
<1> USE RecorderAssumption, TraceAssumption DEF TraceInv
<1>1. task \in [Generations -> TaskStates]
  BY DEF TraceTypeOK
<1>2. task[g] \in [pc : {"loop", "capturing"}]
  <2>1. task[g] \in TaskStates
    BY <1>1
  <2> QED
    BY <2>1 DEF TaskStates, NoTask
<1>3. task' = [task EXCEPT ![g] = [pc |-> p]]
  <2>1. [task[g] EXCEPT !.pc = p] = [pc |-> p]
    BY <1>2
  <2> QED
    BY <2>1
<1>4. UNCHANGED <<recording, lastSession, generations, trace, epoch, op, ops, by, latest>>
  BY DEF recVars
<1>5. task[g] # NoTask
  BY DEF NoTask
<1>6. TraceTypeOK'
  <2>1. task' \in [Generations -> TaskStates]
    BY <1>1, <1>3 DEF TaskStates
  <2> QED
    BY <1>4, <2>1 DEF TraceTypeOK, IsRecording
<1>7. TakenInv'
  <2> USE DEF TakenInv
  <2>1. Counting' /\ OneEach' /\ NotOwned'
    BY <1>4 DEF Counting, OneEach, NotOwned, IsCurrent
  <2>2. Fresh' /\ NotSpawned'
    BY <1>1, <1>3, <1>4, <1>5 DEF Fresh, NotSpawned
  <2> QED
    BY <2>1, <2>2
<1>8. Held'
  <2>1. \A h \in Generations : task'[h].pc = "dropping" => task'[h] = task[h]
    BY <1>1, <1>3
  <2> QED
    BY <1>4, <2>1 DEF Held, HeldOk
<1>9. NoOwnerlessRecording'
  <2>1. ASSUME NEW r, WithHandler(r) PROVE WithHandler(r)'
    BY <1>4, <2>1 DEF WithHandler, Minds
  <2>2. ASSUME NEW r, WithTrace(r) PROVE WithTrace(r)'
    BY <1>1, <1>3, <1>4, <2>2 DEF WithTrace, TaskAlive
  <2>3. ASSUME NEW r, WithTask(r) PROVE WithTask(r)'
    BY <1>1, <1>3, <2>3 DEF WithTask
  <2> QED
    BY <1>4, <2>1, <2>2, <2>3 DEF NoOwnerlessRecording, ByTrace, IsRecording
<1> QED
  BY <1>6, <1>7, <1>8, <1>9

LEMMA CaptureStep ==
    ASSUME TraceInv, NEW g \in Generations, Capture(g)
    PROVE  TraceInv'
<1>1. /\ UNCHANGED <<recVars, trace, epoch, op, ops, by, latest>> /\ frames' = frames
      /\ task[g].pc = "loop" /\ task' = [task EXCEPT ![g].pc = "capturing"]
  BY DEF Capture, traceVars
<1>2. FramesOk'
  BY <1>1 DEF TraceInv, FramesOk, FramesAreOfOneTrace
<1>3. frames' \in Seq(Nat) /\ Len(frames') <= MaxFrames
  BY <1>1 DEF TraceInv, TraceTypeOK
<1> QED
  BY <1>1, <1>2, <1>3, TaskGoesOn

(* The newest of a ring's entries are entries of it, and fit. *)
LEMMA NewestOfRing ==
    ASSUME NEW S, NEW s \in Seq(S), NEW n \in Nat \ {0}
    PROVE  /\ Newest(s, n) \in Seq(S) /\ Len(Newest(s, n)) <= n
           /\ \A k \in DOMAIN Newest(s, n) : \E j \in DOMAIN s : Newest(s, n)[k] = s[j]
<1>1. CASE Len(s) <= n
  BY <1>1 DEF Newest
<1>2. CASE Len(s) > n
  <2> DEFINE m == Len(s) - n + 1
  <2>1. Newest(s, n) = SubSeq(s, m, Len(s))
    BY <1>2 DEF Newest
  <2>2. m \in 1..Len(s) /\ Len(s) \in Nat
    BY <1>2
  <2>3. /\ SubSeq(s, m, Len(s)) \in Seq(S) /\ Len(SubSeq(s, m, Len(s))) = n
        /\ DOMAIN SubSeq(s, m, Len(s)) = 1..n
        /\ \A k \in 1..n : SubSeq(s, m, Len(s))[k] = s[m + k - 1]
    BY <2>2
  <2>4. \A k \in 1..n : m + k - 1 \in DOMAIN s
    BY <2>2
  <2> DEFINE u == SubSeq(s, m, Len(s))
  <2>5. /\ u \in Seq(S) /\ Len(u) = n /\ DOMAIN u = 1..n
        /\ \A k \in 1..n : \E j \in DOMAIN s : u[k] = s[j]
    BY <2>3, <2>4
  <2>6. Newest(s, n) = u
    BY <2>1
  <2> HIDE DEF m, u
  <2> QED
    BY <2>5, <2>6
<1> QED
  BY <1>1, <1>2

LEMMA PushFrameStep ==
    ASSUME TraceInv, NEW g \in Generations, PushFrame(g)
    PROVE  TraceInv'
<1> USE RecorderAssumption, TraceAssumption DEF TraceInv
<1>1. /\ UNCHANGED <<recVars, trace, epoch, op, ops, by, latest>>
      /\ task[g].pc = "capturing" /\ task' = [task EXCEPT ![g].pc = "loop"]
      /\ frames' = IF IsCurrent(g) THEN Newest(Append(frames, g), MaxFrames) ELSE frames
  BY DEF PushFrame, PushFrameIfCurrent
<1>2. frames \in Seq(Nat) /\ Len(frames) <= MaxFrames /\ g \in Nat
  BY DEF TraceTypeOK, Generations
<1>3. CASE ~IsCurrent(g)
  BY <1>1, <1>2, <1>3, TaskGoesOn DEF FramesOk, FramesAreOfOneTrace
<1>4. CASE IsCurrent(g)
  <2> DEFINE longer == Append(frames, g)
  <2>1. longer \in Seq(Nat) /\ frames' = Newest(longer, MaxFrames)
    BY <1>1, <1>2, <1>4
  <2>2. \A j \in DOMAIN longer : longer[j] = latest
    BY <1>2, <1>4 DEF FramesOk, FramesAreOfOneTrace, IsCurrent
  <2> HIDE DEF longer
  <2>3. /\ frames' \in Seq(Nat) /\ Len(frames') <= MaxFrames
        /\ \A k \in DOMAIN frames' : \E j \in DOMAIN longer : frames'[k] = longer[j]
    BY <2>1, NewestOfRing
  <2>4. FramesOk'
    BY <1>1, <2>2, <2>3 DEF FramesOk, FramesAreOfOneTrace
  <2> QED
    BY <1>1, <2>3, <2>4, TaskGoesOn
<1> QED
  BY <1>3, <1>4

LEMMA TaskEndsStep ==
    ASSUME TraceInv, NEW g \in Generations, TaskEnds(g)
    PROVE  TraceInv'
<1> USE RecorderAssumption, TraceAssumption DEF TraceInv
<1>1. /\ task[g].pc \in {"loop", "capturing"}
      /\ UNCHANGED <<recording, lastSession, generations, frames, epoch, op, ops, by, latest>>
  BY DEF TaskEnds, recVars
<1>2. /\ task \in [Generations -> TaskStates] /\ ops \in Nat /\ trace.generation \in Nat
      /\ trace.owned \in Nat \cup {None}
  BY DEF TraceTypeOK
<1>3. task[g] # NoTask
  BY <1>1 DEF NoTask
<1>4. NotSpawned /\ Fresh /\ Counting /\ OneEach
  BY DEF TakenInv
<1>5. CASE ~IsCurrent(g)
  <2>1. task' = [task EXCEPT ![g] = NoTask] /\ trace' = trace
    BY <1>5 DEF TaskEnds
  <2>2. TraceTypeOK'
    <3>1. task' \in [Generations -> TaskStates]
      BY <1>2, <2>1 DEF TaskStates
    <3> QED
      BY <1>1, <2>1, <3>1 DEF TraceTypeOK, IsRecording
  <2>3. TakenInv'
    BY <1>1, <1>2, <2>1 DEF TakenInv, Counting, Fresh, NotSpawned, OneEach, NotOwned, IsCurrent
  <2>4. Held'
    <3>1. \A h \in Generations : task'[h].pc = "dropping" => task'[h] = task[h]
      BY <1>2, <2>1 DEF NoTask
    <3> QED
      BY <1>1, <2>1, <3>1 DEF Held, HeldOk
  <2>5. FramesOk'
    BY <1>1, <2>1 DEF FramesOk, FramesAreOfOneTrace
  <2>6. NoOwnerlessRecording'
    <3>1. ASSUME NEW r, WithHandler(r) PROVE WithHandler(r)'
      BY <1>1, <3>1 DEF WithHandler, Minds
    <3>2. ASSUME NEW r, WithTrace(r) PROVE WithTrace(r)'
      BY <1>1, <1>2, <1>5, <2>1, <3>2 DEF WithTrace, TaskAlive, IsCurrent
    <3>3. ASSUME NEW r, WithTask(r) PROVE WithTask(r)'
      BY <1>1, <1>2, <2>1, <3>3 DEF WithTask
    <3> QED
      BY <1>1, <3>1, <3>2, <3>3 DEF NoOwnerlessRecording, ByTrace, IsRecording
  <2> QED
    BY <2>2, <2>3, <2>4, <2>5, <2>6
<1>6. CASE IsCurrent(g)
  <2>1. /\ trace' = [active |-> FALSE, generation |-> trace.generation + 1, owned |-> None]
        /\ task' = [task EXCEPT ![g] = [pc |-> "dropping", rec |-> trace.owned]]
        /\ trace.active /\ trace.generation = g
    BY <1>6 DEF TaskEnds, ScreencastStop, IsCurrent
  <2>2. trace.generation + 1 <= 2 * ops
    BY <1>2, <1>4, <2>1 DEF Counting
  <2>3. TraceTypeOK'
    <3>1. task' \in [Generations -> TaskStates]
      BY <1>2, <2>1 DEF TaskStates
    <3>2. ops \in 0..MaxOps
      BY DEF TraceTypeOK
    <3>3. trace' \in [active : BOOLEAN, generation : 0..(2 * MaxOps), owned : Nat \cup {None}]
      BY <1>2, <2>1, <2>2, <3>2
    <3> QED
      BY <1>1, <3>1, <3>3 DEF TraceTypeOK, IsRecording
  <2>4. TakenInv'
    <3>1. Counting'
      BY <1>1, <1>2, <2>1, <2>2 DEF Counting
    <3>2. Fresh'
      BY <1>2, <1>4, <2>1 DEF Fresh, Generations
    <3>3. NotSpawned'
      BY <1>1, <1>2, <1>3, <1>4, <2>1 DEF NotSpawned
    <3>4. OneEach' /\ NotOwned'
      BY <1>1, <1>4, <2>1 DEF OneEach, NotOwned
    <3> QED
      BY <3>1, <3>2, <3>3, <3>4 DEF TakenInv
  <2>5. Held'
    BY <1>1, <1>2, <2>1 DEF Held, HeldOk
  <2>6. FramesOk'
    BY <1>1, <2>1 DEF FramesOk, FramesAreOfOneTrace
  <2>7. NoOwnerlessRecording'
    <3>1. ASSUME NEW r, WithHandler(r) PROVE WithHandler(r)'
      BY <1>1, <3>1 DEF WithHandler, Minds
    <3>2. ASSUME NEW r, WithTrace(r) PROVE WithTask(r)'
      BY <1>2, <2>1, <3>2 DEF WithTrace, WithTask
    <3>3. ASSUME NEW r, WithTask(r) PROVE WithTask(r)'
      BY <1>1, <1>2, <2>1, <3>3 DEF WithTask
    <3> QED
      BY <1>1, <3>1, <3>2, <3>3 DEF NoOwnerlessRecording, ByTrace, IsRecording
  <2> QED
    BY <2>3, <2>4, <2>5, <2>6, <2>7
<1> QED
  BY <1>5, <1>6

LEMMA TaskStopsStep ==
    ASSUME TraceInv, NEW g \in Generations, TaskStops(g)
    PROVE  TraceInv'
<1> USE RecorderAssumption, TraceAssumption DEF TraceInv
<1>1. /\ task[g].pc = "dropping" /\ StopIfGeneration(task[g].rec)
      /\ task' = [task EXCEPT ![g] = NoTask]
      /\ UNCHANGED <<trace, frames, epoch, op, ops, by, latest>>
  BY DEF TaskStops, traceVars
<1>2. task \in [Generations -> TaskStates]
  BY DEF TraceTypeOK
<1>3. /\ generations' = generations
      /\ IsRecording' => recording' = recording /\ IsRecording /\ recording.generation # task[g].rec
  BY <1>1, StopKeeps
<1>4. TraceTypeOK'
  <2>1. task' \in [Generations -> TaskStates]
    BY <1>1, <1>2 DEF TaskStates
  <2> QED
    BY <1>1, <1>3, <2>1 DEF TraceTypeOK
<1>5. TakenInv'
  BY <1>1, <1>2 DEF TakenInv, Counting, Fresh, NotSpawned, OneEach, NotOwned, IsCurrent
<1>6. Held'
  <2>1. \A h \in Generations : task'[h].pc = "dropping" => task'[h] = task[h]
    BY <1>1, <1>2 DEF NoTask
  <2> QED
    BY <1>1, <1>3, <2>1 DEF Held, HeldOk
<1>7. FramesOk'
  BY <1>1 DEF FramesOk, FramesAreOfOneTrace
<1>8. NoOwnerlessRecording'
  <2> SUFFICES ASSUME ByTrace'
      PROVE  WithTrace(recording.generation)' \/ WithHandler(recording.generation)'
               \/ WithTask(recording.generation)'
    BY DEF NoOwnerlessRecording
  <2>1. recording' = recording /\ ByTrace /\ recording.generation # task[g].rec
    BY <1>1, <1>3 DEF ByTrace
  <2>2. CASE WithTrace(recording.generation)
    BY <1>1, <1>2, <2>1, <2>2 DEF WithTrace, TaskAlive
  <2>3. CASE WithHandler(recording.generation)
    BY <1>1, <2>1, <2>3 DEF WithHandler, Minds
  <2>4. CASE WithTask(recording.generation)
    BY <1>1, <1>2, <2>1, <2>4 DEF WithTask
  <2> QED
    BY <2>1, <2>2, <2>3, <2>4 DEF NoOwnerlessRecording
<1> QED
  BY <1>4, <1>5, <1>6, <1>7, <1>8
-----------------------------------------------------------------------------
LEMMA TraceInitInv == TraceInit => TraceInv
<1> SUFFICES ASSUME TraceInit PROVE TraceInv
  OBVIOUS
<1> USE RecorderAssumption, TraceAssumption DEF TraceInit, RecInit
<1>1. TraceTypeOK
  BY DEF TraceTypeOK, IsRecording, OpStates, TaskStates
<1>2. TakenInv
  BY DEF TakenInv, Counting, Fresh, NotSpawned, OneEach, NotOwned, Starting, NoOp
<1>3. Held
  BY DEF Held, HeldOk, NoOp, NoTask
<1>4. FramesOk
  BY DEF FramesOk, FramesAreOfOneTrace
<1>5. NoOwnerlessRecording
  BY DEF NoOwnerlessRecording, ByTrace, IsRecording
<1> QED
  BY <1>1, <1>2, <1>3, <1>4, <1>5 DEF TraceInv

LEMMA TraceStep == TraceInv /\ [TraceNext]_traceAllVars => TraceInv'
<1> SUFFICES ASSUME TraceInv, [TraceNext]_traceAllVars PROVE TraceInv'
  OBVIOUS
<1>1. ASSUME NEW c \in Clients, RequestTrace(c) PROVE TraceInv'
  BY <1>1, StartTraceStep, StopTraceStep, StartRecordingStep, StopRecordingStep DEF RequestTrace
<1>2. ASSUME NEW c \in Clients, Handler(c) PROVE TraceInv'
  BY <1>2, SupersedeStep, RecordStep, ResetStep, OwnStep, DisownStep, SpawnTaskStep,
     StopOwnedStep, MarkRecordingStep DEF Handler
<1>3. ASSUME NEW g \in Generations, Capture(g) \/ PushFrame(g) \/ Ending(g) PROVE TraceInv'
  BY <1>3, CaptureStep, PushFrameStep, TaskEndsStep, TaskStopsStep DEF Ending
<1>4. CASE UNCHANGED traceAllVars
  <2>1. UNCHANGED <<recording, lastSession, generations, trace, frames, task, epoch, op, ops, by, latest>>
    BY <1>4 DEF traceAllVars, recVars, traceVars
  <2> QED
    BY <2>1 DEF TraceInv, TraceTypeOK, TakenInv, Counting, Fresh, NotSpawned, OneEach, NotOwned,
                IsCurrent, Held, HeldOk, FramesOk, FramesAreOfOneTrace, NoOwnerlessRecording,
                ByTrace, IsRecording, WithTrace, WithHandler, WithTask, TaskAlive, Minds
<1> QED
  BY <1>1, <1>2, <1>3, <1>4 DEF TraceNext

(* However many clients start and stop traces and recordings at once, and
   whenever capture tasks end by themselves: the recording a trace started
   is in the hands of someone who will end it, and the frames are all of the
   trace that started last.                                                *)
THEOREM TracesOwnTheirsAlways == TraceSpec => [](TraceTypeOK /\ TracesOwnTheirs)
<1>1. TraceInv => TraceTypeOK /\ TracesOwnTheirs
  BY DEF TraceInv, FramesOk, TracesOwnTheirs
<1> QED
  BY <1>1, TraceInitInv, TraceStep, PTL DEF TraceSpec

(* A recording that a client started is ended by a client's stop alone: no
   trace, however late its handlers and tasks come to stop what they own.  *)
THEOREM ClientsEndTheirOwnAlways == TraceSpec => ClientsEndTheirOwn
<1>1. TraceInv /\ [TraceNext]_traceAllVars =>
        [IsRecording /\ by[recording.generation] = "client" /\ recording' # recording
           => \E c \in Clients : StopRecording(c)]_traceAllVars
  <2> SUFFICES ASSUME TraceInv, TraceNext, IsRecording, by[recording.generation] = "client",
                      recording' # recording
      PROVE  \E c \in Clients : StopRecording(c)
    OBVIOUS
  <2>1. TraceTypeOK /\ Held
    BY DEF TraceInv
  <2>2. ASSUME NEW c \in Clients, RequestTrace(c) PROVE \E d \in Clients : StopRecording(d)
    BY <2>2 DEF RequestTrace, StartTrace, StopTrace, StartRecording, StartSession, recVars
  <2>3. ASSUME NEW c \in Clients, Handler(c) PROVE FALSE
    <3>1. CASE Supersede(c)
      BY <2>1, <3>1, StopKeeps DEF Supersede, Held
    <3>2. CASE Record(c)
      BY <3>2 DEF Record, recVars
    <3>3. CASE Reset(c) \/ Own(c) \/ SpawnTask(c) \/ MarkRecording(c)
      BY <3>3 DEF Reset, Own, SpawnTask, MarkRecording, recVars
    <3>4. CASE Disown(c)
      BY <2>1, <3>4, StopKeeps DEF Disown, Held
    <3>5. CASE StopOwned(c)
      BY <2>1, <3>5, StopKeeps DEF StopOwned, Held
    <3> QED
      BY <2>3, <3>1, <3>2, <3>3, <3>4, <3>5 DEF Handler
  <2>4. ASSUME NEW g \in Generations, Capture(g) \/ PushFrame(g) \/ TaskEnds(g) PROVE FALSE
    BY <2>4 DEF Capture, PushFrame, TaskEnds, recVars
  <2>5. ASSUME NEW g \in Generations, TaskStops(g) PROVE FALSE
    BY <2>1, <2>5, StopKeeps DEF TaskStops, Held
  <2> QED
    BY <2>2, <2>3, <2>4, <2>5 DEF TraceNext, Ending
<1> QED
  BY <1>1, TraceInitInv, TraceStep, PTL DEF TraceSpec, ClientsEndTheirOwn

-----------------------------------------------------------------------------

(***************************************************************************)
(* NeverSwitches for any number of processes, ports and applications.  It  *)
(* is not inductive: a selector that names a process must go on naming it, *)
(* although the process found is pinned again every time it is followed.   *)
(* What is missing is that a process with an entry is one that was         *)
(* launched, and so keeps its identity (Known), and that only an           *)
(* application without a name is pinned by its process (Pinning).          *)
(***************************************************************************)

(* Whoever runs or has an entry was launched, on some port. *)
Known == \A p \in alive \cup entries : kind[p] # Absent /\ port[p] \in Ports

(* What the watchdog holds once it has resolved an application. *)
Pinning ==
    /\ loopAt = "start" => watched = Absent
    /\ watched # Absent =>
         /\ selector = watched
         /\ target.pid \in Pids /\ kind[target.pid] # Absent
         /\ \/ watched.by = "pinned" /\ watched.name = IdentityOf(target.pid)
            \/ watched = Pid(target.pid) /\ IdentityOf(target.pid) = Absent

DogInv == WatchdogTypeOK /\ Known /\ Pinning
-----------------------------------------------------------------------------
(* Discovery finds a launched process that the selector matches, or none. *)
LEMMA DiscoveredIsACandidate ==
    ASSUME NEW s, Discovered(s) # Absent
    PROVE  Discovered(s) \in entries \cap alive /\ SelectorMatches(s, Discovered(s))
<1>1. Cardinality(Candidates(s)) = 1
  BY DEF Discovered
<1>2. Candidates(s) # {}
  BY <1>1, FS_EmptySet
<1>3. Discovered(s) \in Candidates(s)
  BY <1>1, <1>2 DEF Discovered
<1> QED
  BY <1>3 DEF Candidates

(* Taking a process the selector matches as the target leaves the watchdog
   pinned to that process's application; a pin that stands is not moved.   *)
LEMMA ResolveKeepsThePin ==
    ASSUME DogInv, NEW p \in Pids, kind[p] # Absent, port[p] \in Ports,
           SelectorMatches(selector, p), Resolve(p), target' = TargetOf(p),
           UNCHANGED appVars, loopAt' # "start"
    PROVE  /\ Pinning'
           /\ selector'.by \in {"any", "app", "pinned", "pid"}
           /\ target' \in [port : Ports \cup {Absent}, pid : Pids \cup {Absent}]
<1>1. target'.pid = p /\ kind' = kind
  BY DEF TargetOf, appVars
<1>2. IdentityOf(p)' = IdentityOf(p)
  BY <1>1 DEF IdentityOf
<1>3. \/ PinTo(selector, p) = selector /\ selector.by = "pinned" /\ selector.name = IdentityOf(p)
      \/ PinTo(selector, p) = Pinned(IdentityOf(p)) /\ selector.by # "pinned" /\ IdentityOf(p) # Absent
      \/ PinTo(selector, p) = Pid(p) /\ selector.by # "pinned" /\ IdentityOf(p) = Absent
  BY DEF PinTo, SelectorMatches
<1>4. PinTo(selector, p).by \in {"pinned", "pid"}
  BY <1>3 DEF Pinned, Pid
<1>5. watched # Absent => PinTo(selector, p) = watched
  <2> SUFFICES ASSUME watched # Absent PROVE PinTo(selector, p) = watched
    OBVIOUS
  <2>1. selector = watched
    BY DEF DogInv, Pinning
  <2>2. CASE watched.by = "pinned"
    BY <2>1, <2>2 DEF PinTo
  <2>3. CASE watched = Pid(target.pid) /\ IdentityOf(target.pid) = Absent
    <3>1. p = target.pid
      BY <2>1, <2>3 DEF SelectorMatches, Pid
    <3> QED
      BY <2>1, <2>3, <3>1, <1>3 DEF Pid
  <2> QED
    BY <2>2, <2>3 DEF DogInv, Pinning
<1>6. selector' = PinTo(selector, p) /\ watched' = PinTo(selector, p)
  BY <1>5 DEF Resolve
<1>7. \/ watched'.by = "pinned" /\ watched'.name = IdentityOf(p)
      \/ watched' = Pid(p) /\ IdentityOf(p) = Absent
  BY <1>3, <1>6 DEF Pinned
<1>8. Pinning'
  BY <1>1, <1>2, <1>6, <1>7 DEF Pinning, Pid
<1>9. target' \in [port : Ports \cup {Absent}, pid : Pids \cup {Absent}]
  BY DEF TargetOf
<1> QED
  BY <1>4, <1>6, <1>8, <1>9

(* Nothing an application does moves the pin: what was launched stays what
   it is.                                                                  *)
LEMMA ApplicationsStep ==
    ASSUME DogInv, Applications
    PROVE  DogInv'
<1> USE WatchdogAssumption
<1>1. /\ WatchdogTypeOK'
      /\ Known'
      /\ \A p \in Pids : kind[p] # Absent => kind'[p] = kind[p]
  <2>1. ASSUME NEW p \in Pids, NEW k \in AppKinds, NEW n \in Ports, Launch(p, k, n)
        PROVE  /\ WatchdogTypeOK' /\ Known'
               /\ \A q \in Pids : kind[q] # Absent => kind'[q] = kind[q]
    BY <2>1 DEF DogInv, WatchdogTypeOK, Known, Launch, dogVars
  <2>2. ASSUME NEW p \in Pids, Publish(p) \/ Hang(p) \/ Recover(p) \/ Die(p)
        PROVE  /\ WatchdogTypeOK' /\ Known'
               /\ \A q \in Pids : kind[q] # Absent => kind'[q] = kind[q]
    BY <2>2 DEF DogInv, WatchdogTypeOK, Known, Publish, Hang, Recover, Die, dogVars
  <2> QED
    BY <2>1, <2>2 DEF Applications
<1>2. UNCHANGED dogVars
  BY DEF Applications, Launch, Publish, Hang, Recover, Die
<1>3. Pinning'
  BY <1>1, <1>2 DEF DogInv, Pinning, IdentityOf, Pid, dogVars
<1> QED
  BY <1>1, <1>3 DEF DogInv

LEMMA StartStep ==
    ASSUME DogInv, Start
    PROVE  DogInv'
<1> USE WatchdogAssumption
<1> DEFINE p == IF config.explicit THEN Absent ELSE Discovered(selector)
<1>1. /\ loopAt = "start" /\ loopAt' = "poll"
      /\ target' = InitialTarget(config, p)
      /\ p = Absent => UNCHANGED <<selector, watched>>
      /\ p # Absent => Resolve(p)
      /\ UNCHANGED <<config, failures, fired>> /\ UNCHANGED appVars
  BY DEF Start
<1>2. Known'
  BY <1>1 DEF DogInv, Known, appVars
<1>3. CASE p = Absent
  <2>1. watched' = Absent
    BY <1>1, <1>3 DEF DogInv, Pinning
  <2>2. target' \in [port : Ports \cup {Absent}, pid : Pids \cup {Absent}]
    BY <1>1, <1>3 DEF InitialTarget, Portless
  <2> QED
    BY <1>1, <1>2, <1>3, <2>1, <2>2 DEF DogInv, WatchdogTypeOK, Pinning, appVars
<1>4. CASE p # Absent
  <2>1. ~config.explicit /\ p = Discovered(selector)
    BY <1>4
  <2>2. p \in entries \cap alive /\ SelectorMatches(selector, p)
    BY <1>4, <2>1, DiscoveredIsACandidate
  <2>3. p \in Pids /\ kind[p] # Absent /\ port[p] \in Ports
    BY <2>2 DEF DogInv, WatchdogTypeOK, Known
  <2> HIDE DEF p
  <2>4. target' = TargetOf(p)
    BY <1>1, <1>4, <2>1 DEF InitialTarget
  <2>5. /\ Pinning'
        /\ selector'.by \in {"any", "app", "pinned", "pid"}
        /\ target' \in [port : Ports \cup {Absent}, pid : Pids \cup {Absent}]
    BY <1>1, <1>4, <2>2, <2>3, <2>4, ResolveKeepsThePin
  <2>6. WatchdogTypeOK'
    BY <1>1, <2>5 DEF DogInv, WatchdogTypeOK, appVars
  <2> QED
    BY <1>2, <2>5, <2>6 DEF DogInv
<1> QED
  BY <1>3, <1>4

LEMMA FollowStep ==
    ASSUME DogInv, Follow
    PROVE  DogInv'
<1> USE WatchdogAssumption
<1> DEFINE p == Discovered(selector)
<1>1. /\ loopAt = "follow" /\ loopAt' = "act"
      /\ UNCHANGED <<config, failures, fired>> /\ UNCHANGED appVars
  BY DEF Follow
<1>2. Known'
  BY <1>1 DEF DogInv, Known, appVars
<1>3. CASE UNCHANGED <<target, selector, watched>>
  BY <1>1, <1>2, <1>3 DEF DogInv, WatchdogTypeOK, Pinning, IdentityOf, Pid, appVars
<1>4. CASE p # Absent /\ target' = TargetOf(p) /\ Resolve(p)
  <2>1. p \in entries \cap alive /\ SelectorMatches(selector, p)
    BY <1>4, DiscoveredIsACandidate
  <2>2. p \in Pids /\ kind[p] # Absent /\ port[p] \in Ports
    BY <2>1 DEF DogInv, WatchdogTypeOK, Known
  <2>3. /\ Pinning'
        /\ selector'.by \in {"any", "app", "pinned", "pid"}
        /\ target' \in [port : Ports \cup {Absent}, pid : Pids \cup {Absent}]
    BY <1>1, <1>4, <2>1, <2>2, ResolveKeepsThePin
  <2>4. WatchdogTypeOK'
    BY <1>1, <2>3 DEF DogInv, WatchdogTypeOK, appVars
  <2> QED
    BY <1>2, <2>3, <2>4 DEF DogInv
<1> QED
  BY <1>3, <1>4 DEF Follow

LEMMA PollStep ==
    ASSUME DogInv, CheckProcess \/ AskHealth \/ Act
    PROVE  DogInv'
<1> USE WatchdogAssumption
<1>1. /\ UNCHANGED <<config, selector, target, watched>> /\ UNCHANGED appVars
      /\ loopAt' \in {"poll", "http", "follow"}
  BY DEF CheckProcess, AskHealth, Act, Failed
<1>2. failures' \in 0 .. MaxFailures /\ fired' \in BOOLEAN
  <2>1. failures' \in 0 .. MaxFailures
    <3>1. \/ failures' = failures
          \/ failures' = 0
          \/ failures' = IF failures < MaxFailures THEN failures + 1 ELSE failures
      BY DEF CheckProcess, AskHealth, Act, Failed
    <3>2. failures \in 0 .. MaxFailures
      BY DEF DogInv, WatchdogTypeOK
    <3> QED
      BY <3>1, <3>2
  <2>2. CASE CheckProcess \/ AskHealth
    <3>1. fired' \in {fired, FALSE}
      BY <2>2 DEF CheckProcess, AskHealth, Failed
    <3> QED
      BY <2>1, <3>1 DEF DogInv, WatchdogTypeOK
  <2>3. CASE Act
    <3>1. fired' \in BOOLEAN
      BY <2>3, Zenon DEF Act
    <3> QED
      BY <2>1, <3>1
  <2> QED
    BY <2>2, <2>3
<1>3. WatchdogTypeOK'
  BY <1>1, <1>2 DEF DogInv, WatchdogTypeOK, appVars
<1>4. Known' /\ Pinning'
  BY <1>1 DEF DogInv, Known, Pinning, IdentityOf, Pid, appVars
<1> QED
  BY <1>3, <1>4 DEF DogInv

LEMMA DogStep == DogInv /\ [WatchdogNext]_watchdogVars => DogInv'
<1> SUFFICES ASSUME DogInv, [WatchdogNext]_watchdogVars PROVE DogInv'
  OBVIOUS
<1>1. CASE UNCHANGED watchdogVars
  BY <1>1 DEF DogInv, WatchdogTypeOK, Known, Pinning, IdentityOf, Pid, watchdogVars, appVars, dogVars
<1> QED
  BY <1>1, ApplicationsStep, StartStep, FollowStep, PollStep DEF WatchdogNext, Loop

LEMMA DogInit == WatchdogInit => DogInv
<1> SUFFICES ASSUME WatchdogInit PROVE DogInv
  OBVIOUS
<1>1. /\ selector.by \in {"any", "app", "pinned", "pid"}
      /\ target \in [port : Ports \cup {Absent}, pid : Pids \cup {Absent}]
  BY DEF WatchdogInit, Any, App, Portless
<1>2. failures \in 0 .. MaxFailures /\ fired \in BOOLEAN
  <2>1. failures = 0
    BY DEF WatchdogInit
  <2>2. fired \in BOOLEAN
    BY Zenon DEF WatchdogInit
  <2> QED
    BY <2>1, <2>2, WatchdogAssumption
<1>3. kind \in [Pids -> AppKinds \cup {Absent}] /\ port \in [Pids -> Ports \cup {Absent}]
  BY DEF WatchdogInit
<1>4. alive = {} /\ healthy = {} /\ entries = {} /\ loopAt = "start"
  BY DEF WatchdogInit
<1>5. WatchdogTypeOK
  BY <1>1, <1>2, <1>3, <1>4 DEF WatchdogTypeOK
<1> QED
  BY <1>5 DEF WatchdogInit, DogInv, Known, Pinning

(* Whatever applications start, crash, share names or take over ports, and
   whichever processes the watchdog follows: it never leaves the application
   it resolved first.                                                      *)
THEOREM NeverSwitchesAlways == WatchdogSpec => [](WatchdogTypeOK /\ NeverSwitches)
<1>1. DogInv => WatchdogTypeOK /\ NeverSwitches
  BY WatchdogAssumption DEF DogInv, Pinning, NeverSwitches, SelectorMatches, Pid
<1> QED
  BY <1>1, DogInit, DogStep, PTL DEF WatchdogSpec

-----------------------------------------------------------------------------

(***************************************************************************)
(* StartIsSound for any ports, any range of fallbacks and any options.     *)
(* What a reader of the discovery entry concludes rests on the order in    *)
(* which it is written: the token before the port, and both by a server    *)
(* that holds the port it names (PortHeld, Listing).  The entry goes while *)
(* the port is still held, and only once the application exits (Handing).  *)
(* A test's reading of the entry may be old when it asks the port; what    *)
(* still stands of it is Asking.                                           *)
(***************************************************************************)

(* While it is alive, an application with a bound server holds exactly one port. *)
Binding == {"bound", "token", "listed", "serves", "leaving"}

Owners == {"free", "reserved", "app", "other"}
PortTable == [PortNumbers -> Owners]
GateTokens == {"none", "builder", "env", "generated"}
FileTokens == GateTokens \cup {"session"}
AppStates == {"new", "setup", "runs", "exits", "off", "dead"}
Entries == [token : FileTokens, port : 0..MaxPort]
Notices == [at : {"nothing", "failed", "port"}, port : 0..MaxPort]
Reports == [at : {"waits", "called", "gave up"}, port : 0..MaxPort, owner : Owners \cup {"none"},
            listed : BOOLEAN, app : AppStates]
Looks == [at : {"polls", "asks", "ready", "timed out", "exited", "dropped"}, port : 0..MaxPort,
          token : FileTokens, polls : Int, who : Owners \cup {"none"}, up : BOOLEAN]

StartPlaces ==
  /\ app \in AppStates
  /\ handed \in {"no", "parcel", "returned", "thread", "shared"}
  /\ server \in {"none", "binds", "failed", "stopped"} \cup Binding
  /\ tried \in Nat /\ authOff \in BOOLEAN /\ auth \in GateTokens
  /\ missed \in SUBSET {"token", "port"}
StartTypeOK ==
  StartPlaces /\ owner \in PortTable /\ entry \in Entries /\ bound \in Notices
  /\ ready \in Reports /\ test \in Looks

(* The server runs where it was handed to, reports what it bound, and goes  *)
(* only when the application exits; the gate it will have is decided.       *)
Handing ==
  /\ app \in {"new", "setup", "off"} => handed = "no"
  /\ handed \in {"no", "parcel", "returned"} => server = "none"
  /\ (app = "setup" \/ handed # "no") /\ auth = "none" => authOff
  /\ bound.at = "port" <=> server \in {"serves", "leaving", "stopped"}
  /\ server \in {"leaving", "stopped"} => app \in {"exits", "dead"}

(* While it lives and its server is bound, the application holds one port, *)
(* and it holds none otherwise.                                            *)
HoldsPort == AppAlive /\ server \in Binding
PortHeld ==
  IF HoldsPort
  THEN \E p \in PortNumbers : \A q \in PortNumbers : owner[q] = "app" <=> q = p
  ELSE \A q \in PortNumbers : owner[q] # "app"

(* The entry is written token first, and its port is the one held and told. *)
TokenListed == "token" \notin missed => entry.token = TokenForFile
Listing ==
  /\ server \in {"none", "binds", "bound", "failed", "leaving", "stopped"} => entry = NoEntry
  /\ server = "token" => TokenListed /\ entry.port = 0
  /\ server \in {"listed", "serves"} =>
       /\ TokenListed
       /\ "port" \notin missed => entry.port # 0
       /\ entry.port # 0 /\ AppAlive => owner[entry.port] = "app"
  /\ bound.at = "port" => bound.port \in PortNumbers
  /\ server = "serves" /\ AppAlive => owner[bound.port] = "app"

(* What a test that asks has read of the entry still stands. *)
Asking ==
  test.at = "asks" =>
    /\ test.port # 0 =>
         /\ server \in {"listed", "serves", "leaving", "stopped"}
         /\ "token" \notin missed => test.token = TokenForFile
         /\ server \in {"listed", "serves"} => test.port = entry.port
    /\ test.up /\ ~Wrapped /\ missed = {} =>
         test.port # 0 /\ server \in {"serves", "leaving", "stopped"}
Found == test.at = "ready" => server # "none"

Waiting == ~Wrapped /\ missed = {} /\ test.at \in {"polls", "timed out"} => ~test.up

StartInv ==
  /\ StartTypeOK /\ Handing /\ PortHeld /\ Listing /\ Asking /\ Found /\ Waiting
  /\ OnReadyIsOurs /\ TestsDriveTheirChild
-----------------------------------------------------------------------------
(* The port is one, so that OwnPort is it. *)
LEMMA OwnPortHeld ==
    ASSUME PortHeld, HoldsPort
    PROVE  /\ OwnPort \in PortNumbers /\ owner[OwnPort] = "app"
           /\ \A q \in PortNumbers : owner[q] = "app" => q = OwnPort
BY DEF PortHeld, OwnPort

LEMMA BuildStep == ASSUME StartInv, Build PROVE StartInv'
<1> USE AppStartAssumption DEF StartInv
<1>1. StartTypeOK'
  <2>1. auth' \in GateTokens /\ authOff' \in BOOLEAN
    BY DEF Build, Options, resolve_auth_token, IsToken, GateTokens
  <2>2. app' \in AppStates BY DEF Build, AppStates
  <2>3. QED BY <2>1, <2>2 DEF Build, StartTypeOK, StartPlaces
<1>2. Handing'
  <2>1. handed = "no" /\ server = "none" BY DEF Build, Handing
  <2>2. app' = "setup" /\ auth' = "none" => authOff'
    BY DEF Build, Options, resolve_auth_token, IsToken
  <2>3. QED BY <2>1, <2>2 DEF Build, Handing
<1>3. PortHeld'
  BY DEF Build, PortHeld, HoldsPort, AppAlive, Binding, StartTypeOK, StartPlaces, PortTable,
     Handing
<1>4. Listing'
  BY DEF Build, Listing, TokenListed, TokenForFile, PortHeld, HoldsPort, AppAlive, Binding,
     NoEntry, Handing, StartTypeOK, StartPlaces, PortTable, Entries, PortNumbers
<1>5. Asking'
  BY DEF Build, Asking, Listing, TokenListed, TokenForFile, StartTypeOK, Looks, Entries,
     Handing, NoEntry
<1>6. Waiting'
  BY DEF Build, Waiting, Asking, Listing, Handing, StartTypeOK, StartPlaces, Looks,
     AppAlive, NoEntry
<1>7. OnReadyIsOurs'
  BY DEF Build, OnReadyIsOurs, StartTypeOK, StartPlaces, Reports
<1>8. TestsDriveTheirChild'
  BY DEF Build, TestsDriveTheirChild, Found, Asking, Listing, Handing, StartTypeOK,
     StartPlaces, Looks, PortTable, AppAlive, NoEntry
<1>9. Found'
  BY DEF Build, Found, Asking, Handing, StartTypeOK, Looks
<1>10. QED BY <1>1, <1>2, <1>3, <1>4, <1>5, <1>6, <1>7, <1>8, <1>9 DEF StartInv

LEMMA SpawnServerStep == ASSUME StartInv, SpawnServer PROVE StartInv'
<1> USE AppStartAssumption DEF StartInv
<1>1. StartTypeOK'
  BY DEF SpawnServer, StartTypeOK, StartPlaces, Binding, AppStates, GateTokens
<1>2. Handing'
  BY DEF SpawnServer, Handing, StartTypeOK, StartPlaces, Notices, AppStates
<1>3. PortHeld'
  BY DEF SpawnServer, PortHeld, HoldsPort, AppAlive, Binding, StartTypeOK, StartPlaces,
     PortTable, Handing
<1>4. Listing'
  BY DEF SpawnServer, Listing, TokenListed, TokenForFile, PortHeld, HoldsPort, AppAlive,
     Binding, NoEntry, Handing, StartTypeOK, StartPlaces, PortTable, Entries, PortNumbers
<1>5. Asking'
  BY DEF SpawnServer, Asking, Listing, TokenListed, TokenForFile, StartTypeOK, Looks,
     Entries, Handing, NoEntry
<1>6. Waiting'
  BY DEF SpawnServer, Waiting, Asking, Listing, Handing, StartTypeOK, StartPlaces, Looks,
     AppAlive, NoEntry
<1>7. OnReadyIsOurs'
  BY DEF SpawnServer, OnReadyIsOurs, StartTypeOK, StartPlaces, Reports
<1>8. TestsDriveTheirChild'
  BY DEF SpawnServer, TestsDriveTheirChild, Found, Asking, Listing, Handing, StartTypeOK,
     StartPlaces, Looks, PortTable, AppAlive, NoEntry
<1>9. Found'
  BY DEF SpawnServer, Found, Asking, Handing, StartTypeOK, Looks
<1>10. QED BY <1>1, <1>2, <1>3, <1>4, <1>5, <1>6, <1>7, <1>8, <1>9 DEF StartInv

LEMMA ThreadTakesStep == ASSUME StartInv, app \in {"runs", "exits"}, ThreadTakes PROVE StartInv'
<1> USE AppStartAssumption DEF StartInv
<1>1. StartTypeOK'
  BY DEF ThreadTakes, Starts, normalize_auth_token, StartTypeOK, StartPlaces, Binding,
     AppStates, GateTokens
<1>2. Handing'
  <2>1. auth # "blank" BY DEF StartTypeOK, StartPlaces, GateTokens
  <2>2. auth' = auth BY <2>1 DEF ThreadTakes, Starts, normalize_auth_token
  <2>3. QED BY <2>2 DEF ThreadTakes, Starts, Handing
<1>3. PortHeld'
  BY DEF ThreadTakes, Starts, normalize_auth_token, PortHeld, HoldsPort, AppAlive, Binding,
     StartTypeOK, StartPlaces, PortTable, Handing
<1>4. Listing'
  BY DEF ThreadTakes, Starts, normalize_auth_token, Listing, TokenListed, TokenForFile,
     PortHeld, HoldsPort, AppAlive, Binding, NoEntry, Handing, StartTypeOK, StartPlaces,
     PortTable, Entries, PortNumbers
<1>5. Asking'
  BY DEF ThreadTakes, Starts, normalize_auth_token, Asking, Listing, TokenListed,
     TokenForFile, StartTypeOK, Looks, Entries, Handing, NoEntry
<1>6. Waiting'
  BY DEF ThreadTakes, Starts, normalize_auth_token, Waiting, Asking, Listing, Handing,
     StartTypeOK, StartPlaces, Looks, AppAlive, NoEntry
<1>7. OnReadyIsOurs'
  BY DEF ThreadTakes, Starts, normalize_auth_token, OnReadyIsOurs, StartTypeOK, StartPlaces,
     Reports
<1>8. TestsDriveTheirChild'
  BY DEF ThreadTakes, Starts, normalize_auth_token, TestsDriveTheirChild, Found, Asking,
     Listing, Handing, StartTypeOK, StartPlaces, Looks, PortTable, AppAlive, NoEntry
<1>9. Found'
  BY DEF ThreadTakes, Starts, normalize_auth_token, Found, Asking, Handing, StartTypeOK,
     Looks
<1>10. QED BY <1>1, <1>2, <1>3, <1>4, <1>5, <1>6, <1>7, <1>8, <1>9 DEF StartInv

LEMMA ParcelComesBackStep == ASSUME StartInv, app \in {"runs", "exits"}, ParcelComesBack PROVE StartInv'
<1> USE AppStartAssumption DEF StartInv
<1>1. StartTypeOK'
  BY DEF ParcelComesBack, StartTypeOK, StartPlaces, Binding, AppStates, GateTokens
<1>2. Handing'
  BY DEF ParcelComesBack, Handing, StartTypeOK, StartPlaces, Notices, AppStates
<1>3. PortHeld'
  BY DEF ParcelComesBack, PortHeld, HoldsPort, AppAlive, Binding, StartTypeOK, StartPlaces,
     PortTable, Handing
<1>4. Listing'
  BY DEF ParcelComesBack, Listing, TokenListed, TokenForFile, PortHeld, HoldsPort, AppAlive,
     Binding, NoEntry, Handing, StartTypeOK, StartPlaces, PortTable, Entries, PortNumbers
<1>5. Asking'
  BY DEF ParcelComesBack, Asking, Listing, TokenListed, TokenForFile, StartTypeOK, Looks,
     Entries, Handing, NoEntry
<1>6. Waiting'
  BY DEF ParcelComesBack, Waiting, Asking, Listing, Handing, StartTypeOK, StartPlaces,
     Looks, AppAlive, NoEntry
<1>7. OnReadyIsOurs'
  BY DEF ParcelComesBack, OnReadyIsOurs, StartTypeOK, StartPlaces, Reports
<1>8. TestsDriveTheirChild'
  BY DEF ParcelComesBack, TestsDriveTheirChild, Found, Asking, Listing, Handing,
     StartTypeOK, StartPlaces, Looks, PortTable, AppAlive, NoEntry
<1>9. Found'
  BY DEF ParcelComesBack, Found, Asking, Handing, StartTypeOK, Looks
<1>10. QED BY <1>1, <1>2, <1>3, <1>4, <1>5, <1>6, <1>7, <1>8, <1>9 DEF StartInv

LEMMA SharedRunsStep == ASSUME StartInv, app \in {"runs", "exits"}, SharedRuns PROVE StartInv'
<1> USE AppStartAssumption DEF StartInv
<1>1. StartTypeOK'
  BY DEF SharedRuns, Starts, normalize_auth_token, StartTypeOK, StartPlaces, Binding,
     AppStates, GateTokens
<1>2. Handing'
  <2>1. auth # "blank" BY DEF StartTypeOK, StartPlaces, GateTokens
  <2>2. auth' = auth BY <2>1 DEF SharedRuns, Starts, normalize_auth_token
  <2>3. QED BY <2>2 DEF SharedRuns, Starts, Handing
<1>3. PortHeld'
  BY DEF SharedRuns, Starts, normalize_auth_token, PortHeld, HoldsPort, AppAlive, Binding,
     StartTypeOK, StartPlaces, PortTable, Handing
<1>4. Listing'
  BY DEF SharedRuns, Starts, normalize_auth_token, Listing, TokenListed, TokenForFile,
     PortHeld, HoldsPort, AppAlive, Binding, NoEntry, Handing, StartTypeOK, StartPlaces,
     PortTable, Entries, PortNumbers
<1>5. Asking'
  BY DEF SharedRuns, Starts, normalize_auth_token, Asking, Listing, TokenListed,
     TokenForFile, StartTypeOK, Looks, Entries, Handing, NoEntry
<1>6. Waiting'
  BY DEF SharedRuns, Starts, normalize_auth_token, Waiting, Asking, Listing, Handing,
     StartTypeOK, StartPlaces, Looks, AppAlive, NoEntry
<1>7. OnReadyIsOurs'
  BY DEF SharedRuns, Starts, normalize_auth_token, OnReadyIsOurs, StartTypeOK, StartPlaces,
     Reports
<1>8. TestsDriveTheirChild'
  BY DEF SharedRuns, Starts, normalize_auth_token, TestsDriveTheirChild, Found, Asking,
     Listing, Handing, StartTypeOK, StartPlaces, Looks, PortTable, AppAlive, NoEntry
<1>9. Found'
  BY DEF SharedRuns, Starts, normalize_auth_token, Found, Asking, Handing, StartTypeOK,
     Looks
<1>10. QED BY <1>1, <1>2, <1>3, <1>4, <1>5, <1>6, <1>7, <1>8, <1>9 DEF StartInv

LEMMA TryBindStep == ASSUME StartInv, app \in {"runs", "exits"}, TryBind PROVE StartInv'
<1> USE AppStartAssumption DEF StartInv
<1>1. StartTypeOK'
  <2>1. StartPlaces'
    BY DEF TryBind, Takes, StartTypeOK, StartPlaces, Binding, AppStates, GateTokens
  <2>2. owner' \in PortTable
    BY DEF TryBind, Takes, StartTypeOK, PortTable, Owners
  <2>3. bound' \in Notices
    BY DEF TryBind, Takes, StartTypeOK, Notices
  <2>4. QED BY <2>1, <2>2, <2>3 DEF TryBind, Takes, StartTypeOK, StartPlaces
<1>2. Handing'
  BY DEF TryBind, Takes, Handing, StartTypeOK, StartPlaces, Notices, AppStates
<1>3. PortHeld'
  <2>1. \A q \in PortNumbers : owner[q] # "app"
    BY DEF TryBind, PortHeld, HoldsPort, Binding
  <2>2. CASE owner[Preferred + tried] = "free"
    <3>1. Preferred + tried \in PortNumbers
      BY DEF TryBind, PortNumbers, StartTypeOK, StartPlaces
    <3>2. HoldsPort' BY <2>2 DEF TryBind, Takes, HoldsPort, AppAlive, Binding
    <3>3. \A q \in PortNumbers : owner'[q] = "app" <=> q = Preferred + tried
      BY <2>1, <2>2, <3>1 DEF TryBind, Takes, StartTypeOK, PortTable
    <3>4. QED BY <3>1, <3>2, <3>3 DEF PortHeld, PortNumbers
  <2>3. CASE owner[Preferred + tried] # "free"
    BY <2>1, <2>3 DEF TryBind, PortHeld, HoldsPort, AppAlive, Binding, PortNumbers
  <2>4. QED BY <2>2, <2>3
<1>4. Listing'
  BY DEF TryBind, Takes, Listing, TokenListed, TokenForFile, PortHeld, HoldsPort, AppAlive,
     Binding, NoEntry, Handing, StartTypeOK, StartPlaces, PortTable, Entries, PortNumbers
<1>5. Asking'
  BY DEF TryBind, Takes, Asking, Listing, TokenListed, TokenForFile, StartTypeOK, Looks,
     Entries, Handing, NoEntry
<1>6. Waiting'
  BY DEF TryBind, Takes, Waiting, Asking, Listing, Handing, StartTypeOK, StartPlaces, Looks,
     AppAlive, NoEntry
<1>7. OnReadyIsOurs'
  BY DEF TryBind, Takes, OnReadyIsOurs, StartTypeOK, StartPlaces, Reports
<1>8. TestsDriveTheirChild'
  BY DEF TryBind, Takes, TestsDriveTheirChild, Found, Asking, Listing, Handing, StartTypeOK,
     StartPlaces, Looks, PortTable, AppAlive, NoEntry
<1>9. Found'
  BY DEF TryBind, Takes, Found, Asking, Handing, StartTypeOK, Looks
<1>10. QED BY <1>1, <1>2, <1>3, <1>4, <1>5, <1>6, <1>7, <1>8, <1>9 DEF StartInv

LEMMA BindAnyStep == ASSUME StartInv, app \in {"runs", "exits"}, BindAny PROVE StartInv'
<1> USE AppStartAssumption DEF StartInv
<1>1. StartTypeOK'
  <2>1. StartPlaces'
    BY DEF BindAny, Takes, StartTypeOK, StartPlaces, Binding, AppStates, GateTokens
  <2>2. owner' \in PortTable
    BY DEF BindAny, Takes, StartTypeOK, PortTable, Owners
  <2>3. bound' \in Notices
    BY DEF BindAny, Takes, StartTypeOK, Notices
  <2>4. QED BY <2>1, <2>2, <2>3 DEF BindAny, Takes, StartTypeOK, StartPlaces
<1>2. Handing'
  BY DEF BindAny, Takes, Handing, StartTypeOK, StartPlaces, Notices, AppStates
<1>3. PortHeld'
  BY DEF BindAny, Takes, PortHeld, HoldsPort, AppAlive, Binding, StartTypeOK, StartPlaces,
     PortTable, Handing
<1>4. Listing'
  <2>1. server = "binds" /\ server' \in {"bound", "failed"} BY DEF BindAny, Takes
  <2>2. entry = NoEntry /\ bound.at # "port" BY <2>1 DEF Listing, Handing
  <2>3. bound'.at # "port" BY <2>2 DEF BindAny, StartTypeOK, Notices
  <2>4. entry' = entry BY DEF BindAny
  <2>5. NoEntry' = NoEntry BY DEF NoEntry
  <2>6. QED BY <2>1, <2>2, <2>3, <2>4, <2>5 DEF Listing
<1>5. Asking'
  BY DEF BindAny, Takes, Asking, Listing, TokenListed, TokenForFile, StartTypeOK, Looks,
     Entries, Handing, NoEntry
<1>6. Waiting'
  BY DEF BindAny, Takes, Waiting, Asking, Listing, Handing, StartTypeOK, StartPlaces, Looks,
     AppAlive, NoEntry
<1>7. OnReadyIsOurs'
  BY DEF BindAny, Takes, OnReadyIsOurs, StartTypeOK, StartPlaces, Reports
<1>8. TestsDriveTheirChild'
  BY DEF BindAny, Takes, TestsDriveTheirChild, Found, Asking, Listing, Handing, StartTypeOK,
     StartPlaces, Looks, PortTable, AppAlive, NoEntry
<1>9. Found'
  BY DEF BindAny, Takes, Found, Asking, Handing, StartTypeOK, Looks
<1>10. QED BY <1>1, <1>2, <1>3, <1>4, <1>5, <1>6, <1>7, <1>8, <1>9 DEF StartInv

LEMMA WriteTokenStep == ASSUME StartInv, app \in {"runs", "exits"}, WriteToken PROVE StartInv'
<1> USE AppStartAssumption DEF StartInv
<1>1. StartTypeOK'
  <2>1. StartPlaces'
    BY DEF WriteToken, Writes, StartTypeOK, StartPlaces, Binding, AppStates, GateTokens
  <2>2. entry' \in Entries
    BY DEF WriteToken, Writes, TokenForFile, StartTypeOK, StartPlaces, Entries, FileTokens,
       GateTokens
  <2>3. QED BY <2>1, <2>2 DEF WriteToken, Writes, StartTypeOK, StartPlaces
<1>2. Handing'
  BY DEF WriteToken, Writes, Handing, StartTypeOK, StartPlaces, Notices, AppStates
<1>3. PortHeld'
  BY DEF WriteToken, Writes, PortHeld, HoldsPort, AppAlive, Binding, StartTypeOK,
     StartPlaces, PortTable, Handing
<1>4. Listing'
  BY DEF WriteToken, Writes, Listing, TokenListed, TokenForFile, PortHeld, HoldsPort,
     AppAlive, Binding, NoEntry, Handing, StartTypeOK, StartPlaces, PortTable, Entries,
     PortNumbers
<1>5. Asking'
  BY DEF WriteToken, Writes, Asking, Listing, TokenListed, TokenForFile, StartTypeOK, Looks,
     Entries, Handing, NoEntry
<1>6. Waiting'
  BY DEF WriteToken, Writes, Waiting, Asking, Listing, Handing, StartTypeOK, StartPlaces,
     Looks, AppAlive, NoEntry
<1>7. OnReadyIsOurs'
  BY DEF WriteToken, Writes, OnReadyIsOurs, StartTypeOK, StartPlaces, Reports
<1>8. TestsDriveTheirChild'
  BY DEF WriteToken, Writes, TestsDriveTheirChild, Found, Asking, Listing, Handing,
     StartTypeOK, StartPlaces, Looks, PortTable, AppAlive, NoEntry
<1>9. Found'
  BY DEF WriteToken, Writes, Found, Asking, Handing, StartTypeOK, Looks
<1>10. QED BY <1>1, <1>2, <1>3, <1>4, <1>5, <1>6, <1>7, <1>8, <1>9 DEF StartInv

LEMMA WritePortStep == ASSUME StartInv, app \in {"runs", "exits"}, WritePort PROVE StartInv'
<1> USE AppStartAssumption DEF StartInv
<1>1. StartTypeOK'
  <2>1. StartPlaces'
    BY DEF WritePort, Writes, StartTypeOK, StartPlaces, Binding, AppStates, GateTokens
  <2>2. OwnPort \in 0..MaxPort
    BY OwnPortHeld DEF WritePort, HoldsPort, AppAlive, Binding, PortNumbers
  <2>3. entry' \in Entries
    BY <2>2 DEF WritePort, Writes, StartTypeOK, Entries
  <2>4. QED BY <2>1, <2>2, <2>3 DEF WritePort, Writes, StartTypeOK, StartPlaces
<1>2. Handing'
  BY DEF WritePort, Writes, Handing, StartTypeOK, StartPlaces, Notices, AppStates
<1>3. PortHeld'
  BY DEF WritePort, Writes, PortHeld, HoldsPort, AppAlive, Binding, StartTypeOK,
     StartPlaces, PortTable, Handing
<1>4. Listing'
  <2>1. OwnPort \in PortNumbers /\ owner[OwnPort] = "app"
    BY OwnPortHeld DEF WritePort, HoldsPort, AppAlive, Binding
  <2>2. entry \in Entries /\ TokenListed /\ entry.port = 0
    BY DEF WritePort, Listing, StartTypeOK
  <2>3. TokenListed'
    BY <2>2 DEF WritePort, Writes, TokenListed, TokenForFile, Entries
  <2>4. "port" \notin missed' => entry'.port # 0
    BY <2>1, <2>2 DEF WritePort, Writes, PortNumbers, Entries
  <2>5. entry'.port # 0 => owner[entry'.port] = "app"
    BY <2>1, <2>2 DEF WritePort, Writes, PortNumbers, Entries
  <2>6. bound.at # "port" BY DEF WritePort, Handing
  <2>7. QED BY <2>3, <2>4, <2>5, <2>6 DEF WritePort, Listing
<1>5. Asking'
  BY DEF WritePort, Writes, Asking, Listing, TokenListed, TokenForFile, StartTypeOK, Looks,
     Entries, Handing, NoEntry
<1>6. Waiting'
  BY DEF WritePort, Writes, Waiting, Asking, Listing, Handing, StartTypeOK, StartPlaces,
     Looks, AppAlive, NoEntry
<1>7. OnReadyIsOurs'
  BY DEF WritePort, Writes, OnReadyIsOurs, StartTypeOK, StartPlaces, Reports
<1>8. TestsDriveTheirChild'
  BY DEF WritePort, Writes, TestsDriveTheirChild, Found, Asking, Listing, Handing,
     StartTypeOK, StartPlaces, Looks, PortTable, AppAlive, NoEntry
<1>9. Found'
  BY DEF WritePort, Writes, Found, Asking, Handing, StartTypeOK, Looks
<1>10. QED BY <1>1, <1>2, <1>3, <1>4, <1>5, <1>6, <1>7, <1>8, <1>9 DEF StartInv

LEMMA ReportBoundStep == ASSUME StartInv, app \in {"runs", "exits"}, ReportBound PROVE StartInv'
<1> USE AppStartAssumption DEF StartInv
<1>1. StartTypeOK'
  <2>1. StartPlaces'
    BY DEF ReportBound, StartTypeOK, StartPlaces, Binding, AppStates, GateTokens
  <2>2. bound' \in Notices
    BY OwnPortHeld DEF ReportBound, HoldsPort, AppAlive, Binding, PortNumbers, Notices
  <2>3. QED BY <2>1, <2>2 DEF ReportBound, StartTypeOK, StartPlaces
<1>2. Handing'
  BY DEF ReportBound, Handing, StartTypeOK, StartPlaces, Notices, AppStates
<1>3. PortHeld'
  BY DEF ReportBound, PortHeld, HoldsPort, AppAlive, Binding, StartTypeOK, StartPlaces,
     PortTable, Handing
<1>4. Listing'
  <2>1. OwnPort \in PortNumbers /\ owner[OwnPort] = "app"
    BY OwnPortHeld DEF ReportBound, HoldsPort, AppAlive, Binding
  <2>2. QED BY <2>1 DEF ReportBound, Listing, TokenListed, TokenForFile, AppAlive
<1>5. Asking'
  BY DEF ReportBound, Asking, Listing, TokenListed, TokenForFile, StartTypeOK, Looks,
     Entries, Handing, NoEntry
<1>6. Waiting'
  BY DEF ReportBound, Waiting, Asking, Listing, Handing, StartTypeOK, StartPlaces, Looks,
     AppAlive, NoEntry
<1>7. OnReadyIsOurs'
  BY DEF ReportBound, OnReadyIsOurs, StartTypeOK, StartPlaces, Reports
<1>8. TestsDriveTheirChild'
  BY DEF ReportBound, TestsDriveTheirChild, Found, Asking, Listing, Handing, StartTypeOK,
     StartPlaces, Looks, PortTable, AppAlive, NoEntry
<1>9. Found'
  BY DEF ReportBound, Found, Asking, Handing, StartTypeOK, Looks
<1>10. QED BY <1>1, <1>2, <1>3, <1>4, <1>5, <1>6, <1>7, <1>8, <1>9 DEF StartInv

LEMMA ReadyEndsStep == ASSUME StartInv, ReadyEnds PROVE StartInv'
<1> USE AppStartAssumption DEF StartInv
<1>1. StartTypeOK'
  <2>1. ready' \in Reports
    <3>1. CASE OnReady
      <4>1. bound.port \in PortNumbers BY <3>1 DEF OnReady, Listing
      <4>2. owner[bound.port] \in Owners BY <4>1 DEF StartTypeOK, PortTable
      <4>3. app \in AppStates BY DEF StartTypeOK, StartPlaces
      <4>4. QED BY <3>1, <4>1, <4>2, <4>3 DEF OnReady, Reports, PortNumbers
    <3>2. CASE ~OnReady BY <3>2 DEF ReadyEnds, StartTypeOK, Reports
    <3>3. QED BY <3>1, <3>2
  <2>2. QED BY <2>1 DEF ReadyEnds, StartTypeOK, StartPlaces
<1>2. Handing'
  BY DEF ReadyEnds, OnReady, Handing, StartTypeOK, StartPlaces, Notices, AppStates
<1>3. PortHeld'
  BY DEF ReadyEnds, OnReady, PortHeld, HoldsPort, AppAlive, Binding, StartTypeOK,
     StartPlaces, PortTable, Handing
<1>4. Listing'
  BY DEF ReadyEnds, OnReady, Listing, TokenListed, TokenForFile, PortHeld, HoldsPort,
     AppAlive, Binding, NoEntry, Handing, StartTypeOK, StartPlaces, PortTable, Entries,
     PortNumbers
<1>5. Asking'
  BY DEF ReadyEnds, OnReady, Asking, Listing, TokenListed, TokenForFile, StartTypeOK, Looks,
     Entries, Handing, NoEntry
<1>6. Waiting'
  BY DEF ReadyEnds, OnReady, Waiting, Asking, Listing, Handing, StartTypeOK, StartPlaces,
     Looks, AppAlive, NoEntry
<1>7. OnReadyIsOurs'
  <2>1. CASE OnReady /\ app = "runs"
    <3>1. server = "serves" BY <2>1 DEF OnReady, Handing
    <3>2. bound.port \in PortNumbers /\ owner[bound.port] = "app"
      BY <2>1, <3>1 DEF OnReady, Listing, AppAlive
    <3>3. ASSUME missed = {} PROVE entry.token # "none" /\ entry.port = bound.port
      <4>1. entry.token = TokenForFile /\ entry.port # 0 /\ owner[entry.port] = "app"
        BY <2>1, <3>1, <3>3 DEF Listing, TokenListed, AppAlive
      <4>2. entry.port \in PortNumbers BY <4>1 DEF StartTypeOK, Entries, PortNumbers
      <4>3. bound.port = OwnPort /\ entry.port = OwnPort
        BY <2>1, <3>1, <3>2, <4>1, <4>2, OwnPortHeld DEF HoldsPort, AppAlive, Binding
      <4>4. TokenForFile # "none" BY DEF TokenForFile
      <4>5. QED BY <4>1, <4>3, <4>4
    <3>4. QED BY <2>1, <3>2, <3>3 DEF ReadyEnds, OnReady, OnReadyIsOurs
  <2>2. CASE OnReady /\ app # "runs" BY <2>2 DEF OnReady, OnReadyIsOurs
  <2>3. CASE ~OnReady BY <2>3 DEF ReadyEnds, OnReadyIsOurs, StartTypeOK, Reports
  <2>4. QED BY <2>1, <2>2, <2>3
<1>8. TestsDriveTheirChild'
  BY DEF ReadyEnds, OnReady, TestsDriveTheirChild, Found, Asking, Listing, Handing,
     StartTypeOK, StartPlaces, Looks, PortTable, AppAlive, NoEntry
<1>9. Found'
  BY DEF ReadyEnds, OnReady, Found, Asking, Handing, StartTypeOK, Looks
<1>10. QED BY <1>1, <1>2, <1>3, <1>4, <1>5, <1>6, <1>7, <1>8, <1>9 DEF StartInv

LEMMA ExitStep == ASSUME StartInv, Exit PROVE StartInv'
<1> USE AppStartAssumption DEF StartInv
<1>1. StartTypeOK'
  BY DEF Exit, StartTypeOK, StartPlaces, Binding, AppStates, GateTokens
<1>2. Handing'
  BY DEF Exit, Handing, StartTypeOK, StartPlaces, Notices, AppStates
<1>3. PortHeld'
  BY DEF Exit, PortHeld, HoldsPort, AppAlive, Binding, StartTypeOK, StartPlaces, PortTable,
     Handing
<1>4. Listing'
  BY DEF Exit, Listing, TokenListed, TokenForFile, PortHeld, HoldsPort, AppAlive, Binding,
     NoEntry, Handing, StartTypeOK, StartPlaces, PortTable, Entries, PortNumbers
<1>5. Asking'
  BY DEF Exit, Asking, Listing, TokenListed, TokenForFile, StartTypeOK, Looks, Entries,
     Handing, NoEntry
<1>6. Waiting'
  BY DEF Exit, Waiting, Asking, Listing, Handing, StartTypeOK, StartPlaces, Looks, AppAlive,
     NoEntry
<1>7. OnReadyIsOurs'
  BY DEF Exit, OnReadyIsOurs, StartTypeOK, StartPlaces, Reports
<1>8. TestsDriveTheirChild'
  BY DEF Exit, TestsDriveTheirChild, Found, Asking, Listing, Handing, StartTypeOK,
     StartPlaces, Looks, PortTable, AppAlive, NoEntry
<1>9. Found'
  BY DEF Exit, Found, Asking, Handing, StartTypeOK, Looks
<1>10. QED BY <1>1, <1>2, <1>3, <1>4, <1>5, <1>6, <1>7, <1>8, <1>9 DEF StartInv

LEMMA UnlistStep == ASSUME StartInv, Unlist PROVE StartInv'
<1> USE AppStartAssumption DEF StartInv
<1>1. StartTypeOK'
  <2>1. StartPlaces'
    BY DEF Unlist, StartTypeOK, StartPlaces, Binding, AppStates, GateTokens
  <2>2. entry' \in Entries
    BY DEF Unlist, Entries, NoEntry, FileTokens, GateTokens
  <2>3. QED BY <2>1, <2>2 DEF Unlist, StartTypeOK, StartPlaces
<1>2. Handing'
  BY DEF Unlist, Handing, StartTypeOK, StartPlaces, Notices, AppStates
<1>3. PortHeld'
  BY DEF Unlist, PortHeld, HoldsPort, AppAlive, Binding, StartTypeOK, StartPlaces,
     PortTable, Handing
<1>4. Listing'
  BY DEF Unlist, Listing, TokenListed, TokenForFile, PortHeld, HoldsPort, AppAlive, Binding,
     NoEntry, Handing, StartTypeOK, StartPlaces, PortTable, Entries, PortNumbers
<1>5. Asking'
  BY DEF Unlist, Asking, Listing, TokenListed, TokenForFile, StartTypeOK, Looks, Entries,
     Handing, NoEntry
<1>6. Waiting'
  BY DEF Unlist, Waiting, Asking, Listing, Handing, StartTypeOK, StartPlaces, Looks,
     AppAlive, NoEntry
<1>7. OnReadyIsOurs'
  BY DEF Unlist, OnReadyIsOurs, StartTypeOK, StartPlaces, Reports
<1>8. TestsDriveTheirChild'
  BY DEF Unlist, TestsDriveTheirChild, Found, Asking, Listing, Handing, StartTypeOK,
     StartPlaces, Looks, PortTable, AppAlive, NoEntry
<1>9. Found'
  BY DEF Unlist, Found, Asking, Handing, StartTypeOK, Looks
<1>10. QED BY <1>1, <1>2, <1>3, <1>4, <1>5, <1>6, <1>7, <1>8, <1>9 DEF StartInv

LEMMA ServerStopsStep == ASSUME StartInv, ServerStops PROVE StartInv'
<1> USE AppStartAssumption DEF StartInv
<1>1. StartTypeOK'
  <2>1. StartPlaces'
    BY DEF ServerStops, ReleasePort, StartTypeOK, StartPlaces, Binding, AppStates,
       GateTokens
  <2>2. owner' \in PortTable
    BY DEF ServerStops, ReleasePort, StartTypeOK, PortTable, Owners
  <2>3. QED BY <2>1, <2>2 DEF ServerStops, ReleasePort, StartTypeOK, StartPlaces
<1>2. Handing'
  BY DEF ServerStops, ReleasePort, Handing, StartTypeOK, StartPlaces, Notices, AppStates
<1>3. PortHeld'
  BY DEF ServerStops, ReleasePort, PortHeld, HoldsPort, AppAlive, Binding, StartTypeOK,
     StartPlaces, PortTable, Handing
<1>4. Listing'
  BY DEF ServerStops, ReleasePort, Listing, TokenListed, TokenForFile, PortHeld, HoldsPort,
     AppAlive, Binding, NoEntry, Handing, StartTypeOK, StartPlaces, PortTable, Entries,
     PortNumbers
<1>5. Asking'
  BY DEF ServerStops, ReleasePort, Asking, Listing, TokenListed, TokenForFile, StartTypeOK,
     Looks, Entries, Handing, NoEntry
<1>6. Waiting'
  BY DEF ServerStops, ReleasePort, Waiting, Asking, Listing, Handing, StartTypeOK,
     StartPlaces, Looks, AppAlive, NoEntry
<1>7. OnReadyIsOurs'
  BY DEF ServerStops, ReleasePort, OnReadyIsOurs, StartTypeOK, StartPlaces, Reports
<1>8. TestsDriveTheirChild'
  BY DEF ServerStops, ReleasePort, TestsDriveTheirChild, Found, Asking, Listing, Handing,
     StartTypeOK, StartPlaces, Looks, PortTable, AppAlive, NoEntry
<1>9. Found'
  BY DEF ServerStops, ReleasePort, Found, Asking, Handing, StartTypeOK, Looks
<1>10. QED BY <1>1, <1>2, <1>3, <1>4, <1>5, <1>6, <1>7, <1>8, <1>9 DEF StartInv

LEMMA DiesStep == ASSUME StartInv, Dies PROVE StartInv'
<1> USE AppStartAssumption DEF StartInv
<1>1. StartTypeOK'
  <2>1. StartPlaces'
    BY DEF Dies, ReleasePort, StartTypeOK, StartPlaces, Binding, AppStates, GateTokens
  <2>2. owner' \in PortTable
    BY DEF Dies, ReleasePort, StartTypeOK, PortTable, Owners
  <2>3. QED BY <2>1, <2>2 DEF Dies, ReleasePort, StartTypeOK, StartPlaces
<1>2. Handing'
  BY DEF Dies, ReleasePort, Handing, StartTypeOK, StartPlaces, Notices, AppStates
<1>3. PortHeld'
  BY DEF Dies, ReleasePort, PortHeld, HoldsPort, AppAlive, Binding, StartTypeOK,
     StartPlaces, PortTable, Handing
<1>4. Listing'
  BY DEF Dies, ReleasePort, Listing, TokenListed, TokenForFile, PortHeld, HoldsPort,
     AppAlive, Binding, NoEntry, Handing, StartTypeOK, StartPlaces, PortTable, Entries,
     PortNumbers
<1>5. Asking'
  BY DEF Dies, ReleasePort, Asking, Listing, TokenListed, TokenForFile, StartTypeOK, Looks,
     Entries, Handing, NoEntry
<1>6. Waiting'
  BY DEF Dies, ReleasePort, Waiting, Asking, Listing, Handing, StartTypeOK, StartPlaces,
     Looks, AppAlive, NoEntry
<1>7. OnReadyIsOurs'
  BY DEF Dies, ReleasePort, OnReadyIsOurs, StartTypeOK, StartPlaces, Reports
<1>8. TestsDriveTheirChild'
  BY DEF Dies, ReleasePort, TestsDriveTheirChild, Found, Asking, Listing, Handing,
     StartTypeOK, StartPlaces, Looks, PortTable, AppAlive, NoEntry
<1>9. Found'
  BY DEF Dies, ReleasePort, Found, Asking, Handing, StartTypeOK, Looks
<1>10. QED BY <1>1, <1>2, <1>3, <1>4, <1>5, <1>6, <1>7, <1>8, <1>9 DEF StartInv

LEMMA OtherAppStep == ASSUME StartInv, OtherApp PROVE StartInv'
<1> USE AppStartAssumption DEF StartInv
<1>1. StartTypeOK'
  <2>1. owner' \in PortTable
    BY DEF OtherApp, StartTypeOK, PortTable, Owners
  <2>2. QED BY <2>1 DEF OtherApp, StartTypeOK, StartPlaces
<1>2. Handing'
  BY DEF OtherApp, Handing, StartTypeOK, StartPlaces, Notices, AppStates
<1>3. PortHeld'
  BY DEF OtherApp, PortHeld, HoldsPort, AppAlive, Binding, StartTypeOK, StartPlaces,
     PortTable, Handing
<1>4. Listing'
  BY DEF OtherApp, Listing, TokenListed, TokenForFile, PortHeld, HoldsPort, AppAlive,
     Binding, NoEntry, Handing, StartTypeOK, StartPlaces, PortTable, Entries, PortNumbers
<1>5. Asking'
  BY DEF OtherApp, Asking, Listing, TokenListed, TokenForFile, StartTypeOK, Looks, Entries,
     Handing, NoEntry
<1>6. Waiting'
  BY DEF OtherApp, Waiting, Asking, Listing, Handing, StartTypeOK, StartPlaces, Looks,
     AppAlive, NoEntry
<1>7. OnReadyIsOurs'
  BY DEF OtherApp, OnReadyIsOurs, StartTypeOK, StartPlaces, Reports
<1>8. TestsDriveTheirChild'
  BY DEF OtherApp, TestsDriveTheirChild, Found, Asking, Listing, Handing, StartTypeOK,
     StartPlaces, Looks, PortTable, AppAlive, NoEntry
<1>9. Found'
  BY DEF OtherApp, Found, Asking, Handing, StartTypeOK, Looks
<1>10. QED BY <1>1, <1>2, <1>3, <1>4, <1>5, <1>6, <1>7, <1>8, <1>9 DEF StartInv

LEMMA PollsStep == ASSUME StartInv, Polls PROVE StartInv'
<1> USE AppStartAssumption DEF StartInv
<1>1. StartTypeOK'
  <2>1. test' \in Looks
    <3>1. /\ discover_actual_connection.port \in 0..MaxPort
          /\ discover_actual_connection.token \in FileTokens
      <4>1. CASE Lists BY <4>1 DEF discover_actual_connection, StartTypeOK, Entries
      <4>2. CASE ~Lists BY <4>2 DEF discover_actual_connection, FileTokens, GateTokens
      <4>3. QED BY <4>1, <4>2
    <3>2. test \in Looks BY DEF StartTypeOK
    <3>3. CASE test.polls = MaxPolls \/ ~AppAlive BY <3>2, <3>3 DEF Polls, Looks
    <3>4. CASE ~(test.polls = MaxPolls \/ ~AppAlive)
      <4> DEFINE c == discover_actual_connection
                 up == server = "serves" /\ AppAlive
                 n == test.polls + 1
      <4>1. /\ test' = [test EXCEPT !.at = "asks", !.polls = n, !.port = c.port, !.token = c.token,
                                   !.up = up]
        BY <3>4 DEF Polls
      <4>2. up \in BOOLEAN BY DEF AppAlive
      <4>3. test.polls \in Int BY <3>2 DEF Looks
      <4>4. n \in Int BY <4>3
      <4> HIDE DEF c, up, n
      <4>5. c.port \in 0..MaxPort /\ c.token \in FileTokens BY <3>1 DEF c
      <4>6. QED BY <3>2, <4>1, <4>2, <4>4, <4>5 DEF Looks
    <3>5. QED BY <3>3, <3>4
  <2>2. QED BY <2>1 DEF Polls, StartTypeOK, StartPlaces
<1>2. Handing'
  BY DEF Polls, discover_actual_connection, Lists, Handing, StartTypeOK, StartPlaces,
     Notices, AppStates
<1>3. PortHeld'
  BY DEF Polls, discover_actual_connection, Lists, PortHeld, HoldsPort, AppAlive, Binding,
     StartTypeOK, StartPlaces, PortTable, Handing
<1>4. Listing'
  BY DEF Polls, discover_actual_connection, Lists, Listing, TokenListed, TokenForFile,
     PortHeld, HoldsPort, AppAlive, Binding, NoEntry, Handing, StartTypeOK, StartPlaces,
     PortTable, Entries, PortNumbers
<1>5. Asking'
  <2>1. CASE test'.at = "asks"
    <3>1. test \in Looks BY DEF StartTypeOK
    <3>2. /\ test'.port = discover_actual_connection.port
          /\ test'.token = discover_actual_connection.token
          /\ test'.up = (server = "serves" /\ AppAlive)
      BY <2>1, <3>1 DEF Polls, Looks
    <3>3. entry.port # 0 => TokenListed /\ server \in {"listed", "serves"}
      BY DEF Listing, NoEntry, StartTypeOK, StartPlaces, Binding
    <3>4. UNCHANGED <<server, entry, missed, auth>> BY DEF Polls
    <3>5. server = "serves" /\ missed = {} => entry.port # 0 BY DEF Listing
    <3>6. CASE Lists
      BY <3>2, <3>3, <3>4, <3>6 DEF Asking, discover_actual_connection, Lists, TokenListed,
         TokenForFile
    <3>7. CASE ~Lists
      BY <3>2, <3>4, <3>5, <3>7 DEF Asking, discover_actual_connection, Lists
    <3>8. QED BY <3>6, <3>7
  <2>2. QED BY <2>1 DEF Asking
<1>6. Waiting'
  BY DEF Polls, discover_actual_connection, Lists, Waiting, Asking, Listing, Handing,
     StartTypeOK, StartPlaces, Looks, AppAlive, NoEntry
<1>7. OnReadyIsOurs'
  BY DEF Polls, discover_actual_connection, Lists, OnReadyIsOurs, StartTypeOK, StartPlaces,
     Reports
<1>8. TestsDriveTheirChild'
  BY DEF Polls, discover_actual_connection, Lists, TestsDriveTheirChild, Found, Asking,
     Listing, Handing, StartTypeOK, StartPlaces, Looks, PortTable, AppAlive, NoEntry
<1>9. Found'
  BY DEF Polls, discover_actual_connection, Lists, Found, Asking, Handing, StartTypeOK,
     Looks
<1>10. QED BY <1>1, <1>2, <1>3, <1>4, <1>5, <1>6, <1>7, <1>8, <1>9 DEF StartInv

LEMMA AnsweredStep == ASSUME StartInv, Answered PROVE StartInv'
<1> USE AppStartAssumption DEF StartInv
<1>1. StartTypeOK'
  <2>1. test' \in Looks
    BY DEF Answered, Serves, StartTypeOK, Looks, PortTable, Owners, PortNumbers, AppAlive
  <2>2. QED BY <2>1 DEF Answered, StartTypeOK, StartPlaces
<1>2. Handing'
  BY DEF Answered, Serves, Handing, StartTypeOK, StartPlaces, Notices, AppStates
<1>3. PortHeld'
  BY DEF Answered, Serves, PortHeld, HoldsPort, AppAlive, Binding, StartTypeOK, StartPlaces,
     PortTable, Handing
<1>4. Listing'
  BY DEF Answered, Serves, Listing, TokenListed, TokenForFile, PortHeld, HoldsPort,
     AppAlive, Binding, NoEntry, Handing, StartTypeOK, StartPlaces, PortTable, Entries,
     PortNumbers
<1>5. Asking'
  BY DEF Answered, Serves, Asking, Listing, TokenListed, TokenForFile, StartTypeOK, Looks,
     Entries, Handing, NoEntry
<1>6. Waiting'
  BY DEF Answered, Serves, Waiting, Asking, Listing, Handing, StartTypeOK, StartPlaces,
     Looks, AppAlive, NoEntry
<1>7. OnReadyIsOurs'
  BY DEF Answered, Serves, OnReadyIsOurs, StartTypeOK, StartPlaces, Reports
<1>8. TestsDriveTheirChild'
  <2>1. UNCHANGED <<app, server, entry, missed, auth, owner>> BY DEF Answered
  <2>2. CASE test.port # 0 /\ Serves(test.port)
    <3>1. test' = [test EXCEPT !.at = "ready", !.who = owner[test.port], !.up = app = "runs"]
      BY <2>2 DEF Answered
    <3>2. test'.who = owner[test.port] /\ test'.up = (app = "runs") /\ test'.token = test.token
      BY <3>1 DEF StartTypeOK, Looks
    <3>3. "token" \notin missed => test.token = TokenForFile BY <2>2 DEF Answered, Asking
    <3>4. ASSUME app = "runs" PROVE owner[test.port] = "app"
      <4>1. server \in {"listed", "serves"} /\ test.port = entry.port
        BY <2>2, <3>4 DEF Answered, Asking, Handing
      <4>2. QED BY <2>2, <3>4, <4>1 DEF Listing, AppAlive
    <3>5. QED BY <2>1, <3>2, <3>3, <3>4 DEF TestsDriveTheirChild, TokenForFile
  <2>3. CASE ~(test.port # 0 /\ Serves(test.port))
    <3>1. test'.at = "polls" BY <2>3 DEF Answered, StartTypeOK, Looks
    <3>2. QED BY <3>1 DEF TestsDriveTheirChild
  <2>4. QED BY <2>2, <2>3
<1>9. Found'
  BY DEF Answered, Serves, Found, Asking, Handing, StartTypeOK, Looks
<1>10. QED BY <1>1, <1>2, <1>3, <1>4, <1>5, <1>6, <1>7, <1>8, <1>9 DEF StartInv

LEMMA DropStep == ASSUME StartInv, Drop PROVE StartInv'
<1> USE AppStartAssumption DEF StartInv
<1>1. StartTypeOK'
  <2>1. StartPlaces'
    BY DEF Drop, ReleasePort, StartTypeOK, StartPlaces, Binding, AppStates, GateTokens
  <2>2. test' \in Looks
    BY DEF Drop, StartTypeOK, Looks
  <2>3. owner' \in PortTable
    BY DEF Drop, ReleasePort, StartTypeOK, PortTable, Owners
  <2>4. QED BY <2>1, <2>2, <2>3 DEF Drop, ReleasePort, StartTypeOK, StartPlaces
<1>2. Handing'
  BY DEF Drop, ReleasePort, Handing, StartTypeOK, StartPlaces, Notices, AppStates
<1>3. PortHeld'
  BY DEF Drop, ReleasePort, PortHeld, HoldsPort, AppAlive, Binding, StartTypeOK,
     StartPlaces, PortTable, Handing
<1>4. Listing'
  BY DEF Drop, ReleasePort, Listing, TokenListed, TokenForFile, PortHeld, HoldsPort,
     AppAlive, Binding, NoEntry, Handing, StartTypeOK, StartPlaces, PortTable, Entries,
     PortNumbers
<1>5. Asking'
  BY DEF Drop, ReleasePort, Asking, Listing, TokenListed, TokenForFile, StartTypeOK, Looks,
     Entries, Handing, NoEntry
<1>6. Waiting'
  BY DEF Drop, ReleasePort, Waiting, Asking, Listing, Handing, StartTypeOK, StartPlaces,
     Looks, AppAlive, NoEntry
<1>7. OnReadyIsOurs'
  BY DEF Drop, ReleasePort, OnReadyIsOurs, StartTypeOK, StartPlaces, Reports
<1>8. TestsDriveTheirChild'
  BY DEF Drop, ReleasePort, TestsDriveTheirChild, Found, Asking, Listing, Handing,
     StartTypeOK, StartPlaces, Looks, PortTable, AppAlive, NoEntry
<1>9. Found'
  BY DEF Drop, ReleasePort, Found, Asking, Handing, StartTypeOK, Looks
<1>10. QED BY <1>1, <1>2, <1>3, <1>4, <1>5, <1>6, <1>7, <1>8, <1>9 DEF StartInv

LEMMA StartBegins == ASSUME StartInit PROVE StartInv
<1> USE AppStartAssumption DEF StartInit, NoEntry, Nobody
<1>1. StartTypeOK
  <2>1. StartPlaces BY DEF StartPlaces, Binding, AppStates, GateTokens
  <2>2. owner \in PortTable /\ entry \in Entries
    BY DEF PortTable, Owners, PortNumbers, Entries, FileTokens, GateTokens
  <2>3. bound \in Notices /\ ready \in Reports /\ test \in Looks
    BY DEF Notices, Reports, Looks, Owners, AppStates, FileTokens, GateTokens
  <2>4. QED BY <2>1, <2>2, <2>3 DEF StartTypeOK
<1>2. Handing /\ PortHeld /\ Listing
  BY DEF Handing, PortHeld, HoldsPort, Listing, Binding, AppAlive
<1>3. Asking /\ Found /\ Waiting /\ OnReadyIsOurs /\ TestsDriveTheirChild
  BY DEF Asking, Found, Waiting, OnReadyIsOurs, TestsDriveTheirChild
<1>4. QED BY <1>1, <1>2, <1>3 DEF StartInv

LEMMA StartInvStep == ASSUME StartInv, [StartNext]_startVars PROVE StartInv'
<1>1. CASE Build BY <1>1, BuildStep
<1>2. CASE SpawnServer BY <1>2, SpawnServerStep
<1>3. CASE ServerStep
  BY <1>3, ThreadTakesStep, ParcelComesBackStep, SharedRunsStep, TryBindStep,
     BindAnyStep, WriteTokenStep, WritePortStep, ReportBoundStep DEF ServerStep
<1>4. CASE ReadyEnds BY <1>4, ReadyEndsStep
<1>5. CASE Exit \/ Unlist \/ ServerStops \/ Dies \/ OtherApp
  BY <1>5, ExitStep, UnlistStep, ServerStopsStep, DiesStep, OtherAppStep
<1>6. CASE Polls \/ Answered \/ Drop BY <1>6, PollsStep, AnsweredStep, DropStep
<1>7. CASE UNCHANGED startVars
  <2> USE <1>7 DEF startVars
  <2>1. StartTypeOK' BY DEF StartInv, StartTypeOK, StartPlaces
  <2>2. Handing' /\ Listing'
    BY DEF StartInv, Handing, Listing, AppAlive, TokenListed, TokenForFile
  <2>3. PortHeld' BY DEF StartInv, PortHeld, HoldsPort, AppAlive
  <2>4. Asking' /\ Found' /\ Waiting' BY DEF StartInv, Asking, Found, Waiting, TokenForFile
  <2>5. OnReadyIsOurs' /\ TestsDriveTheirChild'
    BY DEF StartInv, OnReadyIsOurs, TestsDriveTheirChild
  <2>6. QED BY <2>1, <2>2, <2>3, <2>4, <2>5 DEF StartInv
<1>8. QED BY <1>1, <1>2, <1>3, <1>4, <1>5, <1>6, <1>7 DEF StartNext

(* For any preferred port and range, whatever fails on the way and whoever *)
(* takes the ports: on_ready names a port that is the application's and    *)
(* listed, unless the exit came first or a file could not be written, no   *)
(* token is asked for only if that was requested, the entry lists the one  *)
(* that is, and a test drives the application it started or none.          *)
THEOREM StartIsSoundAlways == StartSpec => []StartIsSound
<1>1. ASSUME StartInv PROVE StartIsSound
  <2>1. server \in {"serves", "leaving"} => handed # "no" BY <1>1 DEF StartInv, Handing
  <2>2. AuthIsOn BY <1>1, <2>1 DEF StartInv, Handing, AuthIsOn
  <2>3. Wrapped \/ TimeoutsAreTrue BY <1>1 DEF StartInv, Waiting, TimeoutsAreTrue
  <2>4. QED BY <1>1, <2>2, <2>3 DEF StartInv, StartIsSound
<1>2. StartInit => StartInv BY StartBegins
<1>3. StartInv /\ [StartNext]_startVars => StartInv' BY StartInvStep
<1>4. QED BY <1>1, <1>2, <1>3, PTL DEF StartSpec
-----------------------------------------------------------------------------
(***************************************************************************)
(* CaptureIsFollowed for any files, windows, limits and failures. Captured  *)
(* are numbered through the files (Numbered), so a cursor is a number: its *)
(* file's first plus its offset. Everything up to it is had or was said to *)
(* be gone (CursorInv). That survives a change of files because the file   *)
(* next to the open one is its predecessor whenever it is the cursor's,    *)
(* and a file that is not the last grows no more.                          *)
(***************************************************************************)
FileNames == Files \cup {NoFile}

Readers ==
  [kind : {"plugin", "cli"},
   pc : {"new", "idle", "opened", "both", "quiet", "last", "end"},
   tag : FileNames, offset : Nat, cur : FileNames, curTag : FileNames,
   old : FileNames, oldTag : FileNames, dead : BOOLEAN,
   ended : {"no", "exit", "killed"}, after : Nat, got : Seq(Nat),
   excused : SUBSET Nat, blind : BOOLEAN]

Writers ==
  [state : {"running", "done", "killed"}, exit : BOOLEAN, stopped : BOOLEAN, faults : Nat,
   pc : {"idle", "remove", "rename", "open", "refused", "write"}, last : Files]

ConsoleTypeOK ==
  /\ content \in [Files -> Seq(Nat)] /\ IsFiniteSet(Captured)
  /\ disk \in [path : FileNames, old : FileNames] /\ file \in Files /\ exitRecord \in Nat
  /\ writer \in Writers
  /\ reader \in Readers

(* The names: the file behind the last, or the last itself while a rotation *)
(* is under way or has failed.                                              *)
CaptureInv ==
  /\ file = writer.last /\ disk.path \in {NoFile, file}
  /\ disk.old # NoFile => disk.old = file - 1 \/ (disk.old = file /\ disk.path = NoFile)
  /\ writer.pc = "rename" => disk.old = NoFile
  /\ writer.pc = "open" => disk.path = NoFile /\ disk.old \in {NoFile, file}
  /\ \A f \in Files : f > file => content[f] = <<>>
  /\ writer.state = "done" =>
       exitRecord # 0 /\ \E k \in DOMAIN content[file] : content[file][k] = exitRecord
  /\ writer.state # "done" => exitRecord = 0

EndInv ==
  /\ reader.pc = "last" => writer.state # "running" /\ (reader.kind = "cli" => reader.dead)
  /\ reader.dead => writer.state # "running" /\ disk.path # NoFile
  /\ UnknownExitIsTrue

(* A record is its file's start and its place.                              *)
Numbered(start) ==
  /\ start \in [Files -> Nat]
  /\ \A f \in Files : \A k \in DOMAIN content[f] : content[f][k] = start[f] + k
  /\ \A f, g \in Files : f < g => start[f] + Len(content[f]) <= start[g]
  /\ \A f \in Files : f + 1 \in Files => start[f + 1] = start[f] + Len(content[f])
  /\ start[file] + Len(content[file]) = Written

Rises(s) == \A i, j \in DOMAIN s : i < j => s[i] < s[j]

(* The cursor is in file g.                                                 *)
CursorAt(start, g) ==
  /\ g <= file /\ reader.offset <= Len(content[g])
  /\ \A i \in DOMAIN reader.got : reader.got[i] <= start[g] + reader.offset
  /\ ~reader.blind => \A m \in (reader.after + 1)..(start[g] + reader.offset) : Told(m)
  /\ reader.tag # NoFile => g = reader.tag /\ reader.offset >= 1
  /\ reader.tag = NoFile /\ ~reader.blind => disk.path = g

OpenedInv(g) ==
  /\ reader.cur # NoFile => g <= reader.cur /\ reader.cur <= file
  /\ reader.tag = NoFile /\ ~reader.blind => reader.cur = g
  /\ reader.tag # NoFile /\ reader.cur = reader.tag => reader.curTag = reader.tag

BothInv ==
  /\ reader.tag # NoFile
  /\ reader.cur # NoFile => reader.tag < reader.cur /\ reader.cur <= file
  /\ reader.oldTag = reader.tag =>
       reader.old = reader.tag /\ (reader.cur # NoFile => reader.cur = reader.tag + 1)

CursorInv(start, g) ==
  /\ Rises(reader.got)
  /\ reader.pc = "new" => reader.got = <<>> /\ ~reader.blind /\ reader.tag = NoFile
  /\ reader.pc # "new" => CursorAt(start, g)
  /\ reader.pc = "opened" => OpenedInv(g)
  /\ reader.pc = "both" => BothInv
  /\ reader.pc \in {"opened", "both"} /\ reader.curTag # NoFile =>
       reader.curTag = reader.cur /\ content[reader.cur] # <<>>

ReaderInv == \E start \in [Files -> Nat] : \E g \in Files : Numbered(start) /\ CursorInv(start, g)

ConsoleInv == ConsoleTypeOK /\ CaptureInv /\ EndInv /\ ReaderInv

LEMMA FilesAre ==
  /\ Files \subseteq Nat \ {0} /\ 1 \in Files /\ NoFile \notin Files
  /\ \A f \in Files, n \in Nat : n >= 1 /\ n <= f => n \in Files
BY ConsoleAssumption DEF ConsoleAssumption, Files

LEMMA ContentsAre ==
  ASSUME ConsoleTypeOK, NEW f \in Files
  PROVE  /\ content[f] \in Seq(Nat) /\ Len(content[f]) \in Nat
         /\ DOMAIN content[f] = 1..Len(content[f])
         /\ content[f] = <<>> <=> Len(content[f]) = 0
<1>1. content[f] \in Seq(Nat)
  BY DEF ConsoleTypeOK
<1> QED BY <1>1, LenProperties, EmptySeq

LEMMA ConsoleStarts ==
  ASSUME ConsoleInit
  PROVE  ConsoleInv
<1>1. content = [f \in Files |-> <<>>] /\ Captured = {}
  BY DEF ConsoleInit, Captured
<1>2. Written = 0 /\ IsFiniteSet(Captured)
  BY <1>1, FS_EmptySet DEF Written
<1>3. <<>> \in Seq(Nat) /\ DOMAIN <<>> = {} /\ Len(<<>>) = 0
  OBVIOUS
<1>4. ConsoleTypeOK
  BY <1>1, <1>2, <1>3, FilesAre, ConsoleAssumption DEF ConsoleInit, ConsoleTypeOK, Readers, Writers, FileNames, ConsoleAssumption
<1>5. CaptureInv /\ EndInv
  BY <1>1, FilesAre DEF ConsoleInit, CaptureInv, EndInv, UnknownExitIsTrue
<1>6. Numbered([f \in Files |-> 0])
  BY <1>1, <1>2, <1>3, FilesAre DEF Numbered, ConsoleInit
<1>7. CursorInv([f \in Files |-> 0], 1)
  BY <1>3 DEF CursorInv, ConsoleInit, Rises
<1>8. [f \in Files |-> 0] \in [Files -> Nat] /\ 1 \in Files
  BY FilesAre
<1>9. ReaderInv
  BY <1>6, <1>7, <1>8 DEF ReaderInv
<1> QED BY <1>4, <1>5, <1>9 DEF ConsoleInv

(* Nothing but the contents of a file changes what a step of the reader     *)
(* stands on.                                                               *)
LEMMA NumbersStay ==
  ASSUME NEW start \in [Files -> Nat], Numbered(start),
         UNCHANGED <<content, file>>
  PROVE  Numbered(start)'
BY DEF Numbered, Captured, Written

(* A record is put at the end of the last file.                             *)
LEMMA PutGrows ==
  ASSUME ConsoleTypeOK, CaptureInv, NEW start \in [Files -> Nat], Numbered(start),
         Put(file), file' = file
  PROVE  /\ content' \in [Files -> Seq(Nat)] /\ IsFiniteSet(Captured)'
         /\ Written \in Nat
         /\ \A f \in Files : f # file => content'[f] = content[f]
         /\ Len(content'[file]) = Len(content[file]) + 1
         /\ DOMAIN content'[file] = 1..(Len(content[file]) + 1)
         /\ content'[file][Len(content[file]) + 1] = Written + 1
         /\ \A k \in DOMAIN content[file] : content'[file][k] = content[file][k]
         /\ Written' = Written + 1
<1> DEFINE n == Len(content[file])
<1>1. file \in Files /\ n \in Nat /\ content[file] \in Seq(Nat) /\ DOMAIN content[file] = 1..n
  BY ContentsAre DEF ConsoleTypeOK
<1>2. Written \in Nat
  BY FS_CardinalityType DEF Written, ConsoleTypeOK
<1>3. content' = [content EXCEPT ![file] = Append(content[file], Written + 1)]
  BY DEF Put
<1>4. /\ Append(content[file], Written + 1) \in Seq(Nat)
      /\ Len(Append(content[file], Written + 1)) = n + 1
      /\ \A k \in 1..n : Append(content[file], Written + 1)[k] = content[file][k]
      /\ Append(content[file], Written + 1)[n + 1] = Written + 1
  <2>1. Written + 1 \in Nat
    BY <1>2
  <2> QED BY <1>1, <2>1, AppendProperties
<1>5. content'[file] = Append(content[file], Written + 1)
      /\ \A f \in Files : f # file => content'[f] = content[f]
  BY <1>1, <1>3 DEF ConsoleTypeOK
<1>6. content' \in [Files -> Seq(Nat)]
  BY <1>1, <1>3, <1>4 DEF ConsoleTypeOK
<1>7. DOMAIN content'[file] = 1..(n + 1)
  BY <1>4, <1>5, LenProperties
<1>8. Captured' = Captured \cup {<<file, n + 1>>} /\ <<file, n + 1>> \notin Captured
  <2>1. \A f \in Files : f # file => DOMAIN content'[f] = DOMAIN content[f]
    BY <1>5
  <2>2. DOMAIN content'[file] = DOMAIN content[file] \cup {n + 1} /\ n + 1 \notin DOMAIN content[file]
    BY <1>1, <1>7
  <2>3. \A r : r \in Captured <=> \E f \in Files : \E k \in DOMAIN content[f] : r = <<f, k>>
    BY DEF Captured
  <2>4. \A r : r \in Captured' <=> \E f \in Files : \E k \in DOMAIN content'[f] : r = <<f, k>>
    BY DEF Captured
  <2> HIDE DEF n
  <2>5. ASSUME NEW r PROVE r \in Captured' <=> r \in Captured \cup {<<file, n + 1>>}
    BY <1>1, <2>1, <2>2, <2>3, <2>4
  <2>6. <<file, n + 1>> \notin Captured
    BY <2>2, <2>3
  <2> QED BY <2>5, <2>6
<1>9. IsFiniteSet(Captured') /\ Cardinality(Captured') = Cardinality(Captured) + 1
  BY <1>8, FS_AddElement DEF ConsoleTypeOK
<1>10. Written' = Written + 1
  BY <1>9 DEF Written
<1> QED BY <1>2, <1>4, <1>5, <1>6, <1>7, <1>9, <1>10, <1>1

LEMMA PutNumbers ==
  ASSUME ConsoleTypeOK, CaptureInv, NEW start \in [Files -> Nat], Numbered(start),
         Put(file), file' = file
  PROVE  \E next \in [Files -> Nat] :
           Numbered(next)' /\ \A f \in Files : f <= file => next[f] = start[f]
<1> DEFINE n == Len(content[file])
<1>n. PICK next \in [Files -> Nat] :
        \A f \in Files : next[f] = IF f > file THEN start[f] + 1 ELSE start[f]
  <2> DEFINE shifted == [f \in Files |-> IF f > file THEN start[f] + 1 ELSE start[f]]
  <2>1. shifted \in [Files -> Nat]
    OBVIOUS
  <2> QED BY <2>1
<1>1. /\ file \in Files /\ Files \subseteq Nat
      /\ \A f \in Files : Len(content[f]) \in Nat /\ DOMAIN content[f] = 1..Len(content[f])
      /\ \A f \in Files : f > file => Len(content[f]) = 0
  BY FilesAre, ContentsAre DEF ConsoleTypeOK, CaptureInv
<1>2. /\ \A f \in Files : f # file => content'[f] = content[f]
      /\ Len(content'[file]) = n + 1 /\ DOMAIN content'[file] = 1..(n + 1)
      /\ content'[file][n + 1] = Written + 1
      /\ \A k \in DOMAIN content[file] : content'[file][k] = content[file][k]
      /\ Written' = Written + 1 /\ Written \in Nat
  BY PutGrows
<1>3. next \in [Files -> Nat] /\ \A f \in Files : f <= file => next[f] = start[f]
  BY <1>1, <1>n
<1>4. start[file] + n = Written
  BY DEF Numbered
<1>5. ASSUME NEW f \in Files, NEW k \in DOMAIN content'[f] PROVE content'[f][k] = next[f] + k
  <2>1. CASE f = file
    <3>1. next[f] = start[f]
      BY <1>1, <1>3, <2>1
    <3>2. CASE k \in 1..n
      BY <1>1, <1>2, <2>1, <3>1, <3>2 DEF Numbered
    <3>3. CASE k = n + 1
      <4>1. start[file] \in Nat /\ n \in Nat /\ start[file] + n = Written
        BY <1>1, <1>4
      <4>2. content'[file][n + 1] = Written + 1
        BY <1>2
      <4>3. start[file] + (n + 1) = Written + 1
        <5> HIDE DEF n
        <5> QED BY <4>1
      <4> QED BY <2>1, <3>1, <3>3, <4>2, <4>3
    <3>4. k \in 1..n \/ k = n + 1
      <4>1. n \in Nat /\ k \in 1..(n + 1)
        BY <1>1, <1>2, <2>1
      <4> HIDE DEF n
      <4> QED BY <4>1
    <3> QED BY <3>2, <3>3, <3>4
  <2>2. CASE f # file
    <3>1. content'[f] = content[f] /\ content'[f][k] = start[f] + k
      BY <1>2, <2>2 DEF Numbered
    <3>2. f <= file
      BY <1>1, <3>1
    <3> QED BY <1>3, <3>1, <3>2
  <2> QED BY <2>1, <2>2
<1>6. \A f \in Files : /\ f = file => Len(content'[f]) = Len(content[f]) + 1
                       /\ f # file => Len(content'[f]) = Len(content[f])
                       /\ start[f] \in Nat /\ f \in Nat /\ Len(content[f]) \in Nat
                       /\ next[f] = IF f > file THEN start[f] + 1 ELSE start[f]
  BY <1>1, <1>2, <1>n
<1>7. \A f, g \in Files : f < g => next[f] + Len(content'[f]) <= next[g]
  <2> SUFFICES ASSUME NEW f \in Files, NEW g \in Files, f < g
               PROVE  next[f] + Len(content'[f]) <= next[g]
    OBVIOUS
  <2>1. start[f] + Len(content[f]) <= start[g]
    BY DEF Numbered
  <2>2. /\ start[f] \in Nat /\ start[g] \in Nat /\ f \in Nat /\ g \in Nat /\ file \in Nat
        /\ next[f] = IF f > file THEN start[f] + 1 ELSE start[f]
        /\ next[g] = IF g > file THEN start[g] + 1 ELSE start[g]
        /\ Len(content[f]) \in Nat
        /\ Len(content'[f]) = IF f = file THEN Len(content[f]) + 1 ELSE Len(content[f])
    BY <1>1, <1>6
  <2> QED BY <2>1, <2>2
<1>8. \A f \in Files : f + 1 \in Files => next[f + 1] = next[f] + Len(content'[f])
  <2> SUFFICES ASSUME NEW f \in Files, f + 1 \in Files
               PROVE  next[f + 1] = next[f] + Len(content'[f])
    OBVIOUS
  <2>1. start[f + 1] = start[f] + Len(content[f])
    BY DEF Numbered
  <2>2. /\ start[f] \in Nat /\ start[f + 1] \in Nat /\ f \in Nat /\ file \in Nat
        /\ next[f] = IF f > file THEN start[f] + 1 ELSE start[f]
        /\ next[f + 1] = IF f + 1 > file THEN start[f + 1] + 1 ELSE start[f + 1]
        /\ Len(content[f]) \in Nat
        /\ Len(content'[f]) = IF f = file THEN Len(content[f]) + 1 ELSE Len(content[f])
    BY <1>1, <1>6
  <2> QED BY <2>1, <2>2
<1>9. next[file] + Len(content'[file]) = Written'
  <2>1. next[file] = start[file] /\ start[file] \in Nat /\ n \in Nat
    BY <1>1, <1>3
  <2>2. Len(content'[file]) = n + 1 /\ Written' = Written + 1 /\ Written \in Nat
    BY <1>2
  <2>3. start[file] + n = Written
    BY <1>4
  <2> HIDE DEF n
  <2> QED BY <2>1, <2>2, <2>3
<1>10. Numbered(next)'
  BY <1>3, <1>5, <1>7, <1>8, <1>9 DEF Numbered
<1> QED BY <1>3, <1>10

(* The cursor survives what the launcher does.                              *)
LEMMA CursorStays ==
  ASSUME ConsoleTypeOK, NEW start \in [Files -> Nat], NEW next \in [Files -> Nat],
         NEW g \in Files, CursorInv(start, g),
         \A f \in Files : f <= file => next[f] = start[f],
         file' \in Files, file' >= file,
         \A f \in Files : Len(content[f]) <= Len(content'[f]),
         content' \in [Files -> Seq(Nat)],
         UNCHANGED reader \/ reader' = [reader EXCEPT !.blind = TRUE],
         ~reader'.blind /\ reader.pc # "new" /\ reader.tag = NoFile => disk'.path = disk.path,
         reader' # reader => reader.pc # "new"
  PROVE  CursorInv(next, g)'
<1>1. /\ reader'.got = reader.got /\ reader'.pc = reader.pc /\ reader'.tag = reader.tag
      /\ reader'.offset = reader.offset /\ reader'.after = reader.after
      /\ reader'.cur = reader.cur /\ reader'.curTag = reader.curTag
      /\ reader'.old = reader.old /\ reader'.oldTag = reader.oldTag
      /\ reader'.excused = reader.excused
      /\ reader'.blind \in BOOLEAN /\ (~reader'.blind => ~reader.blind)
      /\ reader.pc = "new" => reader'.blind = reader.blind
  BY DEF ConsoleTypeOK, Readers
<1>2. \A m : Told(m)' <=> Told(m)
  BY <1>1 DEF Told, Has
<1>3. /\ Files \subseteq Nat \ {0} /\ file \in Nat /\ file' \in Nat /\ reader.offset \in Nat
      /\ \A f \in Files : Len(content[f]) \in Nat /\ Len(content'[f]) \in Nat
  <2>1. \A f \in Files : content'[f] \in Seq(Nat)
    OBVIOUS
  <2>2. reader.offset \in Nat
    BY DEF ConsoleTypeOK, Readers
  <2>3. file \in Files
    BY DEF ConsoleTypeOK
  <2>4. \A f \in Files : Len(content[f]) \in Nat /\ Len(content'[f]) \in Nat
    BY <2>1, ContentsAre, LenProperties
  <2> QED BY <2>2, <2>3, <2>4, FilesAre
<1>4. reader.pc # "new" => CursorAt(next, g)'
  <2> SUFFICES ASSUME reader.pc # "new" PROVE CursorAt(next, g)'
    OBVIOUS
  <2>1. CursorAt(start, g)
    BY DEF CursorInv
  <2>2. next[g] = start[g]
    BY <2>1 DEF CursorAt
  <2>3. g <= file' /\ reader.offset <= Len(content'[g])
    BY <1>3, <2>1 DEF CursorAt
  <2>4. ~reader'.blind => \A m \in (reader.after + 1)..(next[g] + reader.offset) : Told(m)'
    BY <1>1, <1>2, <2>1, <2>2 DEF CursorAt
  <2> QED BY <1>1, <2>1, <2>2, <2>3, <2>4 DEF CursorAt
<1>c. reader.cur # NoFile /\ reader.cur <= file => reader.cur <= file'
  <2>1. reader.cur \in FileNames
    BY DEF ConsoleTypeOK, Readers
  <2>2. reader.cur # NoFile => reader.cur \in Nat
    BY <1>3, <2>1 DEF FileNames
  <2> QED BY <1>3, <2>2
<1>5. reader.pc = "opened" => OpenedInv(g)'
  <2> SUFFICES ASSUME reader.pc = "opened" PROVE OpenedInv(g)'
    OBVIOUS
  <2>1. OpenedInv(g)
    BY DEF CursorInv
  <2> QED BY <1>1, <1>c, <2>1 DEF OpenedInv
<1>6. reader.pc = "both" => BothInv'
  <2> SUFFICES ASSUME reader.pc = "both" PROVE BothInv'
    OBVIOUS
  <2>1. BothInv
    BY DEF CursorInv
  <2> QED BY <1>1, <1>c, <2>1 DEF BothInv
<1>7. reader.pc \in {"opened", "both"} /\ reader.curTag # NoFile =>
        reader.curTag = reader.cur /\ content'[reader.cur] # <<>>
  <2> SUFFICES ASSUME reader.pc \in {"opened", "both"}, reader.curTag # NoFile
               PROVE  reader.curTag = reader.cur /\ content'[reader.cur] # <<>>
    OBVIOUS
  <2>1. reader.curTag = reader.cur /\ content[reader.cur] # <<>> /\ reader.cur \in Files
    BY FilesAre DEF CursorInv, ConsoleTypeOK, Readers, FileNames
  <2>2. Len(content[reader.cur]) # 0
    BY <2>1, ContentsAre
  <2>3. Len(content'[reader.cur]) # 0
    BY <1>3, <2>1, <2>2
  <2> QED BY <2>1, <2>3
<1> QED BY <1>1, <1>4, <1>5, <1>6, <1>7 DEF CursorInv, Rises

LEMMA EndStays ==
  ASSUME EndInv, UNCHANGED <<writer, exitRecord, disk>>,
         reader'.dead = reader.dead, reader'.ended = reader.ended, reader'.kind = reader.kind,
         reader'.pc = "last" => reader.kind = "cli" /\ reader.dead
  PROVE  EndInv'
BY DEF EndInv, UnknownExitIsTrue

(* While the launcher runs nobody has found it dead.                        *)
LEMMA EndIsAhead ==
  ASSUME EndInv, writer.state = "running",
         UNCHANGED reader \/ reader' = [reader EXCEPT !.blind = TRUE], reader \in Readers
  PROVE  EndInv'
<1>1. reader'.dead = reader.dead /\ reader'.ended = reader.ended /\ reader'.pc = reader.pc
  BY DEF Readers
<1>2. ~reader.dead /\ reader.pc # "last" /\ reader.ended # "killed"
  BY DEF EndInv, UnknownExitIsTrue
<1> QED BY <1>1, <1>2 DEF EndInv, UnknownExitIsTrue

(* Steps of the launcher that touch no file.                                *)
LEMMA QuietLauncherKeeps ==
  ASSUME ConsoleInv, writer.state = "running", UNCHANGED <<content, file, exitRecord, disk, reader>>,
         writer' \in Writers, writer'.state \in {"running", "killed"}, writer'.last = writer.last,
         writer'.pc = writer.pc \/ writer'.pc \in {"remove", "write", "refused"}
  PROVE  ConsoleInv'
<1>1. ConsoleTypeOK' /\ CaptureInv'
  BY DEF ConsoleInv, ConsoleTypeOK, CaptureInv, Captured
<1>2. EndInv'
  BY EndIsAhead DEF ConsoleInv, ConsoleTypeOK
<1>3. ASSUME NEW start \in [Files -> Nat], NEW g \in Files, Numbered(start), CursorInv(start, g)
      PROVE  Numbered(start)' /\ CursorInv(start, g)'
  <2>1. Numbered(start)'
    BY <1>3, NumbersStay
  <2>2. CursorInv(start, g)'
    BY <1>3 DEF CursorInv, CursorAt, OpenedInv, BothInv, Told, Has
  <2> QED BY <2>1, <2>2
<1>4. ReaderInv'
  BY <1>3 DEF ConsoleInv, ReaderInv
<1> QED BY <1>1, <1>2, <1>4 DEF ConsoleInv

LEMMA WriterKeeps ==
  ASSUME ConsoleInv, Killed \/ \E exit \in BOOLEAN : WriteRecord(exit)
  PROVE  ConsoleInv'
<1>1. /\ writer.state = "running" /\ UNCHANGED <<content, file, exitRecord, disk, reader>>
  BY DEF Killed, WriteRecord
<1>2. /\ writer' \in Writers /\ writer'.state \in {"running", "killed"} /\ writer'.last = writer.last
      /\ writer'.pc = writer.pc \/ writer'.pc \in {"remove", "write", "refused"}
  <2>1. writer \in Writers
    BY DEF ConsoleInv, ConsoleTypeOK
  <2>2. CASE Killed
    BY <2>1, <2>2 DEF Killed, Writers
  <2>3. CASE \E exit \in BOOLEAN : WriteRecord(exit)
    BY <2>1, <2>3 DEF WriteRecord, Writers
  <2> QED BY <2>2, <2>3
<1> QED BY <1>1, <1>2, QuietLauncherKeeps

(* What a step of the launcher leaves of the reader's cursor.               *)
LEMMA ReaderStays ==
  ASSUME ConsoleTypeOK, ReaderInv, UNCHANGED <<content, file>>,
         UNCHANGED reader \/ reader' = [reader EXCEPT !.blind = TRUE],
         ~reader'.blind /\ reader.pc # "new" /\ reader.tag = NoFile => disk'.path = disk.path,
         reader' # reader => reader.pc # "new"
  PROVE  ReaderInv'
<1>1. PICK start \in [Files -> Nat] : \E g \in Files : Numbered(start) /\ CursorInv(start, g)
  BY DEF ReaderInv
<1>2. PICK g \in Files : Numbered(start) /\ CursorInv(start, g)
  BY <1>1
<1>3. /\ file' \in Files /\ file' >= file /\ content' \in [Files -> Seq(Nat)]
      /\ \A f \in Files : Len(content[f]) <= Len(content'[f])
  <2>1. \A f \in Files : content'[f] = content[f] /\ Len(content[f]) \in Nat
    BY ContentsAre
  <2>2. file \in Nat
    BY FilesAre DEF ConsoleTypeOK
  <2> QED BY <2>1, <2>2 DEF ConsoleTypeOK
<1>4. CursorInv(start, g)'
  BY <1>2, <1>3, CursorStays
<1>5. Numbered(start)'
  BY <1>2, NumbersStay
<1> QED BY <1>4, <1>5 DEF ReaderInv

LEMMA RemoveKeeps ==
  ASSUME ConsoleInv, RemoveCapture
  PROVE  ConsoleInv'
<1>1. /\ writer.state = "running" /\ UNCHANGED <<content, file, exitRecord, reader>>
      /\ disk' = [disk EXCEPT !.old = NoFile] /\ writer' = [writer EXCEPT !.pc = "rename"]
  BY DEF RemoveCapture
<1>2. /\ writer' \in Writers /\ writer'.state = "running" /\ writer'.last = writer.last
      /\ writer'.pc = "rename"
  BY <1>1 DEF ConsoleInv, ConsoleTypeOK, Writers
<1>3. /\ disk' \in [path : FileNames, old : FileNames] /\ disk'.path = disk.path /\ disk'.old = NoFile
  BY <1>1 DEF ConsoleInv, ConsoleTypeOK, FileNames
<1>4. ConsoleTypeOK'
  BY <1>1, <1>2, <1>3 DEF ConsoleInv, ConsoleTypeOK, Captured
<1>5. CaptureInv'
  BY <1>1, <1>2, <1>3 DEF ConsoleInv, CaptureInv
<1>6. EndInv'
  BY <1>1, EndIsAhead DEF ConsoleInv, ConsoleTypeOK
<1>7. ReaderInv'
  BY <1>1, <1>3, ReaderStays DEF ConsoleInv
<1> QED BY <1>4, <1>5, <1>6, <1>7 DEF ConsoleInv

LEMMA WriterMoves ==
  ASSUME writer \in Writers, NEW q \in {"open", "refused"}, NEW n \in Nat,
         writer' = [writer EXCEPT !.pc = q] \/ writer' = [writer EXCEPT !.pc = q, !.faults = n]
  PROVE  writer' \in Writers /\ writer'.state = writer.state /\ writer'.last = writer.last
         /\ writer'.pc = q
<1>1. CASE writer' = [writer EXCEPT !.pc = q]
  BY <1>1 DEF Writers
<1>2. CASE writer' = [writer EXCEPT !.pc = q, !.faults = n]
  <2>1. writer' = [state |-> writer.state, exit |-> writer.exit, stopped |-> writer.stopped,
                   faults |-> n, pc |-> q, last |-> writer.last]
    BY <1>2 DEF Writers
  <2> QED BY <2>1 DEF Writers
<1> QED BY <1>1, <1>2

LEMMA RenameKeeps ==
  ASSUME ConsoleInv, Rename
  PROVE  ConsoleInv'
<1>1. /\ writer.state = "running" /\ writer.pc = "rename" /\ UNCHANGED <<content, file, exitRecord>>
      /\ reader \in Readers /\ writer \in Writers /\ disk \in [path : FileNames, old : FileNames]
      /\ disk.old = NoFile
  BY DEF Rename, ConsoleInv, ConsoleTypeOK, CaptureInv
<1>v. \/ writer' = [writer EXCEPT !.pc = "open"]
      \/ writer' = [writer EXCEPT !.pc = "open", !.faults = writer.faults + 1]
      \/ writer' = [writer EXCEPT !.pc = "refused"]
      \/ writer' = [writer EXCEPT !.pc = "refused", !.faults = writer.faults + 1]
  BY Zenon DEF Rename
<1>w. \/ /\ disk.path # NoFile
         /\ \/ disk' = [path |-> NoFile, old |-> disk.path]
            \/ disk' = [disk EXCEPT !.path = NoFile]
         /\ reader' = [reader EXCEPT !.blind = @ \/ (reader.pc # "new" /\ reader.tag = NoFile)]
         /\ writer'.pc = "open"
      \/ UNCHANGED <<disk, reader>> /\ writer'.pc = "refused"
  <2>1. \A q \in {"open", "refused"} :
          /\ [writer EXCEPT !.pc = q].pc = q
          /\ [writer EXCEPT !.pc = q, !.faults = writer.faults + 1].pc = q
    BY <1>1 DEF Writers
  <2> QED BY <2>1, Zenon DEF Rename
<1>2. \/ /\ disk.path # NoFile /\ disk'.path = NoFile /\ disk'.old \in {NoFile, disk.path}
         /\ disk' \in [path : FileNames, old : FileNames]
         /\ reader' = [reader EXCEPT !.blind = @ \/ (reader.pc # "new" /\ reader.tag = NoFile)]
         /\ writer'.pc = "open"
      \/ UNCHANGED <<disk, reader>> /\ writer'.pc = "refused"
  <2>1. /\ disk.path # NoFile
        /\ \/ disk' = [path |-> NoFile, old |-> disk.path]
           \/ disk' = [disk EXCEPT !.path = NoFile]
        /\ reader' = [reader EXCEPT !.blind = @ \/ (reader.pc # "new" /\ reader.tag = NoFile)]
        /\ writer'.pc = "open"
        => disk'.path = NoFile /\ disk'.old \in {NoFile, disk.path}
           /\ disk' \in [path : FileNames, old : FileNames]
    BY <1>1 DEF FileNames
  <2> QED BY <1>w, <2>1
<1>3. writer' \in Writers /\ writer'.state = "running" /\ writer'.last = writer.last
  <2>1. writer.faults + 1 \in Nat
    BY <1>1 DEF Writers
  <2>2. ASSUME NEW q \in {"open", "refused"},
               \/ writer' = [writer EXCEPT !.pc = q]
               \/ writer' = [writer EXCEPT !.pc = q, !.faults = writer.faults + 1]
        PROVE  writer' \in Writers /\ writer'.state = "running" /\ writer'.last = writer.last
    <3>1. /\ writer' \in Writers /\ writer'.state = writer.state /\ writer'.last = writer.last
          /\ writer'.pc = q
      BY <1>1, <2>1, <2>2, WriterMoves
    <3> QED BY <1>1, <3>1
  <2> QED BY <1>v, <2>2, Zenon
<1>4. /\ UNCHANGED reader \/ reader' = [reader EXCEPT !.blind = TRUE]
      /\ reader' # reader => reader.pc # "new"
      /\ ~reader'.blind /\ reader.pc # "new" /\ reader.tag = NoFile => disk'.path = disk.path
      /\ reader' \in Readers
  <2>1. CASE UNCHANGED <<disk, reader>>
    BY <1>1, <2>1
  <2>2. CASE reader' = [reader EXCEPT !.blind = @ \/ (reader.pc # "new" /\ reader.tag = NoFile)]
    <3>1. reader.blind \in BOOLEAN
      BY <1>1 DEF Readers
    <3>2. CASE reader.pc # "new" /\ reader.tag = NoFile
      <4>1. reader' = [reader EXCEPT !.blind = TRUE]
        BY <2>2, <3>2, Zenon
      <4> QED BY <1>1, <3>2, <4>1 DEF Readers
    <3>3. CASE ~(reader.pc # "new" /\ reader.tag = NoFile)
      <4>1. reader' = [reader EXCEPT !.blind = reader.blind]
        BY <2>2, <3>1, <3>3
      <4>2. reader' = reader
        BY <1>1, <4>1 DEF Readers
      <4> QED BY <1>1, <3>3, <4>2
    <3> QED BY <3>2, <3>3
  <2> QED BY <1>2, <2>1, <2>2
<1>5. ConsoleTypeOK'
  BY <1>1, <1>2, <1>3, <1>4 DEF ConsoleInv, ConsoleTypeOK, Captured
<1>6. CaptureInv'
  BY <1>1, <1>2, <1>3 DEF ConsoleInv, CaptureInv
<1>7. EndInv'
  BY <1>1, <1>4, EndIsAhead DEF ConsoleInv
<1>8. ReaderInv'
  BY <1>1, <1>4, ReaderStays DEF ConsoleInv
<1> QED BY <1>5, <1>6, <1>7, <1>8 DEF ConsoleInv

LEMMA OpenKeeps ==
  ASSUME ConsoleInv, Open
  PROVE  ConsoleInv'
<1>1. /\ writer.state = "running" /\ writer.pc = "open" /\ UNCHANGED <<content, exitRecord, reader>>
      /\ writer \in Writers /\ disk \in [path : FileNames, old : FileNames] /\ disk.path = NoFile
      /\ disk.old \in {NoFile, file} /\ writer.last = file /\ file \in Files
  BY DEF Open, ConsoleInv, ConsoleTypeOK, CaptureInv
<1>2. CASE UNCHANGED <<file, disk>>
  <2>1. writer' \in Writers /\ writer'.state = "running" /\ writer'.last = writer.last
        /\ writer'.pc \in {"refused", "write"}
    <3>1. writer' = [writer EXCEPT !.pc = "refused", !.faults = writer.faults + 1]
      <4>1. ~(file' = writer.last + 1)
        BY <1>1, <1>2, FilesAre
      <4> QED BY <4>1 DEF Open
    <3>2. writer.faults + 1 \in Nat
      BY <1>1 DEF Writers
    <3>3. /\ writer' \in Writers /\ writer'.state = writer.state /\ writer'.last = writer.last
          /\ writer'.pc = "refused"
      BY <1>1, <3>1, <3>2, WriterMoves
    <3> QED BY <1>1, <3>3
  <2>2. writer'.pc = "refused" \/ writer'.pc = "write"
    BY <2>1
  <2> QED BY <1>1, <1>2, <2>1, QuietLauncherKeeps
<1>3. CASE /\ writer.last < MaxFiles /\ file' = file + 1
           /\ disk' = [disk EXCEPT !.path = file + 1]
           /\ writer' = [writer EXCEPT !.pc = "write", !.last = @ + 1]
  <2>1. file \in Nat \ {0} /\ file' \in Files /\ file' = file + 1 /\ Files \subseteq Nat /\ NoFile \notin Files
    BY <1>1, <1>3, FilesAre, ConsoleAssumption DEF ConsoleAssumption, Files
  <2>2. /\ writer' \in Writers /\ writer'.state = "running" /\ writer'.last = file'
        /\ writer'.pc = "write"
    BY <1>1, <1>3, <2>1 DEF Writers
  <2>3. /\ disk' \in [path : FileNames, old : FileNames] /\ disk'.path = file' /\ disk'.old = disk.old
    BY <1>1, <1>3, <2>1 DEF FileNames
  <2>4. ConsoleTypeOK'
    BY <1>1, <2>1, <2>2, <2>3 DEF ConsoleInv, ConsoleTypeOK, Captured
  <2>5. /\ disk'.old # NoFile => disk'.old = file' - 1
        /\ \A f \in Files : f > file' => content[f] = <<>>
    BY <1>1, <2>1, <2>3 DEF ConsoleInv, CaptureInv
  <2>6. CaptureInv'
    BY <1>1, <2>1, <2>2, <2>3, <2>5 DEF ConsoleInv, CaptureInv
  <2>7. EndInv'
    BY <1>1, EndIsAhead DEF ConsoleInv, ConsoleTypeOK
  <2>8. PICK start \in [Files -> Nat] : \E g \in Files : Numbered(start) /\ CursorInv(start, g)
    BY DEF ConsoleInv, ReaderInv
  <2>9. PICK g \in Files : Numbered(start) /\ CursorInv(start, g)
    BY <2>8
  <2>10. Numbered(start)'
    <3>1. content[file'] = <<>> /\ Len(content[file']) = 0
      BY <1>1, <2>1, EmptySeq DEF ConsoleInv, CaptureInv
    <3>2. start[file'] = start[file] + Len(content[file])
      BY <1>1, <2>1, <2>9 DEF Numbered
    <3>3. Len(content[file]) \in Nat /\ start[file] \in Nat
      BY <1>1, ContentsAre DEF ConsoleInv
    <3>4. start[file'] + Len(content[file']) = Written
      BY <2>9, <3>1, <3>2, <3>3 DEF Numbered
    <3> QED BY <1>1, <2>9, <3>4 DEF Numbered, Written, Captured
  <2>11. ~reader.blind /\ reader.pc # "new" /\ reader.tag = NoFile => FALSE
    BY <1>1, <2>1, <2>9 DEF CursorInv, CursorAt
  <2>12. \A f \in Files : Len(content[f]) <= Len(content'[f])
    BY <1>1, ContentsAre DEF ConsoleInv
  <2>13. CursorInv(start, g)'
    <3>1. content' \in [Files -> Seq(Nat)] /\ file' >= file /\ ConsoleTypeOK
      BY <1>1, <2>1 DEF ConsoleInv, ConsoleTypeOK
    <3> QED BY <1>1, <2>1, <2>9, <2>11, <2>12, <3>1, CursorStays
  <2>14. ReaderInv'
    BY <2>10, <2>13 DEF ReaderInv
  <2> QED BY <2>4, <2>6, <2>7, <2>14 DEF ConsoleInv
<1> QED BY <1>1, <1>2, <1>3 DEF Open

(* A record, or the note that takes its place.                              *)
LEMMA PutKeeps ==
  ASSUME ConsoleInv, Refused \/ Write
  PROVE  ConsoleInv'
<1>1. /\ writer.state = "running" /\ UNCHANGED <<file, disk, reader>> /\ Put(file)
      /\ exitRecord' = IF writer.exit THEN Written + 1 ELSE exitRecord
      /\ writer \in Writers /\ exitRecord = 0 /\ file \in Files
      /\ ConsoleTypeOK /\ CaptureInv
  BY DEF Refused, Write, ConsoleInv, ConsoleTypeOK, CaptureInv
<1>2. /\ writer' \in Writers /\ writer'.last = writer.last /\ writer'.pc = "idle"
      /\ writer'.state = IF writer.exit THEN "done" ELSE "running"
  BY <1>1 DEF Refused, Write, Writers
<1>3. PICK start \in [Files -> Nat] : \E g \in Files : Numbered(start) /\ CursorInv(start, g)
  BY DEF ConsoleInv, ReaderInv
<1>4. PICK g \in Files : Numbered(start) /\ CursorInv(start, g)
  BY <1>3
<1>5. PICK next \in [Files -> Nat] : Numbered(next)' /\ \A f \in Files : f <= file => next[f] = start[f]
  BY <1>1, <1>4, PutNumbers
<1>6. /\ content' \in [Files -> Seq(Nat)] /\ IsFiniteSet(Captured)' /\ Written \in Nat
      /\ \A f \in Files : f # file => content'[f] = content[f]
      /\ Len(content'[file]) = Len(content[file]) + 1
      /\ DOMAIN content'[file] = 1..(Len(content[file]) + 1)
      /\ content'[file][Len(content[file]) + 1] = Written + 1
  BY <1>1, <1>4, PutGrows
<1>7. Len(content[file]) \in Nat /\ \A f \in Files : Len(content[f]) \in Nat
  BY <1>1, ContentsAre
<1>8. exitRecord' \in Nat /\ (writer.exit => exitRecord' # 0) /\ (~writer.exit => exitRecord' = 0)
  BY <1>1, <1>6
<1>9. ConsoleTypeOK'
  BY <1>1, <1>2, <1>6, <1>8 DEF ConsoleTypeOK
<1>10. CaptureInv'
  <2>1. \A f \in Files : f > file => content'[f] = <<>>
    <3>1. \A f \in Files : f > file => f # file
      BY <1>1, FilesAre
    <3> QED BY <1>1, <1>6, <3>1 DEF CaptureInv
  <2>2. writer'.state = "done" =>
          exitRecord' # 0 /\ \E k \in DOMAIN content'[file] : content'[file][k] = exitRecord'
    <3>1. Len(content[file]) + 1 \in DOMAIN content'[file]
      BY <1>6, <1>7
    <3>2. writer'.state = "done" => writer.exit
      BY <1>2
    <3> QED BY <1>1, <1>6, <1>8, <3>1, <3>2
  <2>3. writer'.state # "done" => exitRecord' = 0
    BY <1>1, <1>2, <1>8
  <2> QED BY <1>1, <1>2, <2>1, <2>2, <2>3 DEF CaptureInv
<1>11. EndInv'
  BY <1>1, EndIsAhead DEF ConsoleInv, ConsoleTypeOK
<1>12. CursorInv(next, g)'
  <2>1. \A f \in Files : Len(content[f]) <= Len(content'[f])
    <3>1. \A f \in Files : f = file \/ content'[f] = content[f]
      BY <1>6
    <3>2. \A f \in Files : content'[f] = content[f] => Len(content[f]) <= Len(content'[f])
      BY <1>7
    <3>3. Len(content[file]) <= Len(content'[file])
      BY <1>1, <1>6, <1>7
    <3> QED BY <3>1, <3>2, <3>3
  <2>2. file' \in Files /\ file' >= file
    BY <1>1, FilesAre
  <2> QED BY <1>1, <1>4, <1>5, <1>6, <2>1, <2>2, CursorStays
<1>13. ReaderInv'
  BY <1>5, <1>12 DEF ReaderInv
<1> QED BY <1>9, <1>10, <1>11, <1>13 DEF ConsoleInv

(* A read from a cursor goes on where the cursor stands, and at the end of  *)
(* the file it stands still.                                                *)
LEMMA ReadOpenGoesOn ==
  ASSUME ConsoleTypeOK, NEW f \in Files, NEW offset \in Nat, NEW place \in Nat,
         place = IF offset > Len(content[f]) THEN 0 ELSE offset
  PROVE  /\ ReadOpen(f, offset).lines \in Seq(Nat) /\ ReadOpen(f, offset).next \in Nat
         /\ place <= ReadOpen(f, offset).next /\ ReadOpen(f, offset).next <= Len(content[f])
         /\ Len(ReadOpen(f, offset).lines) = ReadOpen(f, offset).next - place
         /\ \A i \in 1..(ReadOpen(f, offset).next - place) :
              ReadOpen(f, offset).lines[i] = content[f][place + i]
         /\ place < Len(content[f]) => place < ReadOpen(f, offset).next
<1>1. content[f] \in Seq(Nat) /\ Len(content[f]) \in Nat /\ Window \in Nat \ {0}
  BY ContentsAre, ConsoleAssumption DEF ConsoleAssumption
<1> DEFINE len == Len(content[f])
           end == IF len < place + Window THEN len ELSE place + Window
           part == SubSeq(content[f], place + 1, end)
<1>2. ReadOpen(f, offset).lines = part /\ ReadOpen(f, offset).next = end
  BY DEF ReadOpen
<1>3. end \in Nat /\ place <= end /\ end <= len /\ (place < len => place < end)
  BY <1>1
<1> HIDE DEF end
<1>4. \A i \in (place + 1)..end : content[f][i] \in Nat
  <2>1. \A i \in 1..len : content[f][i] \in Nat
    BY <1>1, ElementOfSeq
  <2> HIDE DEF len
  <2>2. \A i \in (place + 1)..end : i \in 1..len
    BY <1>1, <1>3 DEF len
  <2> QED BY <2>1, <2>2
<1>5. /\ part \in Seq(Nat) /\ Len(part) = (IF place + 1 <= end THEN end - (place + 1) + 1 ELSE 0)
      /\ \A i \in 1..(end - (place + 1) + 1) : part[i] = content[f][place + 1 + i - 1]
  <2> DEFINE a == place + 1
  <2>1. a \in Int /\ end \in Int /\ \A i \in a..end : content[f][i] \in Nat
    BY <1>3, <1>4
  <2> HIDE DEF a
  <2>2. /\ SubSeq(content[f], a, end) \in Seq(Nat)
        /\ Len(SubSeq(content[f], a, end)) = IF a <= end THEN end - a + 1 ELSE 0
        /\ \A i \in 1..(end - a + 1) : SubSeq(content[f], a, end)[i] = content[f][a + i - 1]
    BY <2>1, SubSeqProperties
  <2> QED BY <2>2 DEF a
<1> HIDE DEF part, len
<1>6. Len(part) = end - place /\ \A i \in 1..(end - place) : part[i] = content[f][place + i]
  <2>1. end - (place + 1) + 1 = end - place
    BY <1>3
  <2>2. \A i \in 1..(end - place) : place + 1 + i - 1 = place + i
    BY <1>3
  <2>3. Len(part) = end - place
    BY <1>3, <1>5
  <2> QED BY <1>5, <2>1, <2>2, <2>3
<1> QED BY <1>2, <1>3, <1>5, <1>6 DEF len

LEMMA PageGoesOn ==
  ASSUME ConsoleTypeOK, NEW f \in Files, NEW offset \in Nat, NEW place \in Nat,
         place = IF offset > Len(content[f]) THEN 0 ELSE offset
  PROVE  /\ Page(f, offset).lines \in Seq(Nat) /\ Page(f, offset).next \in Nat
         /\ place <= Page(f, offset).next /\ Page(f, offset).next <= Len(content[f])
         /\ Len(Page(f, offset).lines) = Page(f, offset).next - place
         /\ \A i \in 1..(Page(f, offset).next - place) :
              Page(f, offset).lines[i] = content[f][place + i]
         /\ place < Len(content[f]) => place < Page(f, offset).next
<1> DEFINE read == ReadOpen(f, offset)
           all == Len(read.lines)
           n == IF all > AnswerLimit THEN AnswerLimit ELSE all
           part == SubSeq(read.lines, 1, n)
<1>1. /\ read.lines \in Seq(Nat) /\ read.next \in Nat /\ place <= read.next
      /\ read.next <= Len(content[f]) /\ all = read.next - place
      /\ \A i \in 1..(read.next - place) : read.lines[i] = content[f][place + i]
      /\ place < Len(content[f]) => place < read.next
  BY ReadOpenGoesOn
<1>2. CASE reader.kind = "plugin"
  <2>1. Page(f, offset).lines = part /\ Page(f, offset).next = read.next - (all - n)
    BY <1>2 DEF Page, PluginPage
  <2>2. AnswerLimit \in Nat \ {0} /\ all \in Nat
    BY <1>1, ConsoleAssumption DEF ConsoleAssumption
  <2> HIDE DEF read
  <2>3. n \in Nat /\ n <= all /\ (all > 0 => n > 0)
    BY <2>2
  <2> HIDE DEF n
  <2>4. \A i \in 1..n : read.lines[i] \in Nat
    <3>1. \A i \in 1..all : read.lines[i] \in Nat
      BY <1>1, ElementOfSeq
    <3> QED BY <2>2, <2>3, <3>1
  <2>5. /\ part \in Seq(Nat) /\ Len(part) = (IF 1 <= n THEN n - 1 + 1 ELSE 0)
        /\ \A i \in 1..(n - 1 + 1) : part[i] = read.lines[1 + i - 1]
    <3>1. 1 \in Int /\ n \in Int
      BY <2>3
    <3> QED BY <2>4, <3>1, SubSeqProperties
  <2> HIDE DEF part, all
  <2>6. Len(part) = n /\ \A i \in 1..n : part[i] = read.lines[i]
    <3>1. n - 1 + 1 = n /\ \A i \in 1..n : 1 + i - 1 = i
      BY <2>3
    <3>2. Len(part) = n
      BY <2>3, <2>5
    <3> QED BY <2>5, <3>1, <3>2
  <2>7. \A i \in 1..n : read.lines[i] = content[f][place + i]
    BY <1>1, <2>2, <2>3
  <2>8. read.next - (all - n) = place + n /\ place + n <= Len(content[f])
    <3>1. Len(content[f]) \in Nat
      BY ContentsAre
    <3> QED BY <1>1, <2>2, <2>3, <3>1
  <2>9. place < Len(content[f]) => n > 0
    BY <1>1, <2>2, <2>3
  <2>10. /\ place + n \in Nat /\ place <= place + n /\ place + n - place = n
         /\ (n > 0 => place < place + n)
    BY <2>3
  <2> QED BY <2>1, <2>5, <2>6, <2>7, <2>8, <2>9, <2>10
<1>3. CASE reader.kind # "plugin"
  <2>1. Page(f, offset) = read
    BY <1>3 DEF Page, CliPage
  <2> QED BY <1>1, <2>1
<1> QED BY <1>2, <1>3

(* What a read adds to what the reader has: the next numbers.               *)
LEMMA LinesRise ==
  ASSUME NEW had \in Seq(Nat), NEW lines \in Seq(Nat), NEW b \in Nat, Rises(had),
         \A i \in DOMAIN had : had[i] <= b,
         \A i \in 1..Len(lines) : lines[i] = b + i
  PROVE  /\ had \o lines \in Seq(Nat) /\ Rises(had \o lines)
         /\ \A i \in DOMAIN (had \o lines) : (had \o lines)[i] <= b + Len(lines)
         /\ \A m \in (b + 1)..(b + Len(lines)) : \E i \in DOMAIN (had \o lines) : (had \o lines)[i] = m
         /\ \A k \in DOMAIN had : \E i \in DOMAIN (had \o lines) : (had \o lines)[i] = had[k]
<1> DEFINE all == had \o lines
           p == Len(had)
           q == Len(lines)
<1>1. /\ all \in Seq(Nat) /\ Len(all) = p + q
      /\ \A i \in 1..(p + q) : all[i] = IF i <= p THEN had[i] ELSE lines[i - p]
  BY ConcatProperties, Zenon
<1>2. p \in Nat /\ q \in Nat /\ DOMAIN had = 1..p /\ DOMAIN all = 1..(p + q)
  BY <1>1, LenProperties
<1>3. \A i \in 1..p : had[i] \in Nat /\ had[i] <= b
  BY <1>2, ElementOfSeq
<1> HIDE DEF all, p, q
<1>4. \A i \in 1..p : i \in 1..(p + q) /\ all[i] = had[i]
  BY <1>1, <1>2
<1>5. \A i \in 1..(p + q) : i > p => i - p \in 1..q /\ all[i] = b + (i - p)
  <2> SUFFICES ASSUME NEW i \in 1..(p + q), i > p PROVE i - p \in 1..q /\ all[i] = b + (i - p)
    OBVIOUS
  <2>1. i - p \in 1..q
    BY <1>2
  <2>2. all[i] = lines[i - p]
    BY <1>1, <1>2
  <2> QED BY <2>1, <2>2 DEF q
<1>6. ASSUME NEW i \in 1..(p + q), NEW j \in 1..(p + q), i < j
      PROVE  all[i] < all[j]
  <2>1. CASE j <= p
    <3>1. i \in 1..p /\ j \in 1..p
      BY <1>2, <1>6, <2>1
    <3>2. had[i] < had[j]
      BY <1>2, <1>6, <3>1 DEF Rises
    <3> QED BY <1>4, <3>1, <3>2
  <2>2. CASE j > p /\ i <= p
    <3>1. all[i] \in Nat /\ all[i] <= b
      BY <1>2, <1>3, <1>4, <1>6, <2>2
    <3>2. all[j] = b + (j - p) /\ j - p >= 1
      BY <1>2, <1>5, <2>2
    <3> QED BY <1>2, <3>1, <3>2
  <2>3. CASE i > p
    <3>1. all[i] = b + (i - p) /\ all[j] = b + (j - p)
      BY <1>2, <1>5, <1>6, <2>3
    <3> QED BY <1>2, <1>6, <3>1
  <2> QED BY <1>2, <2>1, <2>2, <2>3
<1>7. Rises(all)
  BY <1>2, <1>6 DEF Rises
<1>8. ASSUME NEW i \in 1..(p + q) PROVE all[i] <= b + q
  <2>1. CASE i <= p
    <3>1. all[i] \in Nat /\ all[i] <= b
      BY <1>2, <1>3, <1>4, <2>1
    <3> QED BY <1>2, <3>1
  <2>2. CASE i > p
    <3>1. i - p \in 1..q /\ all[i] = b + (i - p)
      BY <1>5, <2>2
    <3> QED BY <1>2, <3>1
  <2> QED BY <1>2, <2>1, <2>2
<1>9. ASSUME NEW m \in (b + 1)..(b + q) PROVE \E i \in 1..(p + q) : all[i] = m
  <2> DEFINE i == p + (m - b)
  <2>1. i \in 1..(p + q) /\ i > p /\ b + (i - p) = m
    BY <1>2
  <2> HIDE DEF i
  <2>2. all[i] = b + (i - p)
    BY <1>5, <2>1
  <2> QED BY <2>1, <2>2
<1>10. \A k \in 1..p : \E i \in 1..(p + q) : all[i] = had[k]
  BY <1>4
<1> QED BY <1>1, <1>2, <1>7, <1>8, <1>9, <1>10 DEF all, q

(* Steps of the reader: the files stay, the cursor goes to some file.       *)
FilesStay == UNCHANGED <<disk, content, file, writer, exitRecord>>

LEMMA ReaderFrame ==
  ASSUME ConsoleInv, FilesStay, reader' \in Readers, EndInv',
         \A start \in [Files -> Nat] : \A g \in Files :
           Numbered(start) /\ CursorInv(start, g) => \E h \in Files : CursorInv(start, h)'
  PROVE  ConsoleInv'
<1>1. PICK start \in [Files -> Nat] : \E g \in Files : Numbered(start) /\ CursorInv(start, g)
  BY DEF ConsoleInv, ReaderInv
<1>2. PICK h \in Files : CursorInv(start, h)'
  BY <1>1
<1>3. Numbered(start)'
  BY <1>1, NumbersStay DEF FilesStay
<1>4. ReaderInv'
  BY <1>2, <1>3 DEF ReaderInv
<1>5. ConsoleTypeOK' /\ CaptureInv'
  BY DEF ConsoleInv, FilesStay, ConsoleTypeOK, CaptureInv, Captured
<1> QED BY <1>4, <1>5 DEF ConsoleInv

(* A read of file f on from the place that everything had leads up to.      *)
LEMMA CursorMoves ==
  ASSUME ConsoleInv, FilesStay, reader' \in Readers,
         NEW start \in [Files -> Nat], Numbered(start), Rises(reader.got),
         NEW f \in Files, f <= file, NEW place \in Nat, NEW lines \in Seq(Nat), NEW next \in Nat,
         place <= next, next <= Len(content[f]), Len(lines) = next - place,
         \A i \in 1..(next - place) : lines[i] = content[f][place + i],
         \A i \in DOMAIN reader.got : reader.got[i] <= start[f] + place,
         ~reader.blind =>
           \A m \in (reader.after + 1)..(start[f] + place) : Has(m) \/ m \in reader'.excused,
         reader'.got = reader.got \o lines, reader'.offset = next, reader'.after = reader.after,
         reader'.blind = reader.blind, reader'.pc \notin {"new", "opened", "both"},
         reader'.tag # NoFile => f = reader'.tag /\ next >= 1,
         reader'.tag = NoFile /\ ~reader.blind => disk.path = f
  PROVE  CursorInv(start, f)'
<1> DEFINE b == start[f] + place
           all == reader.got \o lines
<1>1. /\ b \in Nat /\ Len(content[f]) \in Nat /\ DOMAIN content[f] = 1..Len(content[f])
      /\ start[f] \in Nat
  BY ContentsAre DEF ConsoleInv
<1>2. \A i \in 1..Len(lines) : lines[i] = b + i
  <2> SUFFICES ASSUME NEW i \in 1..Len(lines) PROVE lines[i] = b + i
    OBVIOUS
  <2>1. i \in 1..(next - place) /\ place + i \in DOMAIN content[f]
    BY <1>1
  <2>2. content[f][place + i] = start[f] + (place + i)
    BY <2>1 DEF Numbered
  <2>3. lines[i] = content[f][place + i]
    BY <2>1
  <2>4. start[f] + (place + i) = b + i
    <3>1. start[f] \in Nat /\ i \in Nat
      BY <1>1, <2>1
    <3> QED BY <3>1
  <2> QED BY <2>2, <2>3, <2>4
<1>3. reader.got \in Seq(Nat)
  BY DEF ConsoleInv, ConsoleTypeOK, Readers
<1> HIDE DEF b, all
<1>4. /\ Rises(all) /\ \A i \in DOMAIN all : all[i] <= b + Len(lines)
      /\ \A m \in (b + 1)..(b + Len(lines)) : \E i \in DOMAIN all : all[i] = m
      /\ \A k \in DOMAIN reader.got : \E i \in DOMAIN all : all[i] = reader.got[k]
  <2>1. \A i \in DOMAIN reader.got : reader.got[i] <= b
    BY DEF b
  <2> QED BY <1>1, <1>2, <1>3, <2>1, LinesRise DEF all
<1>5. b + Len(lines) = start[f] + next
  BY <1>1 DEF b
<1>6. ASSUME ~reader.blind, NEW m \in (reader.after + 1)..(start[f] + next) PROVE Told(m)'
  <2>1. reader.after \in Nat
    BY DEF ConsoleInv, ConsoleTypeOK, Readers
  <2>2. CASE m <= b
    <3>1. m \in (reader.after + 1)..b
      BY <1>1, <2>1, <2>2
    <3>2. Has(m) \/ m \in reader'.excused
      BY <1>6, <3>1 DEF b
    <3>3. Has(m) => \E i \in DOMAIN all : all[i] = m
      BY <1>4 DEF Has
    <3> QED BY <3>2, <3>3 DEF Told, Has, all
  <2>3. CASE ~(m <= b)
    <3>1. m \in (b + 1)..(b + Len(lines))
      BY <1>1, <1>5, <2>1, <2>3
    <3> QED BY <1>4, <3>1 DEF Told, Has, all
  <2> QED BY <2>2, <2>3
<1>7. /\ f <= file' /\ reader'.offset <= Len(content'[f])
      /\ \A i \in DOMAIN reader'.got : reader'.got[i] <= start[f] + reader'.offset
      /\ ~reader'.blind => \A m \in (reader'.after + 1)..(start[f] + reader'.offset) : Told(m)'
      /\ reader'.tag # NoFile => f = reader'.tag /\ reader'.offset >= 1
      /\ reader'.tag = NoFile /\ ~reader'.blind => disk'.path = f
  BY <1>4, <1>5, <1>6 DEF FilesStay, all
<1>8. CursorAt(start, f)'
  BY <1>7 DEF CursorAt
<1>9. Rises(reader.got)'
  BY <1>4 DEF all, Rises
<1> QED BY <1>8, <1>9 DEF CursorInv

(* The cursor stays where it is.                                            *)
LEMMA CursorKept ==
  ASSUME FilesStay, NEW start \in [Files -> Nat], NEW g \in Files, CursorInv(start, g),
         reader.pc # "new", reader'.pc # "new", reader'.got = reader.got, reader'.offset = reader.offset,
         reader'.tag = reader.tag, reader'.after = reader.after, reader'.blind = reader.blind,
         reader'.excused = reader.excused,
         reader'.pc = "opened" => OpenedInv(g)', reader'.pc = "both" => BothInv',
         reader'.pc \in {"opened", "both"} /\ reader'.curTag # NoFile =>
           reader'.curTag = reader'.cur /\ content[reader'.cur] # <<>>
  PROVE  CursorInv(start, g)'
<1>1. CursorAt(start, g)'
  BY DEF CursorInv, CursorAt, FilesStay, Told, Has
<1> QED BY <1>1 DEF CursorInv, FilesStay, Rises

LEMMA TagsAre ==
  ASSUME ConsoleTypeOK, NEW f \in FileNames
  PROVE  /\ Tag(f) \in {NoFile, f} /\ Tag(f) \in FileNames
         /\ Tag(f) # NoFile <=> f \in Files /\ content[f] # <<>>
<1>1. Tag(NoFile) = NoFile
  BY FilesAre DEF Tag, Started
<1> QED BY <1>1, FilesAre DEF Tag, Started, FileNames

LEMMA FirstReadKeeps ==
  ASSUME ConsoleInv, FirstRead
  PROVE  ConsoleInv'
<1>1. /\ FilesStay /\ reader.pc = "new" /\ disk.path = file /\ file \in Files /\ reader \in Readers
      /\ ConsoleTypeOK
  BY DEF FirstRead, FilesStay, ConsoleInv, ConsoleTypeOK, CaptureInv
<1>2. /\ Len(content[file]) \in Nat /\ Written \in Nat
      /\ Tag(file) \in FileNames /\ Tag(file) \in {NoFile, file}
      /\ Tag(file) # NoFile => content[file] # <<>>
      /\ content[file] # <<>> => Len(content[file]) >= 1
  <2>1. Len(content[file]) \in Nat /\ (content[file] # <<>> => Len(content[file]) # 0)
    BY <1>1, ContentsAre
  <2>2. Written \in Nat
    BY <1>1, FS_CardinalityType DEF ConsoleTypeOK, Written
  <2> QED BY <1>1, <2>1, <2>2, TagsAre DEF FileNames
<1>3. /\ reader' \in Readers /\ reader'.pc = "idle" /\ reader'.tag = Tag(file)
      /\ reader'.offset = Len(content[file]) /\ reader'.after = Written
      /\ reader'.got = reader.got /\ reader'.blind = reader.blind
      /\ reader'.dead = reader.dead /\ reader'.ended = reader.ended /\ reader'.kind = reader.kind
  BY <1>1, <1>2 DEF FirstRead, Readers
<1>4. EndInv'
  BY <1>1, <1>3, EndStays DEF ConsoleInv, FilesStay
<1>5. ASSUME NEW start \in [Files -> Nat], NEW g \in Files, Numbered(start), CursorInv(start, g)
      PROVE  \E h \in Files : CursorInv(start, h)'
  <2>1. PICK h \in Files : h = file
    BY <1>1
  <2>2. reader.got = <<>> /\ ~reader.blind
    BY <1>1, <1>5 DEF CursorInv
  <2>3. start[h] + Len(content[h]) = Written
    BY <1>5, <2>1 DEF Numbered
  <2>4. (Written + 1)..Written = {}
    BY <1>2
  <2>5. DOMAIN reader.got = {}
    BY <2>2
  <2>6. CursorAt(start, h)'
    <3>1. h <= file
      BY <1>1, <2>1, FilesAre
    <3>2. Len(content[h]) <= Len(content[h])
      BY <1>2, <2>1
    <3> QED BY <1>1, <1>2, <1>3, <2>1, <2>3, <2>4, <2>5, <3>1, <3>2 DEF CursorAt, FilesStay
  <2> QED BY <1>3, <2>5, <2>6 DEF CursorInv, Rises
<1> QED BY <1>1, <1>3, <1>4, <1>5, ReaderFrame

LEMMA OpenPathKeeps ==
  ASSUME ConsoleInv, OpenPath
  PROVE  ConsoleInv'
<1>1. /\ FilesStay /\ reader.pc = "idle" /\ file \in Files /\ reader \in Readers
      /\ disk.path \in FileNames /\ disk.path \in {NoFile, file} /\ ConsoleTypeOK
  BY DEF OpenPath, FilesStay, ConsoleInv, ConsoleTypeOK, CaptureInv
<1>2. /\ Tag(disk.path) \in {NoFile, disk.path} /\ Tag(disk.path) \in FileNames
      /\ Tag(disk.path) # NoFile <=> disk.path \in Files /\ content[disk.path] # <<>>
  BY <1>1, TagsAre
<1>3. reader' = [reader EXCEPT !.pc = "opened", !.cur = disk.path, !.curTag = Tag(disk.path)]
  BY DEF OpenPath, FileHead
<1>4. /\ reader' \in Readers /\ reader'.pc = "opened" /\ reader'.cur = disk.path
      /\ reader'.curTag = Tag(disk.path) /\ reader'.tag = reader.tag
      /\ reader'.offset = reader.offset /\ reader'.after = reader.after
      /\ reader'.got = reader.got /\ reader'.blind = reader.blind /\ reader'.excused = reader.excused
      /\ reader'.dead = reader.dead /\ reader'.ended = reader.ended /\ reader'.kind = reader.kind
  BY <1>1, <1>2, <1>3 DEF Readers
<1>5. EndInv'
  BY <1>1, <1>4, EndStays DEF ConsoleInv, FilesStay
<1>6. ASSUME NEW start \in [Files -> Nat], NEW g \in Files, Numbered(start), CursorInv(start, g)
      PROVE  CursorInv(start, g)'
  <2>1. CursorAt(start, g)
    BY <1>1, <1>6 DEF CursorInv
  <2>2. reader.tag # NoFile /\ disk.path = reader.tag => Tag(disk.path) = reader.tag
    <3>1. reader.tag # NoFile => reader.tag \in Files /\ content[reader.tag] # <<>>
      <4>1. Len(content[g]) \in Nat /\ (content[g] = <<>> => Len(content[g]) = 0)
        BY <1>1, ContentsAre
      <4>2. reader.offset \in Nat
        BY <1>1 DEF Readers
      <4> QED BY <2>1, <4>1, <4>2 DEF CursorAt
    <3> QED BY <1>2, <3>1
  <2>3. OpenedInv(g)'
    <3>1. disk.path # NoFile => g <= disk.path /\ disk.path <= file
      BY <1>1, <2>1, FilesAre DEF CursorAt
    <3>2. reader.tag = NoFile /\ ~reader.blind => disk.path = g
      BY <2>1 DEF CursorAt
    <3> QED BY <1>1, <1>4, <2>2, <3>1, <3>2 DEF OpenedInv, FilesStay
  <2> QED BY <1>1, <1>2, <1>4, <1>6, <2>3, CursorKept
<1> QED BY <1>1, <1>4, <1>5, <1>6, ReaderFrame

(* What comes after a read says "last" only of a launcher found dead.       *)
LEMMA ThenIs ==
  ASSUME NEW lines, NEW more
  PROVE  /\ Then(lines, more) \in {"idle", "quiet", "last"}
         /\ reader \in Readers /\ Then(lines, more) = "last" => reader.kind = "cli" /\ reader.dead
BY DEF Then, PluginThen, CliThen, Readers

LEMMA ReadSameKeeps ==
  ASSUME ConsoleInv, ReadSame
  PROVE  ConsoleInv'
<1> DEFINE page == Page(reader.cur, reader.offset)
           tag == IF reader.kind = "cli" /\ reader.tag = NoFile THEN reader.curTag
                  ELSE IF page.next = 0 THEN NoFile ELSE Tag(reader.cur)
<1>1. /\ FilesStay /\ reader.pc = "opened" /\ file \in Files /\ reader \in Readers
      /\ reader.cur \in Files /\ reader.cur # NoFile /\ ConsoleTypeOK /\ reader.offset \in Nat
      /\ reader.tag = NoFile \/ reader.curTag = reader.tag
  BY DEF ReadSame, FilesStay, ConsoleInv, ConsoleTypeOK, Readers, FileNames, SameFile
<1>2. PICK f \in Files : f = reader.cur
  BY <1>1
<1>3. PICK place \in Nat : place = IF reader.offset > Len(content[f]) THEN 0 ELSE reader.offset
  <2> DEFINE spot == IF reader.offset > Len(content[f]) THEN 0 ELSE reader.offset
  <2>1. spot \in Nat
    BY <1>1
  <2> QED BY <2>1
<1>4. /\ page.lines \in Seq(Nat) /\ page.next \in Nat /\ place <= page.next
      /\ page.next <= Len(content[f]) /\ Len(page.lines) = page.next - place
      /\ \A i \in 1..(page.next - place) : page.lines[i] = content[f][place + i]
      /\ place < Len(content[f]) => place < page.next
  <2>1. page = Page(f, reader.offset)
    BY <1>2
  <2>2. LET it == Page(f, reader.offset) IN
        /\ it.lines \in Seq(Nat) /\ it.next \in Nat /\ place <= it.next
        /\ it.next <= Len(content[f]) /\ Len(it.lines) = it.next - place
        /\ \A i \in 1..(it.next - place) : it.lines[i] = content[f][place + i]
        /\ place < Len(content[f]) => place < it.next
    <3>1. PICK offset \in Nat : offset = reader.offset
      BY <1>1
    <3>2. /\ Page(f, offset).lines \in Seq(Nat) /\ Page(f, offset).next \in Nat
          /\ place <= Page(f, offset).next /\ Page(f, offset).next <= Len(content[f])
          /\ Len(Page(f, offset).lines) = Page(f, offset).next - place
          /\ \A i \in 1..(Page(f, offset).next - place) :
               Page(f, offset).lines[i] = content[f][place + i]
          /\ place < Len(content[f]) => place < Page(f, offset).next
      <4>1. place = IF offset > Len(content[f]) THEN 0 ELSE offset
        BY <1>3, <3>1
      <4>2. ConsoleTypeOK
        BY <1>1
      <4> QED BY <4>1, <4>2, PageGoesOn, Zenon
    <3> QED BY <3>1, <3>2
  <2> HIDE DEF page
  <2> QED BY <2>1, <2>2
<1>5. /\ reader' = [reader EXCEPT
              !.pc = Then(page.lines, FALSE \/ page.more), !.tag = tag, !.offset = page.next,
              !.got = @ \o page.lines, !.cur = NoFile, !.curTag = NoFile,
              !.old = NoFile, !.oldTag = NoFile]
  BY DEF ReadSame, DeliverLines
<1> HIDE DEF page
<1>6. /\ Tag(f) \in {NoFile, f} /\ (Tag(f) # NoFile <=> content[f] # <<>>)
      /\ Len(content[f]) \in Nat /\ (content[f] = <<>> <=> Len(content[f]) = 0)
  <2>1. Tag(f) \in {NoFile, f} /\ (Tag(f) # NoFile <=> f \in Files /\ content[f] # <<>>)
    BY <1>1, TagsAre DEF FileNames
  <2> QED BY <1>1, <2>1, ContentsAre
<1>7. reader.curTag \in {NoFile, f} /\ (reader.curTag # NoFile => content[f] # <<>>)
  BY <1>1, <1>2 DEF ConsoleInv, ReaderInv, CursorInv
<1>8. /\ tag \in {NoFile, f} /\ tag \in FileNames
      /\ tag # NoFile => page.next >= 1
  <2>1. tag \in {NoFile, f}
    BY <1>2, <1>6, <1>7
  <2>2. tag # NoFile => content[f] # <<>>
    BY <1>2, <1>6, <1>7
  <2>3. content[f] # <<>> => page.next >= 1
    BY <1>3, <1>4, <1>6
  <2> QED BY <2>1, <2>2, <2>3 DEF FileNames
<1> HIDE DEF tag
<1>9. reader.got \o page.lines \in Seq(Nat)
  <2>1. reader.got \in Seq(Nat)
    BY <1>1 DEF Readers
  <2> QED BY <1>4, <2>1, ConcatProperties, Zenon
<1>10. /\ reader' \in Readers /\ reader'.pc \in {"idle", "quiet", "last"}
       /\ reader'.pc = "last" => reader.kind = "cli" /\ reader.dead
       /\ reader'.got = reader.got \o page.lines /\ reader'.offset = page.next /\ reader'.tag = tag
       /\ reader'.after = reader.after /\ reader'.blind = reader.blind
       /\ reader'.excused = reader.excused
       /\ reader'.dead = reader.dead /\ reader'.ended = reader.ended /\ reader'.kind = reader.kind
  <2> DEFINE pc == Then(page.lines, FALSE \/ page.more)
             had == reader.got \o page.lines
  <2>1. pc \in {"idle", "quiet", "last"} /\ (pc = "last" => reader.kind = "cli" /\ reader.dead)
    BY <1>1, ThenIs
  <2>2. reader' = [reader EXCEPT !.pc = pc, !.tag = tag, !.offset = page.next, !.got = had,
                     !.cur = NoFile, !.curTag = NoFile, !.old = NoFile, !.oldTag = NoFile]
    BY <1>5, Zenon
  <2>3. had \in Seq(Nat)
    BY <1>9
  <2> HIDE DEF pc, had
  <2>4. /\ reader' \in Readers /\ reader'.pc = pc /\ reader'.tag = tag /\ reader'.offset = page.next
        /\ reader'.got = had /\ reader'.excused = reader.excused
        /\ reader'.after = reader.after /\ reader'.blind = reader.blind
        /\ reader'.dead = reader.dead /\ reader'.ended = reader.ended /\ reader'.kind = reader.kind
    <3>1. reader \in Readers /\ tag \in FileNames /\ page.next \in Nat
      BY <1>1, <1>4, <1>8
    <3>2. reader' \in Readers
      BY <2>1, <2>2, <2>3, <3>1 DEF Readers, FileNames
    <3>3. reader'.pc = pc /\ reader'.tag = tag /\ reader'.offset = page.next /\ reader'.got = had
      BY <2>2, <3>1 DEF Readers
    <3>4. /\ reader'.excused = reader.excused /\ reader'.after = reader.after
          /\ reader'.blind = reader.blind
      BY <2>2, <3>1 DEF Readers
    <3>5. reader'.dead = reader.dead /\ reader'.ended = reader.ended /\ reader'.kind = reader.kind
      BY <2>2, <3>1 DEF Readers
    <3> QED BY <3>2, <3>3, <3>4, <3>5
  <2> QED BY <2>1, <2>4 DEF had
<1>11. EndInv'
  BY <1>1, <1>10, EndStays DEF ConsoleInv, FilesStay
<1>12. ASSUME NEW start \in [Files -> Nat], NEW g \in Files, Numbered(start), CursorInv(start, g)
       PROVE  \E h \in Files : CursorInv(start, h)'
  <2>1. CursorAt(start, g) /\ OpenedInv(g) /\ Rises(reader.got)
    BY <1>1, <1>12 DEF CursorInv
  <2>2. g <= f /\ f <= file /\ f \in Nat /\ g \in Nat
    BY <1>1, <1>2, <2>1, FilesAre DEF OpenedInv
  <2>3. ~reader.blind \/ reader.tag # NoFile => f = g
    <3>1. CASE reader.tag = NoFile /\ ~reader.blind
      BY <1>2, <2>1, <3>1 DEF OpenedInv
    <3>2. CASE reader.tag # NoFile
      BY <1>1, <1>7, <2>1, <3>2 DEF CursorAt
    <3> QED BY <3>1, <3>2
  <2>4. f = g => place = reader.offset
    BY <1>1, <1>3, <1>6, <2>1 DEF CursorAt
  <2>5. start[g] + reader.offset <= start[f] + place
    <3>1. CASE f = g
      BY <1>1, <2>4, <3>1
    <3>2. CASE g < f
      <4>1. start[g] + Len(content[g]) <= start[f]
        BY <1>12, <3>2 DEF Numbered
      <4>2. reader.offset <= Len(content[g]) /\ Len(content[g]) \in Nat
        BY <1>1, <2>1, ContentsAre DEF CursorAt
      <4>3. start[g] \in Nat /\ start[f] \in Nat
        OBVIOUS
      <4> QED BY <1>1, <4>1, <4>2, <4>3
    <3> QED BY <2>2, <3>1, <3>2
  <2>6. \A i \in DOMAIN reader.got : reader.got[i] <= start[f] + place
    <3>1. \A i \in DOMAIN reader.got : reader.got[i] \in Nat /\ reader.got[i] <= start[g] + reader.offset
      <4>1. reader.got \in Seq(Nat)
        BY <1>1 DEF Readers
      <4>2. \A i \in DOMAIN reader.got : reader.got[i] \in Nat
        BY <4>1, ElementOfSeq, LenProperties
      <4> QED BY <2>1, <4>2 DEF CursorAt
    <3>2. start[g] + reader.offset \in Nat /\ start[f] + place \in Nat
      BY <1>1
    <3> QED BY <2>5, <3>1, <3>2
  <2>7. ~reader.blind =>
          \A m \in (reader.after + 1)..(start[f] + place) : Has(m) \/ m \in reader'.excused
    BY <1>10, <2>1, <2>3, <2>4 DEF CursorAt, Told
  <2>8. /\ reader'.tag # NoFile => f = reader'.tag /\ page.next >= 1
        /\ reader'.tag = NoFile /\ ~reader.blind => disk.path = f
    <3>1. reader'.tag # NoFile => f = reader'.tag /\ page.next >= 1
      BY <1>8, <1>10
    <3>2. CASE reader'.tag = NoFile /\ ~reader.blind
      <4>1. reader.tag = NoFile => disk.path = f
        BY <2>1, <2>3, <3>2 DEF CursorAt
      <4>2. reader.tag = NoFile
        <5> SUFFICES ASSUME reader.tag # NoFile PROVE FALSE
          OBVIOUS
        <5>1. tag = IF page.next = 0 THEN NoFile ELSE Tag(f)
          BY <1>2 DEF tag
        <5>2. content[f] # <<>> 
          BY <1>1, <1>7
        <5>3. page.next >= 1
          BY <1>3, <1>4, <1>6, <5>2
        <5>4. tag = Tag(f)
          BY <5>1, <5>3
        <5> QED BY <1>6, <1>10, <3>2, <5>2, <5>4
      <4> QED BY <3>1, <4>1, <4>2
    <3> QED BY <3>1, <3>2
  <2>9. PICK lines \in Seq(Nat), next \in Nat : lines = page.lines /\ next = page.next
    BY <1>4
  <2>10. CursorInv(start, f)'
    <3>1. reader'.pc \notin {"new", "opened", "both"}
      BY <1>10
    <3> QED BY <1>1, <1>4, <1>10, <1>12, <2>1, <2>2, <2>6, <2>7, <2>8, <2>9, <3>1, CursorMoves
  <2> QED BY <2>10
<1> QED BY <1>1, <1>10, <1>11, <1>12, ReaderFrame

(* Steps that leave the cursor where it is.                                 *)
LEMMA CursorRests ==
  ASSUME ConsoleInv, FilesStay, reader' \in Readers, EndInv', reader.pc # "new",
         reader'.pc \notin {"new", "opened", "both"},
         reader'.got = reader.got, reader'.offset = reader.offset, reader'.tag = reader.tag,
         reader'.after = reader.after, reader'.blind = reader.blind,
         reader'.excused = reader.excused
  PROVE  ConsoleInv'
<1>1. \A start \in [Files -> Nat] : \A g \in Files :
        Numbered(start) /\ CursorInv(start, g) => CursorInv(start, g)'
  BY CursorKept
<1> QED BY <1>1, ReaderFrame

LEMMA WaitingKeeps ==
  ASSUME ConsoleInv, PathMissing \/ WaitForNew \/ Poll \/ PluginAsksForLauncher \/ CliAsksForLauncher
  PROVE  ConsoleInv'
<1>1. /\ FilesStay /\ reader \in Readers
      /\ reader.pc \in {"opened", "both", "quiet"}
  BY DEF PathMissing, WaitForNew, Poll, PluginAsksForLauncher, CliAsksForLauncher, FilesStay,
         ConsoleInv, ConsoleTypeOK
<1>2. CASE PathMissing
  <2> DEFINE pc == IF reader.kind = "cli" THEN Then(<<>>, FALSE) ELSE "idle"
  <2>1. pc \in {"idle", "quiet", "last"} /\ (pc = "last" => reader.kind = "cli" /\ reader.dead)
    BY <1>1, ThenIs
  <2>2. reader' = [reader EXCEPT !.pc = pc]
    BY <1>2 DEF PathMissing
  <2> HIDE DEF pc
  <2>3. /\ reader' \in Readers /\ reader'.pc = pc /\ reader'.got = reader.got
        /\ reader'.offset = reader.offset /\ reader'.tag = reader.tag /\ reader'.after = reader.after
        /\ reader'.blind = reader.blind /\ reader'.excused = reader.excused
        /\ reader'.dead = reader.dead /\ reader'.ended = reader.ended /\ reader'.kind = reader.kind
    BY <1>1, <2>1, <2>2 DEF Readers
  <2>4. EndInv'
    BY <1>1, <2>1, <2>3, EndStays DEF ConsoleInv, FilesStay
  <2> QED BY <1>1, <2>1, <2>3, <2>4, CursorRests
<1>3. CASE WaitForNew
  <2> DEFINE pc == Then(<<>>, FALSE)
  <2>1. pc \in {"idle", "quiet", "last"} /\ (pc = "last" => reader.kind = "cli" /\ reader.dead)
    BY <1>1, ThenIs
  <2>2. reader' = [reader EXCEPT !.pc = pc, !.cur = NoFile, !.curTag = NoFile, !.old = NoFile,
                     !.oldTag = NoFile]
    BY <1>3 DEF WaitForNew
  <2> HIDE DEF pc
  <2>3. /\ reader' \in Readers /\ reader'.pc = pc /\ reader'.got = reader.got
        /\ reader'.offset = reader.offset /\ reader'.tag = reader.tag /\ reader'.after = reader.after
    BY <1>1, <2>1, <2>2 DEF Readers, FileNames
  <2>4. /\ reader'.blind = reader.blind /\ reader'.excused = reader.excused
        /\ reader'.dead = reader.dead /\ reader'.ended = reader.ended /\ reader'.kind = reader.kind
    BY <1>1, <2>1, <2>2 DEF Readers, FileNames
  <2>5. EndInv'
    BY <1>1, <2>1, <2>3, <2>4, EndStays DEF ConsoleInv, FilesStay
  <2> QED BY <1>1, <2>1, <2>3, <2>4, <2>5, CursorRests
<1>4. CASE Poll
  <2>1. /\ reader' \in Readers /\ reader'.pc = "idle" /\ reader'.got = reader.got
        /\ reader'.offset = reader.offset /\ reader'.tag = reader.tag /\ reader'.after = reader.after
        /\ reader'.blind = reader.blind /\ reader'.excused = reader.excused
        /\ reader'.dead = reader.dead /\ reader'.ended = reader.ended /\ reader'.kind = reader.kind
    BY <1>1, <1>4 DEF Poll, Readers
  <2>2. EndInv'
    BY <1>1, <2>1, EndStays DEF ConsoleInv, FilesStay
  <2> QED BY <1>1, <2>1, <2>2, CursorRests
<1>5. CASE PluginAsksForLauncher
  <2>1. /\ reader' \in Readers /\ reader'.pc = "last" /\ reader'.got = reader.got
        /\ reader'.offset = reader.offset /\ reader'.tag = reader.tag /\ reader'.after = reader.after
        /\ reader'.blind = reader.blind /\ reader'.excused = reader.excused
        /\ reader'.dead = reader.dead /\ reader'.ended = reader.ended /\ reader'.kind = reader.kind
    BY <1>1, <1>5 DEF PluginAsksForLauncher, Readers
  <2>2. EndInv'
    BY <1>1, <1>5, <2>1
    DEF PluginAsksForLauncher, Dead, ConsoleInv, EndInv, UnknownExitIsTrue, FilesStay
  <2> QED BY <1>1, <2>1, <2>2, CursorRests
<1>6. CASE CliAsksForLauncher
  <2>1. /\ reader' \in Readers /\ reader'.pc = "idle" /\ reader'.got = reader.got
        /\ reader'.offset = reader.offset /\ reader'.tag = reader.tag /\ reader'.after = reader.after
        /\ reader'.blind = reader.blind /\ reader'.excused = reader.excused
        /\ reader'.ended = reader.ended /\ reader'.kind = reader.kind
    BY <1>1, <1>6 DEF CliAsksForLauncher, Readers
  <2>2. EndInv'
    BY <1>1, <1>6, <2>1
    DEF CliAsksForLauncher, Dead, ConsoleInv, EndInv, UnknownExitIsTrue, FilesStay
  <2> QED BY <1>1, <2>1, <2>2, CursorRests
<1> QED BY <1>2, <1>3, <1>4, <1>5, <1>6

(* Of a launcher that is dead, the file under the name has the exit record  *)
(* if there is one.                                                         *)
LEMMA EndingKeeps ==
  ASSUME ConsoleInv, LauncherGone \/ UnknownExit
  PROVE  ConsoleInv'
<1>1. /\ FilesStay /\ reader \in Readers /\ reader.pc = "last" /\ writer.state # "running"
      /\ disk.path \in {NoFile, file} /\ writer \in Writers
      /\ reader.kind = "cli" => disk.path # NoFile
  BY DEF LauncherGone, UnknownExit, FilesStay, ConsoleInv, ConsoleTypeOK, EndInv, CaptureInv
<1>2. disk.path # NoFile /\ ~HasExit(disk.path) => writer.state = "killed" /\ exitRecord = 0
  <2>1. disk.path # NoFile /\ writer.state = "done" => HasExit(disk.path)
    BY <1>1 DEF ConsoleInv, CaptureInv, HasExit
  <2> QED BY <1>1, <2>1 DEF Writers, ConsoleInv, CaptureInv
<1>3. CASE LauncherGone
  <2>1. \/ /\ reader' = [reader EXCEPT !.pc = "end", !.ended = "killed"]
           /\ disk.path # NoFile /\ ~HasExit(disk.path)
        \/ reader' = [reader EXCEPT !.pc = "idle"]
    BY <1>3 DEF LauncherGone
  <2>2. /\ reader' \in Readers /\ reader'.pc \in {"end", "idle"} /\ reader'.got = reader.got
        /\ reader'.offset = reader.offset /\ reader'.tag = reader.tag /\ reader'.after = reader.after
        /\ reader'.blind = reader.blind /\ reader'.excused = reader.excused
        /\ reader'.dead = reader.dead
        /\ reader'.ended = reader.ended \/ (disk.path # NoFile /\ ~HasExit(disk.path))
    BY <1>1, <2>1 DEF Readers
  <2>3. EndInv'
    BY <1>1, <1>2, <2>2 DEF ConsoleInv, EndInv, UnknownExitIsTrue, FilesStay
  <2> QED BY <1>1, <2>2, <2>3, CursorRests
<1>4. CASE UnknownExit
  <2>1. \/ /\ reader' = [reader EXCEPT !.pc = "end", !.ended = "killed"]
           /\ disk.path # NoFile /\ ~HasExit(disk.path)
        \/ reader' = [reader EXCEPT !.pc = "end", !.ended = "exit"]
    BY <1>1, <1>4 DEF UnknownExit
  <2>2. /\ reader' \in Readers /\ reader'.pc = "end" /\ reader'.got = reader.got
        /\ reader'.offset = reader.offset /\ reader'.tag = reader.tag /\ reader'.after = reader.after
        /\ reader'.blind = reader.blind /\ reader'.excused = reader.excused
        /\ reader'.dead = reader.dead
        /\ reader'.ended = "exit" \/ (disk.path # NoFile /\ ~HasExit(disk.path))
    BY <1>1, <2>1 DEF Readers
  <2>3. EndInv'
    BY <1>1, <1>2, <2>2 DEF ConsoleInv, EndInv, UnknownExitIsTrue, FilesStay
  <2> QED BY <1>1, <2>2, <2>3, CursorRests
<1> QED BY <1>3, <1>4

LEMMA OpenRotatedKeeps ==
  ASSUME ConsoleInv, OpenRotated
  PROVE  ConsoleInv'
<1>1. /\ FilesStay /\ reader.pc = "opened" /\ file \in Files /\ reader \in Readers
      /\ reader.tag # NoFile /\ reader.curTag # reader.tag /\ ConsoleTypeOK
      /\ disk.old \in FileNames /\ disk.path \in {NoFile, file}
      /\ disk.old # NoFile => disk.old = file - 1 \/ disk.old = file
  BY DEF OpenRotated, FilesStay, ConsoleInv, ConsoleTypeOK, SameFile, CaptureInv
<1>2. /\ Tag(disk.old) \in {NoFile, disk.old} /\ Tag(disk.old) \in FileNames
  BY <1>1, TagsAre
<1>3. reader' = [reader EXCEPT !.pc = "both", !.old = disk.old, !.oldTag = Tag(disk.old)]
  BY DEF OpenRotated
<1>4. /\ reader' \in Readers /\ reader'.pc = "both" /\ reader'.cur = reader.cur
      /\ reader'.curTag = reader.curTag /\ reader'.tag = reader.tag
      /\ reader'.old = disk.old /\ reader'.oldTag = Tag(disk.old)
      /\ reader'.offset = reader.offset /\ reader'.after = reader.after
      /\ reader'.got = reader.got /\ reader'.blind = reader.blind /\ reader'.excused = reader.excused
      /\ reader'.dead = reader.dead /\ reader'.ended = reader.ended /\ reader'.kind = reader.kind
  BY <1>1, <1>2, <1>3 DEF Readers
<1>5. EndInv'
  BY <1>1, <1>4, EndStays DEF ConsoleInv, FilesStay
<1>6. ASSUME NEW start \in [Files -> Nat], NEW g \in Files, Numbered(start), CursorInv(start, g)
      PROVE  CursorInv(start, g)'
  <2>1. CursorAt(start, g) /\ OpenedInv(g)
    BY <1>1, <1>6 DEF CursorInv
  <2>2. reader.tag = g
    BY <1>1, <2>1 DEF CursorAt
  <2>3. reader.cur # NoFile => reader.tag < reader.cur /\ reader.cur <= file /\ reader.cur \in Nat
    <3>1. reader.cur # NoFile => reader.cur \in Nat
      BY <1>1, FilesAre DEF Readers, FileNames
    <3>2. reader.cur # reader.tag
      BY <1>1, <2>1 DEF OpenedInv
    <3> QED BY <2>1, <2>2, <3>1, <3>2, FilesAre DEF OpenedInv
  <2>4. Tag(disk.old) = reader.tag =>
          disk.old = reader.tag /\ (reader.cur # NoFile => reader.cur = reader.tag + 1)
    <3> SUFFICES ASSUME Tag(disk.old) = reader.tag
                 PROVE  disk.old = reader.tag /\ (reader.cur # NoFile => reader.cur = reader.tag + 1)
      OBVIOUS
    <3>1. disk.old = reader.tag
      BY <1>1, <1>2
    <3>2. reader.tag = file - 1 \/ reader.tag = file
      BY <1>1, <3>1
    <3>3. file \in Nat /\ g \in Nat
      BY <1>1, FilesAre
    <3> QED BY <2>2, <2>3, <3>1, <3>2, <3>3
  <2>5. BothInv'
    BY <1>1, <1>4, <2>3, <2>4 DEF BothInv, FilesStay
  <2>6. reader.curTag # NoFile => reader.curTag = reader.cur /\ content[reader.cur] # <<>>
    BY <1>1, <1>6 DEF CursorInv
  <2> QED BY <1>1, <1>4, <1>6, <2>5, <2>6, CursorKept
<1> QED BY <1>1, <1>4, <1>5, <1>6, ReaderFrame

LEMMA ReadRotatedKeeps ==
  ASSUME ConsoleInv, ReadRotated
  PROVE  ConsoleInv'
<1> DEFINE page == Page(reader.old, reader.offset)
           pc == Then(page.lines, reader.kind = "plugin" \/ page.more)
           had == reader.got \o page.lines
<1>1. /\ FilesStay /\ reader.pc = "both" /\ file \in Files /\ reader \in Readers
      /\ reader.oldTag = reader.tag /\ ConsoleTypeOK /\ reader.offset \in Nat
      /\ reader.tag # NoFile /\ reader.tag \in Files /\ reader.old = reader.tag
      /\ reader.tag \in FileNames
  <2>1. /\ FilesStay /\ reader.pc = "both" /\ file \in Files /\ reader \in Readers
        /\ reader.oldTag = reader.tag /\ ConsoleTypeOK
    BY DEF ReadRotated, FilesStay, ConsoleInv, ConsoleTypeOK
  <2>2. BothInv
    BY <2>1 DEF ConsoleInv, ReaderInv, CursorInv
  <2> QED BY <2>1, <2>2 DEF BothInv, Readers, FileNames
<1>2. PICK f \in Files : f = reader.tag
  BY <1>1
<1>3. reader.offset <= Len(content[f]) /\ reader.offset >= 1 /\ f <= file
  BY <1>1, <1>2 DEF ConsoleInv, ReaderInv, CursorInv, CursorAt
<1>4. /\ page.lines \in Seq(Nat) /\ page.next \in Nat /\ reader.offset <= page.next
      /\ page.next <= Len(content[f]) /\ Len(page.lines) = page.next - reader.offset
      /\ \A i \in 1..(page.next - reader.offset) : page.lines[i] = content[f][reader.offset + i]
  <2>1. PICK offset \in Nat : offset = reader.offset
    BY <1>1
  <2>2. offset = IF offset > Len(content[f]) THEN 0 ELSE offset
    BY <1>3, <2>1
  <2>3. /\ Page(f, offset).lines \in Seq(Nat) /\ Page(f, offset).next \in Nat
        /\ offset <= Page(f, offset).next /\ Page(f, offset).next <= Len(content[f])
        /\ Len(Page(f, offset).lines) = Page(f, offset).next - offset
        /\ \A i \in 1..(Page(f, offset).next - offset) :
             Page(f, offset).lines[i] = content[f][offset + i]
    <3>1. ConsoleTypeOK
      BY <1>1
    <3> QED BY <2>2, <3>1, PageGoesOn, Zenon
  <2>4. page = Page(f, offset)
    BY <1>1, <1>2, <2>1
  <2> HIDE DEF page
  <2> QED BY <2>1, <2>3, <2>4
<1>5. pc \in {"idle", "quiet", "last"} /\ (pc = "last" => reader.kind = "cli" /\ reader.dead)
  BY <1>1, ThenIs
<1>6. reader' = [reader EXCEPT !.pc = pc, !.tag = reader.tag, !.offset = page.next, !.got = had,
                   !.cur = NoFile, !.curTag = NoFile, !.old = NoFile, !.oldTag = NoFile]
  BY Zenon DEF ReadRotated, DeliverLines
<1> HIDE DEF page
<1>7. had \in Seq(Nat)
  <2>1. reader.got \in Seq(Nat)
    BY <1>1 DEF Readers
  <2> QED BY <1>4, <2>1, ConcatProperties, Zenon
<1> HIDE DEF pc, had
<1>8. /\ reader' \in Readers /\ reader'.pc = pc /\ reader'.tag = reader.tag
      /\ reader'.offset = page.next /\ reader'.got = had
      /\ reader'.excused = reader.excused /\ reader'.after = reader.after
      /\ reader'.blind = reader.blind
      /\ reader'.dead = reader.dead /\ reader'.ended = reader.ended /\ reader'.kind = reader.kind
  <2>1. reader' \in Readers
    BY <1>1, <1>4, <1>5, <1>6, <1>7 DEF Readers, FileNames
  <2>2. /\ reader'.pc = pc /\ reader'.tag = reader.tag /\ reader'.offset = page.next
        /\ reader'.got = had
    BY <1>1, <1>6 DEF Readers
  <2>3. /\ reader'.excused = reader.excused /\ reader'.after = reader.after
        /\ reader'.blind = reader.blind
    BY <1>1, <1>6 DEF Readers
  <2>4. reader'.dead = reader.dead /\ reader'.ended = reader.ended /\ reader'.kind = reader.kind
    BY <1>1, <1>6 DEF Readers
  <2> QED BY <2>1, <2>2, <2>3, <2>4
<1>9. EndInv'
  BY <1>1, <1>5, <1>8, EndStays DEF ConsoleInv, FilesStay
<1>10. ASSUME NEW start \in [Files -> Nat], NEW g \in Files, Numbered(start), CursorInv(start, g)
       PROVE  \E h \in Files : CursorInv(start, h)'
  <2>1. CursorAt(start, g) /\ Rises(reader.got)
    BY <1>1, <1>10 DEF CursorInv
  <2>2. f = g
    BY <1>1, <1>2, <2>1 DEF CursorAt
  <2>3. PICK lines \in Seq(Nat), place \in Nat, next \in Nat :
          lines = page.lines /\ place = reader.offset /\ next = page.next
    BY <1>1, <1>4
  <2>4. ~reader.blind =>
          \A m \in (reader.after + 1)..(start[f] + place) : Has(m) \/ m \in reader'.excused
    BY <1>8, <2>1, <2>2, <2>3 DEF CursorAt, Told
  <2>5. /\ reader'.tag # NoFile => f = reader'.tag /\ next >= 1
        /\ reader'.tag # NoFile
    BY <1>1, <1>2, <1>3, <1>4, <1>8, <2>3
  <2>6. CursorInv(start, f)'
    <3>1. reader'.pc \notin {"new", "opened", "both"}
      BY <1>5, <1>8
    <3>2. reader'.got = reader.got \o lines
      BY <1>8, <2>3 DEF had
    <3>3. \A i \in DOMAIN reader.got : reader.got[i] <= start[f] + place
      BY <2>1, <2>2, <2>3 DEF CursorAt
    <3> QED BY <1>1, <1>3, <1>4, <1>8, <1>10, <2>1, <2>3, <2>4, <2>5, <3>1, <3>2, <3>3, CursorMoves
  <2> QED BY <2>6
<1> QED BY <1>1, <1>8, <1>9, <1>10, ReaderFrame

LEMMA ReadNewKeeps ==
  ASSUME ConsoleInv, ReadNew
  PROVE  ConsoleInv'
<1> DEFINE page == Page(reader.cur, 0)
           pc == Then(page.lines, page.more)
           had == reader.got \o page.lines
           lost == reader.oldTag # reader.tag
           gone == IF lost THEN 1..(content[reader.cur][1] - 1) ELSE reader.excused
<1>1. /\ FilesStay /\ reader.pc = "both" /\ file \in Files /\ reader \in Readers
      /\ ConsoleTypeOK /\ reader.offset \in Nat /\ reader.tag # NoFile /\ reader.tag \in Files
      /\ reader.cur \in Files /\ content[reader.cur] # <<>> /\ NewTag = reader.cur
      /\ reader.tag < reader.cur /\ reader.cur <= file
      /\ lost \/ (reader.old = reader.tag /\ reader.cur = reader.tag + 1)
  <2>1. /\ FilesStay /\ reader.pc = "both" /\ file \in Files /\ reader \in Readers
        /\ ConsoleTypeOK /\ NewTag # NoFile
    BY DEF ReadNew, FilesStay, ConsoleInv, ConsoleTypeOK
  <2>2. BothInv
    BY <2>1 DEF ConsoleInv, ReaderInv, CursorInv
  <2>3. reader.cur \in FileNames /\ reader.tag \in FileNames /\ reader.offset \in Nat
    BY <2>1 DEF Readers
  <2>4. NewTag = reader.cur /\ reader.cur \in Files /\ content[reader.cur] # <<>>
    <3>1. CASE reader.kind = "plugin"
      BY <2>1, <2>3, <3>1, TagsAre DEF NewTag
    <3>2. CASE reader.kind # "plugin"
      <4>1. NewTag = reader.curTag
        BY <3>2 DEF NewTag
      <4>2. reader.curTag = reader.cur /\ content[reader.cur] # <<>>
        BY <2>1, <4>1 DEF ConsoleInv, ReaderInv, CursorInv
      <4> QED BY <2>1, <2>3, <4>1, <4>2 DEF FileNames
    <3> QED BY <3>1, <3>2
  <2>5. reader.cur # NoFile
    BY <2>4, FilesAre
  <2> QED BY <2>1, <2>2, <2>3, <2>4, <2>5 DEF BothInv, FileNames
<1>2. PICK f \in Files : f = reader.cur
  BY <1>1
<1>3. Len(content[f]) \in Nat /\ Len(content[f]) >= 1 /\ DOMAIN content[f] = 1..Len(content[f])
  BY <1>1, <1>2, ContentsAre
<1>4. /\ page.lines \in Seq(Nat) /\ page.next \in Nat /\ 1 <= page.next
      /\ page.next <= Len(content[f]) /\ Len(page.lines) = page.next - 0
      /\ \A i \in 1..(page.next - 0) : page.lines[i] = content[f][0 + i]
  <2>1. PICK zero \in Nat : zero = 0
    OBVIOUS
  <2>2. zero = IF zero > Len(content[f]) THEN 0 ELSE zero
    BY <2>1
  <2>3. /\ Page(f, zero).lines \in Seq(Nat) /\ Page(f, zero).next \in Nat
        /\ Page(f, zero).next <= Len(content[f])
        /\ Len(Page(f, zero).lines) = Page(f, zero).next - zero
        /\ \A i \in 1..(Page(f, zero).next - zero) :
             Page(f, zero).lines[i] = content[f][zero + i]
        /\ zero < Len(content[f]) => zero < Page(f, zero).next
    <3>1. ConsoleTypeOK
      BY <1>1
    <3> QED BY <2>2, <3>1, PageGoesOn, Zenon
  <2>4. page = Page(f, zero)
    BY <1>2, <2>1
  <2> HIDE DEF page
  <2>5. zero < Len(content[f])
    BY <1>3, <2>1
  <2> QED BY <2>1, <2>3, <2>4, <2>5
<1>5. pc \in {"idle", "quiet", "last"} /\ (pc = "last" => reader.kind = "cli" /\ reader.dead)
  BY <1>1, ThenIs
<1>6. reader' = [reader EXCEPT !.pc = pc, !.tag = reader.cur, !.offset = page.next, !.got = had,
                   !.excused = gone,
                   !.cur = NoFile, !.curTag = NoFile, !.old = NoFile, !.oldTag = NoFile]
  <2>1. NewTag = reader.cur
    BY <1>1
  <2> QED BY <2>1, Zenon DEF ReadNew
<1> HIDE DEF page
<1>7. had \in Seq(Nat) /\ gone \in SUBSET Nat
  <2>1. reader.got \in Seq(Nat) /\ reader.excused \in SUBSET Nat
    BY <1>1 DEF Readers
  <2>2. had \in Seq(Nat)
    BY <1>4, <2>1, ConcatProperties, Zenon
  <2>3. content[reader.cur][1] \in Nat
    <3>1. content[f] \in Seq(Nat)
      BY <1>1, ContentsAre
    <3> QED BY <1>2, <1>3, <3>1, ElementOfSeq
  <2> QED BY <2>1, <2>2, <2>3
<1> HIDE DEF pc, had, gone
<1>8. /\ reader' \in Readers /\ reader'.pc = pc /\ reader'.tag = reader.cur
      /\ reader'.offset = page.next /\ reader'.got = had
      /\ reader'.excused = gone /\ reader'.after = reader.after
      /\ reader'.blind = reader.blind
      /\ reader'.dead = reader.dead /\ reader'.ended = reader.ended /\ reader'.kind = reader.kind
  <2>1. reader' \in Readers
    BY <1>1, <1>4, <1>5, <1>6, <1>7 DEF Readers, FileNames
  <2>2. /\ reader'.pc = pc /\ reader'.tag = reader.cur /\ reader'.offset = page.next
        /\ reader'.got = had /\ reader'.excused = gone
    BY <1>1, <1>6 DEF Readers
  <2>3. reader'.after = reader.after /\ reader'.blind = reader.blind
    BY <1>1, <1>6 DEF Readers
  <2>4. reader'.dead = reader.dead /\ reader'.ended = reader.ended /\ reader'.kind = reader.kind
    BY <1>1, <1>6 DEF Readers
  <2> QED BY <2>1, <2>2, <2>3, <2>4
<1>9. EndInv'
  BY <1>1, <1>5, <1>8, EndStays DEF ConsoleInv, FilesStay
<1>10. ASSUME NEW start \in [Files -> Nat], NEW g \in Files, Numbered(start), CursorInv(start, g)
       PROVE  \E h \in Files : CursorInv(start, h)'
  <2>1. CursorAt(start, g) /\ Rises(reader.got)
    BY <1>1, <1>10 DEF CursorInv
  <2>2. g = reader.tag /\ g \in Nat /\ f \in Nat /\ start[g] \in Nat /\ start[f] \in Nat
    BY <1>1, <2>1, FilesAre DEF CursorAt
  <2>3. start[g] + Len(content[g]) <= start[f] /\ Len(content[g]) \in Nat
        /\ reader.offset <= Len(content[g])
    <3>1. g < f
      BY <1>1, <1>2, <2>2
    <3> QED BY <1>1, <1>10, <2>1, <3>1, ContentsAre DEF Numbered, CursorAt
  <2>4. \A i \in DOMAIN reader.got : reader.got[i] <= start[f] + 0
    <3>1. reader.got \in Seq(Nat)
      BY <1>1 DEF Readers
    <3>2. \A i \in DOMAIN reader.got : reader.got[i] \in Nat
      BY <3>1, ElementOfSeq, LenProperties
    <3>3. \A i \in DOMAIN reader.got : reader.got[i] <= start[g] + reader.offset
      BY <2>1 DEF CursorAt
    <3> QED BY <1>1, <2>2, <2>3, <3>2, <3>3
  <2>5. ~reader.blind =>
          \A m \in (reader.after + 1)..(start[f] + 0) : Has(m) \/ m \in reader'.excused
    <3> SUFFICES ASSUME ~reader.blind, NEW m \in (reader.after + 1)..(start[f] + 0)
                 PROVE  Has(m) \/ m \in reader'.excused
      OBVIOUS
    <3>1. CASE lost
      <4>1. content[f][1] = start[f] + 1
        BY <1>3, <1>10 DEF Numbered
      <4>2. gone = 1..start[f]
        BY <1>2, <2>2, <3>1, <4>1 DEF gone
      <4>3. reader.after \in Nat
        BY <1>1 DEF Readers
      <4> QED BY <1>8, <2>2, <4>2, <4>3
    <3>2. CASE ~lost
      <4>1. gone = reader.excused
        BY <3>2 DEF gone
      <4>2. reader.offset = Len(content[g])
        <5>1. ReadOpen(g, reader.offset).next = reader.offset
          BY <1>1, <2>2, <3>2 DEF ReadNew, Exhausted
        <5>2. PICK offset \in Nat : offset = reader.offset
          BY <1>1
        <5>3. offset = IF offset > Len(content[g]) THEN 0 ELSE offset
          BY <2>3, <5>2
        <5>4. offset < Len(content[g]) => offset < ReadOpen(g, offset).next
          <6>1. ConsoleTypeOK
            BY <1>1
          <6> QED BY <5>3, <6>1, ReadOpenGoesOn, Zenon
        <5> QED BY <2>3, <5>1, <5>2, <5>4
      <4>3. start[f] = start[g] + Len(content[g])
        <5>1. f = g + 1
          BY <1>1, <1>2, <2>2, <3>2
        <5> QED BY <1>10, <5>1 DEF Numbered
      <4>4. m \in (reader.after + 1)..(start[g] + reader.offset)
        BY <2>2, <4>2, <4>3
      <4> QED BY <1>8, <2>1, <4>1, <4>4 DEF CursorAt, Told
    <3> QED BY <3>1, <3>2
  <2>6. PICK lines \in Seq(Nat), next \in Nat : lines = page.lines /\ next = page.next
    BY <1>4
  <2>7. CursorInv(start, f)'
    <3>1. reader'.pc \notin {"new", "opened", "both"}
      BY <1>5, <1>8
    <3>2. reader'.got = reader.got \o lines
      BY <1>8, <2>6 DEF had
    <3>3. f <= file
      BY <1>1, <1>2
    <3>4. f = reader'.tag /\ next >= 1 /\ reader'.tag # NoFile
      BY <1>2, <1>4, <1>8, <2>6, FilesAre
    <3>5. 0 \in Nat /\ 0 <= next /\ next <= Len(content[f]) /\ Len(lines) = next - 0
          /\ \A i \in 1..(next - 0) : lines[i] = content[f][0 + i]
      BY <1>4, <2>6
    <3> QED BY <1>1, <1>8, <1>10, <2>1, <2>4, <2>5, <2>6, <3>1, <3>2, <3>3, <3>4, <3>5, CursorMoves
  <2> QED BY <2>7
<1> QED BY <1>1, <1>8, <1>9, <1>10, ReaderFrame

LEMMA ConsoleInvariant == ConsoleSpec => []ConsoleInv
<1>1. ConsoleInv /\ [ConsoleNext]_consoleVars => ConsoleInv'
  <2> SUFFICES ASSUME ConsoleInv, [ConsoleNext]_consoleVars PROVE ConsoleInv'
    OBVIOUS
  <2>1. CASE UNCHANGED consoleVars
    <3>1. FilesStay /\ reader' = reader
      BY <2>1 DEF consoleVars, FilesStay
    <3>2. reader' \in Readers
      BY <3>1 DEF ConsoleInv, ConsoleTypeOK
    <3>3. EndInv'
      BY <3>1 DEF FilesStay, ConsoleInv, EndInv, UnknownExitIsTrue
    <3>4. \A start \in [Files -> Nat] : \A g \in Files :
            Numbered(start) /\ CursorInv(start, g) => CursorInv(start, g)'
      BY <3>1 DEF FilesStay, CursorInv, CursorAt, OpenedInv, BothInv, Told, Has
    <3> QED BY <3>1, <3>2, <3>3, <3>4, ReaderFrame
  <2>2. CASE WriterStep \/ Killed
    BY <2>2, WriterKeeps, RemoveKeeps, RenameKeeps, OpenKeeps, PutKeeps DEF WriterStep
  <2>3. CASE Reader
    BY <2>3, FirstReadKeeps, OpenPathKeeps, ReadSameKeeps, WaitingKeeps, OpenRotatedKeeps,
       ReadRotatedKeeps, ReadNewKeeps, EndingKeeps DEF Reader
  <2> QED BY <2>1, <2>2, <2>3 DEF ConsoleNext
<1> QED BY <1>1, ConsoleStarts, PTL DEF ConsoleSpec

LEMMA CaptureFollowed == ConsoleSpec => []CaptureIsFollowed
<1>1. ASSUME ConsoleInv PROVE CaptureIsFollowed
  <2>1. PICK start \in [Files -> Nat] : \E g \in Files : Numbered(start) /\ CursorInv(start, g)
    BY <1>1 DEF ConsoleInv, ReaderInv
  <2>2. PICK g \in Files : Numbered(start) /\ CursorInv(start, g)
    BY <2>1
  <2>3. reader.got \in Seq(Nat) /\ reader.offset \in Nat /\ reader.after \in Nat
    BY <1>1 DEF ConsoleInv, ConsoleTypeOK, Readers
  <2>4. DOMAIN reader.got = 1..Len(reader.got) /\ Len(reader.got) \in Nat
    BY <2>3, LenProperties
  <2>5. \A k \in 1..(Len(reader.got) - 1) : reader.got[k] < reader.got[k + 1]
    <3> SUFFICES ASSUME NEW k \in 1..(Len(reader.got) - 1)
                 PROVE  reader.got[k] < reader.got[k + 1]
      OBVIOUS
    <3>1. k \in DOMAIN reader.got /\ k + 1 \in DOMAIN reader.got /\ k < k + 1
      BY <2>4
    <3> QED BY <2>2, <3>1 DEF CursorInv, Rises
  <2>6. ASSUME Len(reader.got) > 0, ~reader.blind,
               NEW m \in (reader.after + 1)..reader.got[Len(reader.got)]
        PROVE  Told(m)
    <3>1. Len(reader.got) \in DOMAIN reader.got /\ reader.got[Len(reader.got)] \in Nat
      BY <2>3, <2>4, <2>6, ElementOfSeq
    <3>2. reader.pc # "new"
      BY <2>2, <2>6, EmptySeq DEF CursorInv
    <3>3. CursorAt(start, g)
      BY <2>2, <3>2 DEF CursorInv
    <3>4. reader.got[Len(reader.got)] <= start[g] + reader.offset /\ start[g] + reader.offset \in Nat
      BY <2>3, <3>1, <3>3 DEF CursorAt
    <3>5. m \in (reader.after + 1)..(start[g] + reader.offset)
      BY <2>3, <3>1, <3>4
    <3> QED BY <2>6, <3>3, <3>5 DEF CursorAt
  <2>7. FollowedWithoutGaps
    BY <2>5, <2>6 DEF FollowedWithoutGaps
  <2> QED BY <1>1, <2>7 DEF ConsoleInv, EndInv, CaptureIsFollowed
<1> QED BY <1>1, ConsoleInvariant, PTL
-----------------------------------------------------------------------------
(***************************************************************************)
(* CleanStopsAreLeftAlone for any times and manners of the application. An *)
(* application that heard the stop has less to clean up than the thread of *)
(* the first stop has left of its grace (InTime): it heard an echo of that *)
(* stop at the latest, and the two clocks run together. Before the grace   *)
(* is over nobody sends it anything, afterwards it has ended.              *)
(***************************************************************************)
Apps ==
  [state : {"none", "running", "stopping", "dead"}, left : Nat,
   by : {Unset, "itself", "TERM", "KILL"}, heard : BOOLEAN]
LauncherStates ==
  [at : {"spawn", "store", "guard", "wait", "clear", "disarm", "drain", "ended", "failed", "killed"},
   left : Nat, recorded : {Unset, "itself", "TERM", "KILL"}]
Stoppers ==
  [at : {"idle", "grace", "term", "waiting", "kill", "done"}, left : Nat, pid : BOOLEAN]

LaunchTypeOK ==
  /\ setting.cleanup \in Nat
  /\ child \in Apps /\ launcher \in LauncherStates /\ stopper \in Stoppers
  /\ stored \in BOOLEAN /\ late \in BOOLEAN
  /\ again \in {"idle", "load", "send"}
  /\ echo \in {Unset} \cup 0..STOP_ECHO

(* Where the thread of the first stop is.                                  *)
Graced ==
  /\ ~Unix => stopper.at = "idle" /\ again = "idle"
  /\ Unix => (echo = Unset <=> stopper.at = "idle")
  /\ stopper.at = "grace" /\ echo < STOP_ECHO => stopper.left = Grace - echo
  /\ stopper.at \in {"term", "waiting", "kill", "done"} => echo = STOP_ECHO
  /\ again # "idle" => late

(* An application that is told nothing but by its own copy of the stop.    *)
Quiet == setting.cleanup + STOP_ECHO <= STOP_GRACE /\ ~late /\ launcher.at # "killed"

InTime ==
  \/ /\ child.state = "stopping" /\ child.by = Unset
     /\ Unix => stopper.at = "grace" /\ child.left < stopper.left
  \/ child.state = "dead" /\ child.by = "itself"

LaunchInv ==
  /\ LaunchTypeOK /\ Graced
  /\ pid = "child" => child.state \in {"running", "stopping"}
  /\ launcher.at = "spawn" => child.state = "none"
  /\ child.state \in {"none", "running", "stopping"} => child.by = Unset
  /\ child.state = "stopping" => child.heard
  /\ child.heard => child.state \in {"stopping", "dead"} /\ echo # Unset
  /\ ours # {} /\ launcher.at # "killed" => late \/ echo = STOP_ECHO
  /\ child.heard /\ Quiet => ours = {} /\ InTime

LEMMA AppEnds ==
  ASSUME LaunchTypeOK, NEW cause \in {"itself", "TERM", "KILL"},
         child' = [child EXCEPT !.state = "dead", !.left = 0, !.by = cause]
  PROVE  /\ child' \in Apps /\ child'.state = "dead" /\ child'.by = cause
         /\ child'.heard = child.heard
BY DEF LaunchTypeOK, Apps

LEMMA LaunchStarts ==
  ASSUME LaunchInit
  PROVE  LaunchInv
BY LauncherAssumption DEF LaunchInit, LaunchInv, LaunchTypeOK, Apps, LauncherStates, Stoppers, Graced, LauncherAssumption, Unix

LEMMA GracedStays ==
  ASSUME Graced, UNCHANGED <<setting, echo, stopper, again, late>>
  PROVE  Graced'
BY DEF Graced, Unix, Grace

(* Steps of the launcher itself: the app and the clocks stand still.       *)
LEMMA LauncherStepsKeep ==
  ASSUME LaunchInv, LauncherSteps
  PROVE  LaunchInv'
<1>0. UNCHANGED <<setting, echo, stopper, again, late, ours>>
  BY DEF LauncherSteps, SpawnApp, StorePid, StartGuard, Reap, ClearPid, Disarm, RecordExit
<1>1. Graced'
  BY <1>0, GracedStays DEF LaunchInv
<1>t. launcher \in LauncherStates /\ child \in Apps /\ DrainFor \in Nat
  BY LauncherAssumption DEF LaunchInv, LaunchTypeOK, LauncherAssumption
<1>b. /\ launcher.at \in {"spawn", "store", "guard", "wait", "clear", "disarm", "drain"}
      /\ \/ \E p \in {"store", "guard", "wait", "clear", "disarm", "failed"} :
              launcher' = [launcher EXCEPT !.at = p]
         \/ launcher' = [launcher EXCEPT !.at = "drain", !.left = DrainFor]
         \/ launcher' = [at |-> "ended", left |-> 0, recorded |-> child.by]
  BY Zenon DEF LauncherSteps, SpawnApp, StorePid, StartGuard, Reap, ClearPid, Disarm, RecordExit
<1>c. launcher' \in LauncherStates /\ launcher'.at # "killed"
  <2>1. CASE \E p \in {"store", "guard", "wait", "clear", "disarm", "failed"} :
               launcher' = [launcher EXCEPT !.at = p]
    BY <1>t, <2>1 DEF LauncherStates
  <2>2. CASE launcher' = [launcher EXCEPT !.at = "drain", !.left = DrainFor]
    BY <1>t, <2>2 DEF LauncherStates
  <2>3. CASE launcher' = [at |-> "ended", left |-> 0, recorded |-> child.by]
    BY <1>t, <2>3 DEF LauncherStates, Apps
  <2> QED BY <1>b, <2>1, <2>2, <2>3
<1>d. launcher'.at # "spawn"
  <2>1. CASE \E p \in {"store", "guard", "wait", "clear", "disarm", "failed"} :
               launcher' = [launcher EXCEPT !.at = p]
    BY <1>t, <2>1 DEF LauncherStates
  <2>2. CASE launcher' = [launcher EXCEPT !.at = "drain", !.left = DrainFor]
    BY <1>t, <2>2 DEF LauncherStates
  <2>3. CASE launcher' = [at |-> "ended", left |-> 0, recorded |-> child.by]
    BY <2>3
  <2> QED BY <1>b, <2>1, <2>2, <2>3
<1>2. launcher.at # "killed" /\ launcher'.at # "killed"
  BY <1>b, <1>c
<1>3. LaunchTypeOK'
  <2>1. stored' \in BOOLEAN
    BY DEF LauncherSteps, SpawnApp, StorePid, StartGuard, Reap, ClearPid, Disarm, RecordExit,
           LaunchInv, LaunchTypeOK, Apps, LauncherStates, Stoppers
  <2>2. /\ child' \in Apps
    BY DEF LauncherSteps, SpawnApp, StorePid, StartGuard, Reap, ClearPid, Disarm, RecordExit,
           LaunchInv, LaunchTypeOK, Apps, LauncherStates, Stoppers
  <2>3. launcher' \in LauncherStates
    BY <1>c
  <2> QED BY <1>0, <2>1, <2>2, <2>3 DEF LaunchInv, LaunchTypeOK, Apps, LauncherStates, Stoppers
<1>4. \/ child' = child /\ (pid' = pid \/ pid' = "free")
      \/ /\ SpawnApp /\ child'.state = "running" /\ child'.heard = child.heard /\ child'.by = child.by
         /\ child.state = "none"
  <2>1. CASE SpawnApp
    <3>1. (child' = child /\ pid' = pid) \/ (child' = [child EXCEPT !.state = "running"] /\ pid' = "child")
      BY <2>1 DEF SpawnApp
    <3>2. launcher.at = "spawn"
      BY <2>1 DEF SpawnApp
    <3>3. CASE child' = [child EXCEPT !.state = "running"] /\ pid' = "child"
      <4>1. child.state = "none"
        BY <3>2 DEF LaunchInv
      <4> QED BY <1>t, <2>1, <3>3, <4>1 DEF Apps
    <3> QED BY <2>1, <3>1, <3>3
  <2> QED BY <2>1 DEF LauncherSteps, StorePid, StartGuard, Reap, ClearPid, Disarm, RecordExit
<1>5. CASE child' = child /\ (pid' = pid \/ pid' = "free")
  BY <1>0, <1>1, <1>2, <1>3, <1>5, <1>d DEF LaunchInv, Quiet, InTime, Unix
<1>6. CASE /\ child'.state = "running" /\ child'.heard = child.heard /\ child'.by = child.by
           /\ child.state = "none"
  BY <1>0, <1>1, <1>2, <1>3, <1>6, <1>d DEF LaunchInv, Quiet, InTime, Unix
<1> QED BY <1>4, <1>5, <1>6

LEMMA AppKeeps ==
  ASSUME LaunchInv, ChildEnds \/ PidReused \/ WatchArms \/ KillLauncher
  PROVE  LaunchInv'
<1>0. UNCHANGED <<setting, echo, stopper, again, late, ours, stored>>
  BY DEF ChildEnds, PidReused, WatchArms, KillLauncher
<1>1. Graced'
  BY <1>0, GracedStays DEF LaunchInv
<1>2. CASE ChildEnds
  <2>1. /\ child' = [child EXCEPT !.state = "dead", !.left = 0, !.by = "itself"]
        /\ pid' \in {"zombie", "free"} /\ launcher' = launcher
    BY <1>2 DEF ChildEnds, Ended
  <2>2. LaunchTypeOK'
    BY <1>0, <2>1, AppEnds DEF LaunchInv, LaunchTypeOK
  <2>3. child'.state = "dead" /\ child'.by = "itself" /\ child'.heard = child.heard
    BY <2>1 DEF LaunchInv, LaunchTypeOK, Apps, LauncherStates, Stoppers
  <2>4. launcher.at # "spawn"
    BY <1>2 DEF ChildEnds, LaunchInv
  <2>5. Quiet' => Quiet
    BY <1>0, <2>1 DEF Quiet
  <2> QED BY <1>0, <1>1, <2>1, <2>2, <2>3, <2>4, <2>5 DEF LaunchInv, InTime
<1>3. CASE PidReused
  BY <1>0, <1>1, <1>3 DEF PidReused, LaunchInv, LaunchTypeOK, Apps, LauncherStates, Stoppers, Quiet, InTime, Unix
<1>4. CASE WatchArms
  BY <1>0, <1>1, <1>4 DEF WatchArms, LaunchInv, LaunchTypeOK, Apps, LauncherStates, Stoppers, Quiet, InTime, Unix
<1>5. CASE KillLauncher
  BY <1>0, <1>1, <1>5 DEF KillLauncher, LaunchInv, LaunchTypeOK, Apps, LauncherStates, Stoppers, Quiet, InTime, Unix
<1> QED BY <1>2, <1>3, <1>4, <1>5

(* A stop: an app that hears it now hears it in the grace of the first, or *)
(* the stop is a later one.                                                *)
LEMMA StopSignalKeeps ==
  ASSUME LaunchInv, NEW group \in BOOLEAN, StopSignal(group)
  PROVE  LaunchInv'
<1>1. /\ setting' = setting /\ launcher' = launcher /\ stored' = stored /\ pid' = pid /\ ours' = ours
      /\ launcher.at # "killed"
  BY DEF StopSignal, LauncherAlive
<1>0. Grace \in Nat /\ STOP_ECHO \in Nat \ {0} /\ Unset \notin Nat /\ STOP_ECHO < Grace
      /\ STOP_GRACE <= Grace
  BY LauncherAssumption DEF LauncherAssumption, Grace
<1>a. /\ echo' = IF echo = Unset THEN 0 ELSE echo
      /\ stopper' = IF echo = Unset /\ Unix THEN [at |-> "grace", left |-> Grace, pid |-> FALSE]
                    ELSE stopper
      /\ again' = IF echo # Unset /\ Unix /\ ~Echoes THEN "load" ELSE again
      /\ late' = IF echo = Unset THEN late ELSE (late \/ echo >= STOP_ECHO)
      /\ child' = IF group /\ ChildHears
                  THEN [child EXCEPT !.state = "stopping", !.left = setting.cleanup, !.heard = TRUE]
                  ELSE child
  BY DEF StopSignal
<1>2. LaunchTypeOK' /\ Graced'
  <2>0. /\ child \in Apps /\ stopper \in Stoppers /\ setting.cleanup \in Nat /\ late \in BOOLEAN
        /\ echo \in {Unset} \cup 0..STOP_ECHO /\ again \in {"idle", "load", "send"}
    BY DEF LaunchInv, LaunchTypeOK
  <2>a. child' \in Apps
    BY <1>a, <2>0 DEF Apps
  <2>b. stopper' \in Stoppers
    BY <1>0, <1>a, <2>0 DEF Stoppers
  <2>c. /\ echo' \in {Unset} \cup 0..STOP_ECHO /\ again' \in {"idle", "load", "send"}
    BY <1>0, <1>a, <2>0
  <2>d. late' \in BOOLEAN
    <3>1. CASE echo = Unset
      BY <1>a, <2>0, <3>1
    <3>2. CASE echo # Unset
      <4>1. late' = (late \/ echo >= STOP_ECHO)
        BY <1>a, <3>2
      <4> QED BY <4>1, Zenon
    <3> QED BY <3>1, <3>2
  <2>1. LaunchTypeOK'
    BY <1>1, <2>0, <2>a, <2>b, <2>c, <2>d DEF LaunchInv, LaunchTypeOK
  <2>2. CASE echo = Unset
    <3>1. /\ echo' = 0 /\ again' = again /\ late' = late
          /\ Unix => stopper' = [at |-> "grace", left |-> Grace, pid |-> FALSE]
          /\ ~Unix => stopper' = stopper
      BY <1>a, <2>2
    <3>2. (Unix' <=> Unix) /\ Grace' = Grace
      BY <1>1 DEF Unix, Grace
    <3>3. again' # "idle" => late'
      BY <3>1 DEF LaunchInv, Graced
    <3>4. ~Unix => stopper.at = "idle" /\ again = "idle"
      BY DEF LaunchInv, Graced
    <3>5. echo' # Unset
      BY <1>0, <3>1
    <3>6. Unix => stopper'.at = "grace" /\ stopper'.left = Grace - echo'
      BY <1>0, <3>1
    <3>7. ~Unix => stopper'.at = "idle" /\ again' = "idle"
      BY <3>1, <3>4
    <3>8. Unix' => (echo' = Unset <=> stopper'.at = "idle")
      BY <3>2, <3>5, <3>6
    <3>9. stopper'.at = "grace" /\ echo' < STOP_ECHO => stopper'.left = Grace' - echo'
      BY <3>2, <3>6, <3>7
    <3>10. stopper'.at \in {"term", "waiting", "kill", "done"} => echo' = STOP_ECHO
      BY <3>6, <3>7
    <3>11. ~Unix' => stopper'.at = "idle" /\ again' = "idle"
      BY <3>2, <3>7
    <3> QED BY <2>1, <3>3, <3>8, <3>9, <3>10, <3>11, Zenon DEF Graced
  <2>3. CASE echo # Unset
    <3>1. echo \in Nat /\ echo <= STOP_ECHO /\ echo' = echo /\ stopper' = stopper
      BY <1>0, <1>a, <2>3 DEF LaunchInv, LaunchTypeOK, Apps, LauncherStates, Stoppers
    <3>2. again' # "idle" => late'
      <4>1. CASE again' = again
        BY <1>a, <2>3, <4>1 DEF LaunchInv, Graced
      <4>2. CASE again' # again
        <5>1. ~(echo < STOP_ECHO)
          BY <1>a, <4>2 DEF Echoes
        <5>2. echo >= STOP_ECHO
          BY <1>0, <3>1, <5>1
        <5> QED BY <1>a, <2>3, <5>2
      <4> QED BY <4>1, <4>2
    <3>3. ~Unix => again' = again
      BY <1>a
    <3>4. (Unix' <=> Unix) /\ Grace' = Grace
      BY <1>1 DEF Unix, Grace
    <3>5. /\ ~Unix => stopper.at = "idle" /\ again = "idle"
          /\ Unix => (echo = Unset <=> stopper.at = "idle")
          /\ stopper.at = "grace" /\ echo < STOP_ECHO => stopper.left = Grace - echo
          /\ stopper.at \in {"term", "waiting", "kill", "done"} => echo = STOP_ECHO
      BY DEF LaunchInv, Graced
    <3>6. /\ ~Unix' => stopper'.at = "idle" /\ again' = "idle"
          /\ Unix' => (echo' = Unset <=> stopper'.at = "idle")
          /\ stopper'.at = "grace" /\ echo' < STOP_ECHO => stopper'.left = Grace' - echo'
          /\ stopper'.at \in {"term", "waiting", "kill", "done"} => echo' = STOP_ECHO
      BY <3>1, <3>3, <3>4, <3>5
    <3> QED BY <2>1, <3>2, <3>6, Zenon DEF Graced
  <2> QED BY <2>1, <2>2, <2>3
<1>3. late => late'
  BY <1>a
<1>4. echo' # Unset
  BY <1>0, <1>a
<1>5. ours' # {} /\ launcher'.at # "killed" => late' \/ echo' = STOP_ECHO
  <2>1. CASE echo = Unset
    BY <1>0, <1>1, <1>a, <2>1 DEF LaunchInv
  <2>2. CASE echo # Unset
    BY <1>0, <1>1, <1>a, <2>2 DEF LaunchInv
  <2> QED BY <2>1, <2>2
<1>6. CASE child' = child
  <2>1. child.heard => stopper' = stopper
    BY <1>a DEF LaunchInv
  <2> QED BY <1>1, <1>2, <1>3, <1>4, <1>5, <1>6, <2>1 DEF LaunchInv, Quiet, InTime, Unix
<1>7. CASE group /\ ChildHears
  <2>1. /\ child.state = "running" /\ child'.state = "stopping" /\ child'.left = setting.cleanup
        /\ child'.heard /\ child'.by = Unset
    BY <1>7, <1>a DEF ChildHears, LaunchInv, LaunchTypeOK, Apps, LauncherStates, Stoppers
  <2>2. ASSUME ~late'
        PROVE  ours = {} /\ (Unix => stopper'.at = "grace" /\ stopper'.left > Grace - STOP_ECHO
                                                          /\ stopper'.left \in Nat)
    <3>1. CASE echo = Unset
      <4>1. ours = {}
        BY <1>0, <1>1, <1>3, <2>2, <3>1 DEF LaunchInv
      <4> QED BY <1>0, <1>a, <3>1, <4>1
    <3>2. CASE echo # Unset
      <4>1. echo \in Nat /\ echo < STOP_ECHO /\ stopper' = stopper
        <5>1. echo \in 0..STOP_ECHO
          BY <3>2 DEF LaunchInv, LaunchTypeOK
        <5>2. ~(echo >= STOP_ECHO)
          BY <1>a, <2>2, <3>2
        <5> QED BY <1>0, <1>a, <3>2, <5>1, <5>2
      <4>2. ours = {}
        BY <1>0, <1>1, <1>3, <2>2, <4>1 DEF LaunchInv
      <4>3. Unix => stopper.at = "grace"
        BY <3>2, <4>1 DEF LaunchInv, LaunchTypeOK, Apps, LauncherStates, Stoppers, Graced
      <4>4. Unix => stopper.left = Grace - echo
        BY <4>1, <4>3 DEF LaunchInv, Graced
      <4> QED BY <1>0, <4>1, <4>2, <4>3, <4>4
    <3> QED BY <3>1, <3>2
  <2>3. Quiet' => ~late' /\ setting.cleanup + STOP_ECHO <= Grace /\ setting.cleanup \in Nat
    BY <1>0, <1>1, LauncherAssumption DEF Quiet, LaunchInv, LaunchTypeOK, Apps, LauncherStates, Stoppers, LauncherAssumption
  <2>4. Quiet' /\ Unix => stopper'.at = "grace" /\ child'.left < stopper'.left
    BY <1>0, <2>1, <2>2, <2>3
  <2>5. Quiet' => ours' = {}
    BY <1>1, <2>2, <2>3
  <2>6. Unix' <=> Unix
    BY <1>1 DEF Unix
  <2> QED BY <1>1, <1>2, <1>4, <1>5, <2>1, <2>4, <2>5, <2>6 DEF LaunchInv, InTime
<1> QED BY <1>6, <1>7, <1>a

(* What a signal sent to the pid does to the app.                          *)
LEMMA Delivers ==
  ASSUME LaunchInv, NEW signal \in {"TERM", "KILL"}, DeliverStop(signal)
  PROVE  /\ \/ child' = child /\ pid' = pid
            \/ /\ child' = [child EXCEPT !.state = "dead", !.left = 0, !.by = signal]
               /\ pid = "child" /\ pid' \in {"zombie", "free"}
         /\ pid # "child" => ours' = ours
         /\ child' \in Apps
<1>1. \/ child' = child /\ pid' = pid
      \/ /\ child' = [child EXCEPT !.state = "dead", !.left = 0, !.by = signal]
         /\ pid = "child" /\ pid' \in {"zombie", "free"}
  BY DEF DeliverStop, Ended
<1>2. pid # "child" => ours' = ours
  BY DEF DeliverStop
<1>3. child' \in Apps
  BY <1>1, AppEnds DEF LaunchInv, LaunchTypeOK
<1> QED BY <1>1, <1>2, <1>3

LEMMA AgainKeeps ==
  ASSUME LaunchInv, Again
  PROVE  LaunchInv'
<1>1. /\ late /\ late' = late /\ again' \in {"idle", "send"}
      /\ UNCHANGED <<setting, launcher, stored, echo, stopper>>
      /\ UNCHANGED <<child, pid, ours>> \/ DeliverStop("KILL")
  BY DEF Again, LaunchInv, Graced
<1>2. Graced'
  <2>1. ~Unix => again' = again
    BY DEF Again, LaunchInv, Graced
  <2> QED BY <1>1, <2>1 DEF LaunchInv, Graced, Unix, Grace
<1>3. CASE UNCHANGED <<child, pid, ours>>
  BY <1>1, <1>2, <1>3 DEF LaunchInv, LaunchTypeOK, Apps, LauncherStates, Stoppers, Quiet
<1>4. CASE DeliverStop("KILL")
  <2>1. LaunchTypeOK'
    BY <1>1, <1>4, Delivers DEF LaunchInv, LaunchTypeOK, Apps, LauncherStates, Stoppers
  <2>2. \/ child' = child /\ pid' = pid
        \/ /\ child' = [child EXCEPT !.state = "dead", !.left = 0, !.by = "KILL"]
           /\ pid = "child" /\ pid' \in {"zombie", "free"}
    BY <1>4, Delivers
  <2>3. CASE child' = child /\ pid' = pid
    BY <1>1, <1>2, <2>1, <2>3 DEF LaunchInv, Quiet
  <2>4. CASE /\ child' = [child EXCEPT !.state = "dead", !.left = 0, !.by = "KILL"]
             /\ pid = "child" /\ pid' \in {"zombie", "free"}
    <3>1. child'.state = "dead" /\ child'.heard = child.heard
      BY <2>4, AppEnds DEF LaunchInv
    <3>2. launcher.at # "spawn"
      BY <2>4 DEF LaunchInv
    <3> QED BY <1>1, <1>2, <2>1, <2>4, <3>1, <3>2 DEF LaunchInv, Quiet
  <2> QED BY <2>2, <2>3, <2>4
<1> QED BY <1>1, <1>3, <1>4

LEMMA StopperKeeps ==
  ASSUME LaunchInv, Stopper
  PROVE  LaunchInv'
<1>1. CASE stopper.at \in {"grace", "waiting"}
  <2>1. /\ stopper.left = 0 /\ stopper' = [at |-> IF stopper.at = "grace" THEN "term" ELSE "kill",
                                           left |-> 0, pid |-> stored]
        /\ UNCHANGED <<setting, child, pid, launcher, stored, echo, signals, late, again, watch, ours>>
    BY <1>1 DEF Stopper
  <2>2. echo = STOP_ECHO
    BY <1>1, <2>1, LauncherAssumption DEF LaunchInv, LaunchTypeOK, Apps, LauncherStates, Stoppers, Graced, Grace, Unix, LauncherAssumption
  <2>3. child.heard /\ Quiet => InTime'
    BY <1>1, <2>1 DEF LaunchInv, LaunchTypeOK, Apps, LauncherStates, Stoppers, InTime, Unix, Graced
  <2> QED BY <1>1, <2>1, <2>2, <2>3, LauncherAssumption
      DEF LaunchInv, LaunchTypeOK, Apps, LauncherStates, Stoppers, Graced, Quiet, Unix, Grace, LauncherAssumption
<1>2. CASE stopper.at \in {"term", "kill"}
  <2>1. /\ UNCHANGED <<setting, launcher, stored, echo, signals, late, again, watch>>
        /\ stopper' \in {AfterTerm, [stopper EXCEPT !.at = "done"]}
        /\ \/ UNCHANGED <<child, pid, ours, strays>>
           \/ DeliverStop("TERM") \/ DeliverStop("KILL")
    BY <1>2 DEF Stopper
  <2>2. echo = STOP_ECHO /\ Unix
    BY <1>2 DEF LaunchInv, Graced
  <2>3. Graced'
    BY <1>2, <2>1, <2>2, LauncherAssumption
    DEF AfterTerm, LaunchInv, LaunchTypeOK, Apps, LauncherStates, Stoppers, Graced, Unix, Grace, LauncherAssumption
  <2>5. stopper' \in Stoppers
    BY <2>1, LauncherAssumption DEF AfterTerm, LaunchInv, LaunchTypeOK, Apps, LauncherStates, Stoppers, LauncherAssumption
  <2>6. /\ \/ child' = child /\ pid' = pid
           \/ \E signal \in {"TERM", "KILL"} :
                /\ child' = [child EXCEPT !.state = "dead", !.left = 0, !.by = signal]
                /\ pid = "child" /\ pid' \in {"zombie", "free"}
        /\ pid # "child" => ours' = ours
        /\ child' \in Apps
    BY <2>1, Delivers DEF LaunchInv, LaunchTypeOK, Apps, LauncherStates, Stoppers
  <2>7. LaunchTypeOK'
    BY <2>1, <2>5, <2>6 DEF LaunchInv, LaunchTypeOK, Apps, LauncherStates, Stoppers
  <2>4. child.heard /\ Quiet => child.state = "dead" /\ pid # "child"
    BY <1>2, <2>2 DEF LaunchInv, InTime
  <2>8. CASE child' = child /\ pid' = pid
    BY <2>1, <2>2, <2>3, <2>4, <2>6, <2>7, <2>8 DEF LaunchInv, Quiet, InTime, Unix
  <2>9. CASE \E signal \in {"TERM", "KILL"} :
                /\ child' = [child EXCEPT !.state = "dead", !.left = 0, !.by = signal]
                /\ pid = "child" /\ pid' \in {"zombie", "free"}
    <3>1. child'.state = "dead" /\ child'.heard = child.heard /\ pid = "child" /\ pid' # "child"
      BY <2>9 DEF LaunchInv, LaunchTypeOK, Apps, LauncherStates, Stoppers
    <3> QED BY <2>1, <2>2, <2>3, <2>4, <2>7, <3>1 DEF LaunchInv, Quiet
  <2> QED BY <2>6, <2>8, <2>9
<1> QED BY <1>1, <1>2 DEF Stopper

LEMMA WatchKeeps ==
  ASSUME LaunchInv, WatchActs
  PROVE  LaunchInv'
<1>1. launcher.at = "killed" /\ UNCHANGED <<setting, launcher, stored, echo, late, stopper, again>>
  BY DEF WatchActs
<1>2. Graced'
  BY <1>1, GracedStays DEF LaunchInv
<1>3. /\ \/ child' = child /\ pid' = pid
         \/ \E signal \in {"TERM", "KILL"} :
              /\ child' = [child EXCEPT !.state = "dead", !.left = 0, !.by = signal]
              /\ pid' \in {"zombie", "free"} /\ child.state \in {"running", "stopping"}
  BY Delivers DEF WatchActs, Ended, LaunchInv
<1>4. LaunchTypeOK'
  <2>1. child' \in Apps
    BY <1>3, AppEnds DEF LaunchInv, LaunchTypeOK
  <2> QED BY <1>1, <2>1 DEF LaunchInv, LaunchTypeOK
<1>5. CASE child' = child /\ pid' = pid
  BY <1>1, <1>2, <1>4, <1>5 DEF LaunchInv, Quiet
<1>6. CASE \E signal \in {"TERM", "KILL"} :
              /\ child' = [child EXCEPT !.state = "dead", !.left = 0, !.by = signal]
              /\ pid' \in {"zombie", "free"} /\ child.state \in {"running", "stopping"}
  <2>1. child'.state = "dead" /\ child'.heard = child.heard /\ pid' # "child"
    BY <1>6 DEF LaunchInv, LaunchTypeOK, Apps, LauncherStates, Stoppers
  <2> QED BY <1>1, <1>2, <1>4, <2>1 DEF LaunchInv, Quiet
<1> QED BY <1>3, <1>5, <1>6

LEMMA TickKeeps ==
  ASSUME LaunchInv, Tick
  PROVE  LaunchInv'
<1>1. /\ UNCHANGED <<setting, pid, stored, late, again, ours>>
      /\ child' = [child EXCEPT !.left = Down(child.left)]
      /\ stopper' = [stopper EXCEPT !.left = Down(stopper.left)]
      /\ launcher' = [launcher EXCEPT !.left = Down(launcher.left)]
      /\ echo' = IF echo # Unset /\ echo < STOP_ECHO THEN echo + 1 ELSE echo
      /\ ~(child.state = "stopping" /\ child.left = 0)
  BY DEF Tick
<1>2. \A n \in Nat : Down(n) \in Nat /\ (n > 0 => Down(n) = n - 1)
  BY DEF Down
<1> HIDE DEF Down
<1>3. LaunchTypeOK'
  BY <1>1, <1>2, LauncherAssumption DEF LaunchInv, LaunchTypeOK, Apps, LauncherStates, Stoppers, LauncherAssumption
<1>4. Graced'
  BY <1>1, <1>2, LauncherAssumption
  DEF LaunchInv, LaunchTypeOK, Apps, LauncherStates, Stoppers, Graced, Unix, Grace, LauncherAssumption
<1>5. child.heard /\ Quiet => InTime'
  BY <1>1, <1>2 DEF LaunchInv, LaunchTypeOK, Apps, LauncherStates, Stoppers, InTime, Unix
<1> QED BY <1>1, <1>3, <1>4, <1>5, LauncherAssumption
    DEF LaunchInv, LaunchTypeOK, Apps, LauncherStates, Stoppers, Quiet, LauncherAssumption

LEMMA LaunchInvariant == LaunchSpec => []LaunchInv
<1>1. LaunchInv /\ [LaunchNext]_launchVars => LaunchInv'
  <2> SUFFICES ASSUME LaunchInv, [LaunchNext]_launchVars PROVE LaunchInv'
    OBVIOUS
  <2>1. CASE UNCHANGED launchVars
    BY <2>1 DEF launchVars, LaunchInv, LaunchTypeOK, Apps, LauncherStates, Stoppers, Graced, Quiet, InTime, Unix, Grace
  <2>2. CASE LaunchNext
    BY <2>2, LauncherStepsKeep, AppKeeps, StopSignalKeeps, AgainKeeps, StopperKeeps, WatchKeeps,
       TickKeeps DEF LaunchNext
  <2> QED BY <2>1, <2>2
<1> QED BY <1>1, LaunchStarts, PTL DEF LaunchSpec

LEMMA CleanStops == LaunchSpec => []CleanStopsAreLeftAlone
<1>1. LaunchInv => CleanStopsAreLeftAlone
  BY DEF LaunchInv, LaunchTypeOK, Apps, LauncherStates, Stoppers, CleanStopsAreLeftAlone, Quiet, InTime
<1> QED BY <1>1, LaunchInvariant, PTL

(* LaunchersKeepTheirWord: the capture that `victauri run` writes can be    *)
(* followed without an untold gap and without a false word of the exit, and *)
(* an application with its own copy of a stop is not signalled while it     *)
(* cleans up, whatever the sizes, the times and the failures.               *)
THEOREM LaunchersKeepTheirWordAlways == ConsoleSpec /\ LaunchSpec => []LaunchersKeepTheirWord
<1>1. CaptureIsFollowed /\ CleanStopsAreLeftAlone => LaunchersKeepTheirWord
  BY DEF LaunchersKeepTheirWord
<1> QED BY <1>1, CaptureFollowed, CleanStops, PTL
=============================================================================
