----------------------------- MODULE ProxyProofs -----------------------------
EXTENDS Proxy, TLAPS

(* Proofs about the CLI bridge (Proxy).  For any requests, launches, missed scans
   and refused handshakes:

   - CallsAreSafe.  OnceFor ties the number of times a call ran to where its task
     is: only a task whose last post was refused, or never left, posts again.
   - AppIsServed, given three rounds of forward_with_retries.  Heard says that
     every edge of the poller is either announced already or about to be, by the
     poller or by handle_line.  SteadyFor bounds the rounds an undisturbed request
     can still lose: one to a poller that is about to clear the session (Pending),
     one to an outdated session the bridge still holds (Held), one to an outdated
     session the request itself has picked up (Own), never more than two of them
     from the first round on.

   The first lemmas restate what the actions do, so that the invariants are proved
   from the effects rather than from the actions' text.                            *)

(* The fields a request has, by where it is. *)
LEMMA TaskShapes ==
    ASSUME NEW x \in Tasks
    PROVE  /\ x.pc \in {"idle", "scan", "session", "shake", "post", "sent", "stale", "ran",
                        "again", "done"}
           /\ x.pc = "scan" => x.attempt \in Nat
           /\ x.pc \in {"session", "shake", "post"} =>
                /\ x.attempt \in Nat /\ x.launch \in Nat
                /\ \A p : [x EXCEPT !.pc = p] = [pc |-> p, attempt |-> x.attempt, launch |-> x.launch]
           /\ x.pc \in {"sent", "stale", "ran"} =>
                /\ x.attempt \in Nat /\ x.launch \in Nat /\ x.sid \in Nat \X Nat
                /\ \A p : [x EXCEPT !.pc = p] = [pc |-> p, attempt |-> x.attempt,
                                                launch |-> x.launch, sid |-> x.sid]
           /\ x.pc = "again" => x.attempt \in Nat /\ x.launch \in Nat
<1>1. CASE x \in [pc : {"idle"}]
  BY <1>1
<1>2. CASE x \in [pc : {"scan"}, attempt : Nat]
  BY <1>2
<1>3. CASE x \in [pc : {"session", "shake", "post"}, attempt : Nat, launch : Nat]
  BY <1>3
<1>4. CASE x \in [pc : {"sent", "stale", "ran"}, attempt : Nat, launch : Nat, sid : Nat \X Nat]
  BY <1>4
<1>5. CASE x \in [pc : {"again"}, attempt : Nat, launch : Nat, stale : BOOLEAN]
  BY <1>5
<1>6. CASE x \in [pc : {"done"}, reply : {"busy", "answer", "unanswered", "error", "unreachable",
                                   "fallback", "may have run"}]
  BY <1>6
<1> QED
  BY <1>1, <1>2, <1>3, <1>4, <1>5, <1>6 DEF Tasks

(* The absent session is one of the session ids. *)
LEMMA NoSessionType == NoSession \in Nat \X Nat
BY DEF NoSession

(* The records the actions build are requests. *)
LEMMA MakeTasks ==
    ASSUME NEW a \in Nat, NEW l \in Nat, NEW s \in Nat \X Nat
    PROVE  /\ [pc |-> "scan", attempt |-> a] \in Tasks
           /\ \A p \in {"session", "shake", "post"} : [pc |-> p, attempt |-> a, launch |-> l] \in Tasks
           /\ \A p \in {"sent", "stale", "ran"} :
                [pc |-> p, attempt |-> a, launch |-> l, sid |-> s] \in Tasks
           /\ \A b \in BOOLEAN : [pc |-> "again", attempt |-> a, launch |-> l, stale |-> b] \in Tasks
           /\ \A reply \in {"busy", "answer", "unanswered", "error", "unreachable", "fallback",
                            "may have run"} : [pc |-> "done", reply |-> reply] \in Tasks
<1>1. [pc |-> "scan", attempt |-> a] \in Tasks
  <2>1. [pc |-> "scan", attempt |-> a] \in [pc : {"scan"}, attempt : Nat]
    OBVIOUS
  <2> QED
    BY <2>1, Zenon DEF Tasks
<1>2. \A p \in {"session", "shake", "post"} : [pc |-> p, attempt |-> a, launch |-> l] \in Tasks
  <2>1. \A p \in {"session", "shake", "post"} : [pc |-> p, attempt |-> a, launch |-> l]
           \in [pc : {"session", "shake", "post"}, attempt : Nat, launch : Nat]
    OBVIOUS
  <2> QED
    BY <2>1, Zenon DEF Tasks
<1>3. \A p \in {"sent", "stale", "ran"} :
          [pc |-> p, attempt |-> a, launch |-> l, sid |-> s] \in Tasks
  <2>1. \A p \in {"sent", "stale", "ran"} : [pc |-> p, attempt |-> a, launch |-> l, sid |-> s]
           \in [pc : {"sent", "stale", "ran"}, attempt : Nat, launch : Nat, sid : Nat \X Nat]
    OBVIOUS
  <2> QED
    BY <2>1, Zenon DEF Tasks
<1>4. \A b \in BOOLEAN : [pc |-> "again", attempt |-> a, launch |-> l, stale |-> b] \in Tasks
  <2>1. \A b \in BOOLEAN : [pc |-> "again", attempt |-> a, launch |-> l, stale |-> b]
           \in [pc : {"again"}, attempt : Nat, launch : Nat, stale : BOOLEAN]
    OBVIOUS
  <2> QED
    BY <2>1, Zenon DEF Tasks
<1>5. \A reply \in {"busy", "answer", "unanswered", "error", "unreachable", "fallback",
                    "may have run"} : [pc |-> "done", reply |-> reply] \in Tasks
  <2>1. \A reply \in {"busy", "answer", "unanswered", "error", "unreachable", "fallback",
                     "may have run"} :
           [pc |-> "done", reply |-> reply]
             \in [pc : {"done"}, reply : {"busy", "answer", "unanswered", "error", "unreachable",
                                         "fallback", "may have run"}]
    OBVIOUS
  <2> QED
    BY <2>1, Zenon DEF Tasks
<1> QED
  BY <1>1, <1>2, <1>3, <1>4, <1>5

-----------------------------------------------------------------------------
(* What the building blocks of forward_with_retries do to the task table.    *)

Replies == {"busy", "answer", "unanswered", "error", "unreachable", "fallback", "may have run"}

(* Only the task t differs, and the table stays one of tasks. *)
OnlyTask(t) ==
    /\ task' \in [Requests -> Tasks]
    /\ \A r \in Requests \ {t} : task'[r] = task[r]

(* Only the list the client holds may differ. *)
SameClient ==
    /\ client' \in [pc : {"new", "asked", "storing", "ready"},
                   list : {"none", "answer", "fallback"}]
    /\ client'.pc = client.pc

(* A step of one request leaves the others where they were. *)
LEMMA Replaced ==
    ASSUME ProxyTypeOK, NEW t \in Requests, NEW x \in Tasks, task' = [task EXCEPT ![t] = x]
    PROVE  OnlyTask(t) /\ task'[t] = x
BY DEF ProxyTypeOK, OnlyTask

(* What Goto does: it moves one request on. *)
LEMMA GotoEffect ==
    ASSUME ProxyTypeOK, NEW t \in Requests, NEW p, Goto(t, p)
    PROVE  /\ task[t].pc \in {"session", "shake", "post"} /\ p \in {"session", "shake", "post"} =>
                /\ OnlyTask(t)
                /\ task'[t] = [pc |-> p, attempt |-> task[t].attempt, launch |-> task[t].launch]
           /\ task[t].pc \in {"sent", "stale", "ran"} /\ p \in {"sent", "stale", "ran"} =>
                /\ OnlyTask(t)
                /\ task'[t] = [pc |-> p, attempt |-> task[t].attempt, launch |-> task[t].launch,
                              sid |-> task[t].sid]
<1> DEFINE x == task[t]
<1>0. x \in Tasks
  BY DEF ProxyTypeOK
<1>1. task' = [task EXCEPT ![t] = [x EXCEPT !.pc = p]]
  BY DEF Goto, ProxyTypeOK
<1> HIDE DEF x
<1>2. CASE x.pc \in {"session", "shake", "post"} /\ p \in {"session", "shake", "post"}
  <2> DEFINE y == [pc |-> p, attempt |-> x.attempt, launch |-> x.launch]
  <2>1. x.attempt \in Nat /\ x.launch \in Nat /\ [x EXCEPT !.pc = p] = y
    BY <1>0, <1>2, TaskShapes
  <2>2. y \in Tasks
    BY <1>2, <2>1, MakeTasks, NoSessionType
  <2>3. task' = [task EXCEPT ![t] = y]
    BY <1>1, <2>1
  <2> HIDE DEF y
  <2>4. OnlyTask(t) /\ task'[t] = y
    BY <2>2, <2>3, Replaced
  <2> QED
    BY <1>2, <2>4 DEF x, y
<1>3. CASE x.pc \in {"sent", "stale", "ran"} /\ p \in {"sent", "stale", "ran"}
  <2> DEFINE y == [pc |-> p, attempt |-> x.attempt, launch |-> x.launch, sid |-> x.sid]
  <2>1. /\ x.attempt \in Nat /\ x.launch \in Nat /\ x.sid \in Nat \X Nat
        /\ [x EXCEPT !.pc = p] = y
    BY <1>0, <1>3, TaskShapes
  <2>2. y \in Tasks
    BY <1>3, <2>1, MakeTasks
  <2>3. task' = [task EXCEPT ![t] = y]
    BY <1>1, <2>1
  <2> HIDE DEF y
  <2>4. OnlyTask(t) /\ task'[t] = y
    BY <2>2, <2>3, Replaced
  <2> QED
    BY <1>3, <2>4 DEF x, y
<1> QED
  BY <1>2, <1>3 DEF x

(* What Reply does: it ends one request and frees its place. *)
LEMMA ReplyEffect ==
    ASSUME ProxyTypeOK, NEW t \in Requests, NEW reply \in Replies, Reply(t, reply)
    PROVE  /\ OnlyTask(t) /\ SameClient
           /\ task'[t].pc = "done"
           /\ task'[t].reply = (IF t \in Lists /\ reply = "unreachable" THEN "fallback" ELSE reply)
<1> DEFINE served == IF t \in Lists /\ reply = "unreachable" THEN "fallback" ELSE reply
<1>1. served \in Replies
  BY DEF Replies
<1>2. task' = [task EXCEPT ![t] = [pc |-> "done", reply |-> served]]
  BY DEF Reply
<1>3. client' = IF t \in Lists /\ served \in {"answer", "fallback"}
                THEN [client EXCEPT !.list = served] ELSE client
  BY DEF Reply
<1> HIDE DEF served
<1>4. SameClient
  BY <1>3 DEF SameClient, ProxyTypeOK
<1>5. [pc |-> "done", reply |-> served] \in Tasks
  BY <1>1, MakeTasks, NoSessionType DEF Replies
<1>6. OnlyTask(t) /\ task'[t] = [pc |-> "done", reply |-> served]
  BY <1>2, <1>5, Replaced
<1> QED
  BY <1>4, <1>6 DEF served

(* What retrying does: another round, or the end with "unreachable". *)
LEMMA RetryEffect ==
    ASSUME ProxyTypeOK, NEW t \in Requests, task[t].pc \in {"sent", "stale", "ran"}, Retry(t)
    PROVE  /\ OnlyTask(t) /\ SameClient
           /\ \/ /\ task[t].attempt + 1 < MaxRetries
                 /\ task'[t].pc = "again"
                 /\ task'[t].attempt = task[t].attempt + 1
                 /\ task'[t].launch = task[t].launch
              \/ /\ ~(task[t].attempt + 1 < MaxRetries)
                 /\ task'[t].pc = "done"
                 /\ task'[t].reply = (IF t \in Lists THEN "fallback" ELSE "unreachable")
<1>0. task[t] \in Tasks
  BY DEF ProxyTypeOK
<1>1. task[t].attempt \in Nat /\ task[t].launch \in Nat
  BY <1>0, TaskShapes
<1>2. CASE task[t].attempt + 1 < MaxRetries
  <2> DEFINE a == task[t].attempt + 1
             l == task[t].launch
             b == task[t].pc = "stale"
             y == [pc |-> "again", attempt |-> a, launch |-> l, stale |-> b]
  <2>1. a \in Nat /\ l \in Nat
    BY <1>1
  <2>2. b \in BOOLEAN
    BY Zenon
  <2>3. task' = [task EXCEPT ![t] = y] /\ client' = client
    BY <1>2, Zenon DEF Retry
  <2> HIDE DEF a, l, b
  <2>4. y \in Tasks
    BY <2>1, <2>2, MakeTasks, NoSessionType, Zenon
  <2>4a. y.pc = "again" /\ y.attempt = a /\ y.launch = l
    OBVIOUS
  <2> HIDE DEF y
  <2>5. OnlyTask(t) /\ task'[t] = y
    BY <2>3, <2>4, Replaced
  <2>6. SameClient
    BY <2>3 DEF SameClient, ProxyTypeOK
  <2> QED
    BY <1>2, <2>4a, <2>5, <2>6 DEF a, l
<1>3. CASE ~(task[t].attempt + 1 < MaxRetries)
  <2>1. Reply(t, "unreachable")
    BY <1>3, Zenon DEF Retry
  <2> QED
    BY <1>3, <2>1, ReplyEffect DEF Replies
<1> QED
  BY <1>2, <1>3

(* What a step of forward_with_retries leaves of the application and of the bridge. *)
LEMMA ForwardEffect ==
    ASSUME ProxyAssumption, ProxyTypeOK, NEW t \in Requests, Forward(t)
    PROVE  OnlyTask(t) /\ SameClient /\ task[t].pc \notin {"idle", "done"}
<1>0. task[t] \in Tasks /\ app.launch \in Nat /\ bridge.sid \in Nat \X Nat
  BY DEF ProxyTypeOK
<1>same. client' = client => SameClient
  BY DEF SameClient, ProxyTypeOK
<1>1. CASE Resolve(t) \/ Rediscover(t)
  <2>1. task[t].pc \in {"scan", "again"} /\ client' = client
    BY <1>1 DEF Resolve, Rediscover, At
  <2>2. task[t].attempt \in Nat
    BY <1>0, <2>1, TaskShapes
  <2> DEFINE y == [pc |-> "session", attempt |-> task[t].attempt, launch |-> app.launch]
  <2>3. y \in Tasks
    BY <1>0, <2>2, MakeTasks
  <2>4. task' = [task EXCEPT ![t] = y]
    BY <1>1 DEF Resolve, Rediscover
  <2> QED
    BY <1>same, <2>1, <2>3, <2>4, Replaced
<1>2. CASE FailFast(t)
  BY <1>2, ReplyEffect DEF FailFast, At, Replies
<1>3. CASE NoHandshake(t) \/ LockHandshake(t) \/ Recheck(t) \/ Handshake(t) \/ HandshakeRejected(t)
  <2>1. task[t].pc \in {"session", "shake"} /\ client' = client
    BY <1>3 DEF NoHandshake, LockHandshake, Recheck, Handshake, HandshakeRejected, At
  <2>2. Goto(t, "post") \/ Goto(t, "shake")
    BY <1>3 DEF NoHandshake, LockHandshake, Recheck, Handshake, HandshakeRejected
  <2> QED
    BY <1>same, <2>1, <2>2, GotoEffect
<1>4. CASE Post(t)
  <2>1. task[t].pc = "post" /\ client' = client
    BY <1>4 DEF Post, At
  <2>2. task[t].attempt \in Nat /\ task[t].launch \in Nat
    BY <1>0, <2>1, TaskShapes
  <2> DEFINE y == [pc |-> "sent", attempt |-> task[t].attempt, launch |-> task[t].launch,
                  sid |-> bridge.sid]
  <2>3. y \in Tasks
    BY <1>0, <2>2, MakeTasks
  <2>4. task' = [task EXCEPT ![t] = y]
    BY <1>4 DEF Post
  <2> QED
    BY <1>same, <2>1, <2>3, <2>4, Replaced
<1>5. CASE Rejects(t)
  BY <1>5, ReplyEffect DEF Rejects, At, Replies
<1>6. CASE Unknown(t) \/ Runs(t)
  <2>1. task[t].pc = "sent" /\ client' = client /\ (Goto(t, "stale") \/ Goto(t, "ran"))
    BY <1>6 DEF Unknown, Runs, At
  <2> QED
    BY <1>same, <2>1, GotoEffect
<1>7. CASE Stale(t)
  BY <1>7, RetryEffect DEF Stale, At
<1>8. CASE Relay(t)
  BY <1>8, ReplyEffect DEF Relay, At, Replies
<1>9. CASE Refused(t) \/ Lost(t)
  <2>1. task[t].pc \in {"sent", "ran"} /\ (Retry(t) \/ Reply(t, "may have run"))
    BY <1>9 DEF Refused, Lost, Failed, At
  <2> QED
    BY <2>1, RetryEffect, ReplyEffect DEF Replies
<1>10. CASE RediscoverNone(t)
  <2>1. task[t].pc = "again"
    BY <1>10 DEF RediscoverNone, At
  <2>2. task[t].attempt \in Nat /\ task[t].launch \in Nat
    BY <1>0, <2>1, TaskShapes
  <2> DEFINE y == [pc |-> "session", attempt |-> task[t].attempt, launch |-> task[t].launch]
  <2>3. y \in Tasks
    BY <1>0, <2>2, MakeTasks
  <2>4. \/ task' = [task EXCEPT ![t] = y] /\ client' = client
        \/ Reply(t, "unreachable")
    BY <1>10 DEF RediscoverNone
  <2> QED
    BY <1>same, <2>1, <2>3, <2>4, Replaced, ReplyEffect DEF Replies
<1> QED
  BY <1>1, <1>2, <1>3, <1>4, <1>5, <1>6, <1>7, <1>8, <1>9, <1>10 DEF Forward

Bridges == [sid : Nat \X Nat, init : BOOLEAN, stateless : BOOLEAN, up : BOOLEAN, ready : BOOLEAN]
Apps == [up : BOOLEAN, launch : Nat, minted : Nat,
         transport : {"stateful", "stateless", "backfilled"}]

(* What a session change leaves of the bridge. *)
LEMMA SidChange ==
    ASSUME NEW b \in Bridges, NEW s \in Nat \X Nat
    PROVE  /\ [b EXCEPT !.sid = s] \in Bridges
           /\ [b EXCEPT !.sid = s].sid = s
           /\ [b EXCEPT !.sid = s].stateless = b.stateless
           /\ [b EXCEPT !.sid = s].init = b.init
           /\ [b EXCEPT !.sid = s].up = b.up
           /\ [b EXCEPT !.sid = s].ready = b.ready
           /\ [b EXCEPT !.stateless = TRUE] \in Bridges
           /\ [b EXCEPT !.stateless = TRUE].sid = b.sid
           /\ [b EXCEPT !.stateless = TRUE].stateless = TRUE
           /\ [b EXCEPT !.stateless = TRUE].init = b.init
           /\ [b EXCEPT !.stateless = TRUE].up = b.up
           /\ [b EXCEPT !.stateless = TRUE].ready = b.ready
BY DEF Bridges

(* No request is calm once marred. *)
LEMMA MarredType == Marred \in [Requests -> BOOLEAN] /\ \A r \in Requests : Marred[r] = FALSE
BY DEF Marred

(* A session offered by an application is a session id. *)
LEMMA OfferType ==
    ASSUME ProxyAssumption, ProxyTypeOK
    PROVE  Offered \in Nat \X Nat /\ Constant \in Nat \X Nat /\ Constant # NoSession
BY DEF ProxyAssumption, ProxyTypeOK, Offered, Constant, NoSession

(* A step of forward_with_retries leaves backend_up, client_ready and cached_init
   alone, and the application's launch: it changes the session at most.           *)
LEMMA ForwardBridge ==
    ASSUME ProxyAssumption, ProxyTypeOK, NEW t \in Requests, Forward(t)
    PROVE  /\ bridge' \in Bridges
           /\ bridge'.init = bridge.init /\ bridge'.up = bridge.up /\ bridge'.ready = bridge.ready
           /\ app' \in Apps
           /\ app'.up = app.up /\ app'.launch = app.launch /\ app'.transport = app.transport
           /\ poller' = poller /\ told' = told
           /\ shake' \in Requests \cup {NoTask}
           /\ misses' \in [scans : Nat, shakes : Nat]
           /\ runs' \in [Requests -> Nat]
           /\ calm' \in [Requests -> BOOLEAN]
<1>0. bridge \in Bridges /\ app \in Apps
  BY DEF ProxyTypeOK, Bridges, Apps
<1>t. task[t] \in Tasks
  BY DEF ProxyTypeOK
<1>1. /\ bridge' \in Bridges
      /\ bridge'.init = bridge.init /\ bridge'.up = bridge.up /\ bridge'.ready = bridge.ready
  <2>1. CASE UNCHANGED bridge
    BY <1>0, <2>1
  <2>2. CASE Handshake(t) \/ HandshakeRejected(t)
    <3>1. PICK s \in Nat \X Nat : bridge' = Adopted(s)
      BY <2>2, OfferType, NoSessionType DEF Handshake, HandshakeRejected
    <3> QED
      BY <1>0, <3>1, SidChange DEF Adopted
  <2>3. CASE Stale(t) \/ Refused(t) \/ Lost(t)
    <3>1. bridge' = [bridge EXCEPT !.sid = NoSession] \/ bridge' = bridge
      BY <2>3 DEF Stale, Refused, Lost, Failed, Forgotten
    <3> DEFINE b == [bridge EXCEPT !.sid = NoSession]
    <3>2. /\ b \in Bridges
          /\ b.init = bridge.init /\ b.up = bridge.up /\ b.ready = bridge.ready
      BY <1>0, SidChange, NoSessionType
    <3> HIDE DEF b
    <3>3. bridge' = b \/ bridge' = bridge
      BY <3>1 DEF b
    <3> QED
      BY <1>0, <3>2, <3>3
  <2>4. CASE Relay(t)
    <3>1. bridge' = [bridge EXCEPT !.sid = Constant] \/ bridge' = bridge
      BY <2>4 DEF Relay
    <3> DEFINE b == [bridge EXCEPT !.sid = Constant]
    <3>2. /\ b \in Bridges
          /\ b.init = bridge.init /\ b.up = bridge.up /\ b.ready = bridge.ready
      BY <1>0, SidChange, OfferType
    <3> HIDE DEF b
    <3>3. bridge' = b \/ bridge' = bridge
      BY <3>1 DEF b
    <3> QED
      BY <1>0, <3>2, <3>3
  <2> QED
    BY <2>1, <2>2, <2>3, <2>4
    DEF Forward, Resolve, FailFast, NoHandshake, LockHandshake, Recheck, Post, Rejects, Unknown,
        Runs, Rediscover, RediscoverNone
<1>2. /\ app' \in Apps
      /\ app'.up = app.up /\ app'.launch = app.launch /\ app'.transport = app.transport
  <2>1. CASE UNCHANGED app
    BY <1>0, <2>1
  <2>2. CASE Handshake(t)
    <3>1. app' = [app EXCEPT !.minted = IF app.transport = "stateful" THEN @ + 1 ELSE @]
      BY <2>2 DEF Handshake
    <3> QED
      BY <1>0, <3>1 DEF Apps
  <2> QED
    BY <2>1, <2>2
    DEF Forward, Resolve, FailFast, NoHandshake, LockHandshake, Recheck, Post, Rejects, Unknown,
        Runs, Rediscover, RediscoverNone, HandshakeRejected, Stale, Refused, Lost, Failed, Relay
<1>3. poller' = poller /\ told' = told
  BY DEF Forward, Resolve, FailFast, NoHandshake, LockHandshake, Recheck, Post, Rejects, Unknown,
        Runs, Rediscover, RediscoverNone, Handshake, HandshakeRejected, Stale, Refused, Lost,
        Failed, Relay
<1>4. shake' \in Requests \cup {NoTask}
  <2>1. shake' \in {shake, t, NoTask}
    BY DEF Forward, Resolve, FailFast, NoHandshake, LockHandshake, Recheck, Post, Rejects, Unknown,
        Runs, Rediscover, RediscoverNone, Handshake, HandshakeRejected, Stale, Refused, Lost,
        Failed, Relay
  <2> QED
    BY <2>1 DEF ProxyTypeOK
<1>5. misses' \in [scans : Nat, shakes : Nat]
  <2>1. \/ misses' = misses
        \/ misses' = [misses EXCEPT !.scans = @ + 1]
        \/ misses' = [misses EXCEPT !.shakes = @ + 1]
    BY DEF Forward, Resolve, FailFast, NoHandshake, LockHandshake, Recheck, Post, Rejects, Unknown,
        Runs, Rediscover, RediscoverNone, Handshake, HandshakeRejected, Stale, Refused, Lost,
        Failed, Relay, ScanMisses
  <2> QED
    BY <2>1 DEF ProxyTypeOK
<1>6. runs' \in [Requests -> Nat]
  <2>1. runs' = runs \/ runs' = [runs EXCEPT ![t] = @ + 1]
    BY DEF Forward, Resolve, FailFast, NoHandshake, LockHandshake, Recheck, Post, Rejects, Unknown,
        Runs, Rediscover, RediscoverNone, Handshake, HandshakeRejected, Stale, Refused, Lost,
        Failed, Relay
  <2> QED
    BY <2>1 DEF ProxyTypeOK
<1>7. calm' \in [Requests -> BOOLEAN]
  <2>1. calm' = calm \/ calm' = Marred
    BY DEF Forward, Resolve, FailFast, NoHandshake, LockHandshake, Recheck, Post, Rejects, Unknown,
        Runs, Rediscover, RediscoverNone, Handshake, HandshakeRejected, Stale, Refused, Lost,
        Failed, Relay, Disturbed
  <2> QED
    BY <2>1, MarredType DEF ProxyTypeOK
<1> QED
  BY <1>1, <1>2, <1>3, <1>4, <1>5, <1>6, <1>7

-----------------------------------------------------------------------------
(* Type correctness.                                                         *)

(* Initially the types hold. *)
LEMMA InitTypes == ProxyAssumption /\ Init => ProxyTypeOK
<1> SUFFICES ASSUME ProxyAssumption, Init PROVE ProxyTypeOK
  OBVIOUS
<1>1. Idle \in Tasks
  <2>1. Idle \in [pc : {"idle"}]
    BY DEF Idle
  <2> QED
    BY <2>1, Zenon DEF Tasks
<1>2. task \in [Requests -> Tasks]
  BY <1>1 DEF Init
<1>3. /\ calm \in [Requests -> BOOLEAN] /\ told \in BOOLEAN
      /\ runs \in [Requests -> Nat] /\ shake \in Requests \cup {NoTask}
  BY DEF Init
<1>4. bridge \in [sid : Nat \X Nat, init : BOOLEAN, stateless : BOOLEAN, up : BOOLEAN,
                 ready : BOOLEAN]
  BY NoSessionType DEF Init
<1>5. app \in [up : BOOLEAN, launch : Nat, minted : Nat,
              transport : {"stateful", "stateless", "backfilled"}]
  <2>1. PICK x \in {"stateful", "stateless", "backfilled"} :
            app = [up |-> FALSE, launch |-> 0, minted |-> 0, transport |-> x]
    BY Zenon DEF Init
  <2> QED
    BY <2>1
<1> QED
  BY <1>2, <1>3, <1>4, <1>5 DEF Init, ProxyTypeOK

(* Every step keeps the types. *)
LEMMA NextTypes == ProxyAssumption /\ ProxyTypeOK /\ [Next]_vars => ProxyTypeOK'
<1> SUFFICES ASSUME ProxyAssumption, ProxyTypeOK, [Next]_vars PROVE ProxyTypeOK'
  OBVIOUS
<1>1. CASE Start
  <2>1. app.launch \in Nat /\ app.transport \in {"stateful", "stateless", "backfilled"}
    BY DEF ProxyTypeOK
  <2>2. app' = [up |-> TRUE, launch |-> app.launch + 1, minted |-> 0, transport |-> app.transport]
    BY <1>1 DEF ProxyTypeOK, Start
  <2>3. app' \in Apps
    BY <2>1, <2>2 DEF Apps
  <2> QED
    BY <1>1, <2>3 DEF ProxyTypeOK, Start, Apps
<1>2. CASE Stop
  BY <1>2 DEF ProxyTypeOK, Stop, Marred
<1>3. CASE Initialize \/ StoreReady
  BY <1>3 DEF ProxyTypeOK, Initialize, StoreReady
<1>4. CASE LoadUp
  BY <1>4 DEF ProxyTypeOK, LoadUp, Announced
<1>5. ASSUME NEW r \in Requests, Begin(r) PROVE ProxyTypeOK'
  <2>1. OnlyTask(r)
    <3>1. [pc |-> "scan", attempt |-> 0] \in Tasks /\ [pc |-> "done", reply |-> "busy"] \in Tasks
      BY MakeTasks, NoSessionType
    <3>2. PICK x \in Tasks : task' = [task EXCEPT ![r] = x]
      BY <1>5, <3>1 DEF Begin
    <3> QED
      BY <3>2, Replaced
  <2>2. calm' \in [Requests -> BOOLEAN]
    BY <1>5 DEF ProxyTypeOK, Begin
  <2> QED
    BY <1>5, <2>1, <2>2 DEF ProxyTypeOK, Begin, OnlyTask
<1>6. ASSUME NEW t \in Requests, Forward(t) PROVE ProxyTypeOK'
  BY <1>6, ForwardEffect, ForwardBridge DEF ProxyTypeOK, OnlyTask, SameClient, Bridges, Apps
<1>7. CASE PollScan
  <2>1. \/ misses' = misses
        \/ misses' = [misses EXCEPT !.scans = @ + 1]
    BY <1>7 DEF PollScan, ScanMisses
  <2>2. calm' = calm \/ calm' = Marred
    BY <1>7 DEF PollScan, Disturbed
  <2>3. poller' \in {"found", "missed"}
    BY <1>7 DEF PollScan
  <2>4. calm' \in [Requests -> BOOLEAN]
    BY <2>2, MarredType DEF ProxyTypeOK
  <2> QED
    BY <1>7, <2>1, <2>3, <2>4 DEF ProxyTypeOK, PollScan
<1>8. CASE PollDown
  BY <1>8 DEF ProxyTypeOK, PollDown, NoSession
<1>9. CASE PollUp
  BY <1>9 DEF ProxyTypeOK, PollUp
<1>10. CASE PollAnnounce
  BY <1>10 DEF ProxyTypeOK, PollAnnounce, Announced
<1>11. CASE UNCHANGED vars
  BY <1>11 DEF ProxyTypeOK, vars
<1> QED
  BY <1>1, <1>2, <1>3, <1>4, <1>5, <1>6, <1>7, <1>8, <1>9, <1>10, <1>11 DEF Next, Poller

-----------------------------------------------------------------------------
(* A tool call runs at most once: until it is sent it has not run, and once it *)
(* has run it is never sent again.                                             *)

OnceFor(r) ==
    /\ runs[r] <= 1
    /\ task[r].pc \notin {"ran", "done"} => runs[r] = 0
    /\ task[r].pc = "done" /\ task[r].reply \in {"unreachable", "busy"} => runs[r] = 0

Once == \A r \in Calls : OnceFor(r)

(* Initially no call has run. *)
LEMMA InitOnce == Init => Once
BY DEF Init, Once, OnceFor, Idle, Requests

(* No step lets a call run a second time. *)
LEMMA NextOnce == ProxyAssumption /\ ProxyTypeOK /\ Once /\ [Next]_vars => Once'
<1> SUFFICES ASSUME ProxyAssumption, ProxyTypeOK, Once, [Next]_vars, NEW r \in Calls
             PROVE  OnceFor(r)'
  BY DEF Once
<1>r. r \in Requests /\ runs[r] \in Nat /\ OnceFor(r)
  BY DEF Requests, ProxyTypeOK, Once
<1>1. CASE task'[r] = task[r] /\ runs' = runs
  BY <1>1, <1>r DEF OnceFor
<1>2. ASSUME NEW q \in Requests, Begin(q) PROVE OnceFor(r)'
  <2>1. CASE q # r
    <3>1. task'[r] = task[r] /\ runs' = runs
      BY <1>2, <1>r, <2>1 DEF Begin, ProxyTypeOK
    <3> QED
      BY <3>1, <1>1
  <2>2. CASE q = r
    <3>1. runs[r] = 0 /\ runs' = runs
      BY <1>2, <1>r, <2>2 DEF Begin, OnceFor, Idle
    <3> QED
      BY <3>1 DEF OnceFor
  <2> QED
    BY <2>1, <2>2
<1>3. ASSUME NEW t \in Requests, Forward(t) PROVE OnceFor(r)'
  <2>0. OnlyTask(t) /\ task[t].pc \notin {"idle", "done"}
    BY <1>3, ForwardEffect
  <2>1. CASE t # r
    <3>1. task'[r] = task[r]
      BY <1>r, <2>0, <2>1 DEF OnlyTask
    <3>2. runs' = runs \/ runs' = [runs EXCEPT ![t] = @ + 1]
      BY <1>3
      DEF Forward, Resolve, FailFast, NoHandshake, LockHandshake, Recheck, Post, Rejects, Unknown,
        Runs, Rediscover, RediscoverNone, Handshake, HandshakeRejected, Stale, Refused, Lost,
        Failed, Relay
    <3>3. runs'[r] = runs[r]
      BY <1>r, <2>1, <3>2 DEF ProxyTypeOK
    <3> QED
      BY <1>r, <3>1, <3>3 DEF OnceFor
  <2>2. CASE t = r /\ task[r].pc # "ran" /\ runs' = runs
    BY <1>r, <2>0, <2>2 DEF OnceFor
  <2>3. CASE t = r /\ Runs(r)
    <3>1. task'[r].pc = "ran"
      <4>1. task[r].pc = "sent" /\ Goto(r, "ran")
        BY <2>3 DEF Runs, At
      <4>2. task'[r] = [pc |-> "ran", attempt |-> task[r].attempt, launch |-> task[r].launch,
                       sid |-> task[r].sid]
        BY <1>r, <4>1, GotoEffect
      <4> QED
        BY <4>2
    <3>2. runs[r] = 0 /\ runs'[r] = runs[r] + 1
      BY <1>r, <2>3 DEF Runs, At, OnceFor, ProxyTypeOK
    <3> QED
      BY <3>1, <3>2 DEF OnceFor
  <2>4. CASE t = r /\ Relay(r)
    <3>1. runs' = runs /\ task'[r].pc = "done" /\ task'[r].reply \in {"answer", "unanswered"}
      BY <1>r, <2>4, ReplyEffect DEF Relay, Replies
    <3> QED
      BY <1>r, <3>1 DEF OnceFor
  <2>5. CASE t = r /\ Lost(r) /\ task[r].pc = "ran"
    <3>1. runs' = runs /\ Reply(r, "may have run")
      BY <2>5 DEF Lost, Failed, MayReplay
    <3>2. task'[r].pc = "done" /\ task'[r].reply = "may have run"
      BY <1>r, <3>1, ReplyEffect DEF Replies
    <3> QED
      BY <1>r, <3>1, <3>2 DEF OnceFor
  <2> QED
    BY <1>3, <2>1, <2>2, <2>3, <2>4, <2>5
    DEF Forward, Resolve, FailFast, NoHandshake, LockHandshake, Recheck, Post, Rejects, Unknown,
        Rediscover, RediscoverNone, Handshake, HandshakeRejected, Stale, Refused, Lost,
        Failed, At
<1> QED
  BY <1>1, <1>2, <1>3
  DEF Next, Start, Stop, Initialize, StoreReady, LoadUp, Poller, PollScan, PollDown, PollUp,
      PollAnnounce, vars

(* A tool call takes effect at most once, whatever restarts, lost replies, stale sessions
   and retries it meets, and one reported as not reachable or refused has not run
   (may_replay, forward_with_retries).                                                    *)
THEOREM CallsAreSafeAlways == Spec => []CallsAreSafe
<1>1. Init => ProxyTypeOK /\ Once
  BY ProxyAssumption, InitTypes, InitOnce
<1>2. ProxyTypeOK /\ Once /\ [Next]_vars => (ProxyTypeOK /\ Once)'
  BY ProxyAssumption, NextTypes, NextOnce
<1>3. ProxyTypeOK /\ Once => CallsAreSafe
  BY DEF Once, OnceFor, CallsAreSafe, CallsRunAtMostOnce, UnreachableNeverRan
<1> QED
  BY <1>1, <1>2, <1>3, PTL DEF Spec

-----------------------------------------------------------------------------
(* The client hears of the application, and no request is forwarded before it has *)
(* initialized.                                                                   *)

Heard ==
    /\ ToldOfTheApp
    /\ client.pc \in {"storing", "ready"} => bridge.ready
    /\ client.pc # "new" => bridge.init
    /\ \A r \in Requests : task[r].pc # "idle" => client.pc = "ready"

(* Initially there is nothing to announce. *)
LEMMA InitHeard == Init => Heard
BY DEF Init, Heard, ToldOfTheApp, Idle

(* Every step keeps the announcement owed or made. *)
LEMMA NextHeard == ProxyAssumption /\ ProxyTypeOK /\ Heard /\ [Next]_vars => Heard'
<1> SUFFICES ASSUME ProxyAssumption, ProxyTypeOK, Heard, [Next]_vars PROVE Heard'
  OBVIOUS
<1>1. CASE Start \/ Stop \/ UNCHANGED vars
  BY <1>1 DEF Heard, ToldOfTheApp, Start, Stop, vars
<1>2. CASE Initialize
  BY <1>2 DEF Heard, ToldOfTheApp, Initialize, ProxyTypeOK
<1>3. CASE StoreReady
  BY <1>3 DEF Heard, ToldOfTheApp, StoreReady, ProxyTypeOK
<1>4. CASE LoadUp
  BY <1>4 DEF Heard, ToldOfTheApp, LoadUp, Announced, ProxyTypeOK
<1>5. ASSUME NEW r \in Requests, Begin(r) PROVE Heard'
  BY <1>5 DEF Heard, ToldOfTheApp, Begin, ProxyTypeOK
<1>6. ASSUME NEW t \in Requests, Forward(t) PROVE Heard'
  BY <1>6, ForwardEffect, ForwardBridge DEF Heard, ToldOfTheApp, OnlyTask, SameClient
<1>7. CASE PollScan
  BY <1>7 DEF Heard, ToldOfTheApp, PollScan
<1>8. CASE PollDown
  BY <1>8 DEF Heard, ToldOfTheApp, PollDown, ProxyTypeOK
<1>9. CASE PollUp
  BY <1>9 DEF Heard, ToldOfTheApp, PollUp, ProxyTypeOK
<1>10. CASE PollAnnounce
  BY <1>10 DEF Heard, ToldOfTheApp, PollAnnounce, Announced, ProxyTypeOK
<1> QED
  BY <1>1, <1>2, <1>3, <1>4, <1>5, <1>6, <1>7, <1>8, <1>9, <1>10 DEF Next, Poller

-----------------------------------------------------------------------------
(* Sessions: a stateful backend's sessions are of the launches so far, and a task *)
(* that was told its session is unknown holds one that no later launch knows.     *)

SidOk(sid) == app.transport = "stateful" => sid[1] <= app.launch

Sessions ==
    /\ app.up => app.launch >= 1
    /\ SidOk(bridge.sid)
    /\ \A r \in Requests :
          /\ task[r].pc \in {"sent", "stale"} => SidOk(task[r].sid)
          /\ task[r].pc = "stale" => ~Valid(task[r].sid)

(* Which session a step of forward_with_retries puts where. *)
LEMMA ForwardSid ==
    ASSUME ProxyAssumption, ProxyTypeOK, NEW t \in Requests, Forward(t)
    PROVE  /\ task'[t].pc = "sent" => task'[t].sid = bridge.sid
           /\ task'[t].pc = "stale" =>
                task[t].pc = "sent" /\ ~Valid(task[t].sid) /\ task'[t].sid = task[t].sid
           /\ app.transport = "stateful" => bridge'.sid \in {bridge.sid, NoSession, Offered}
<1>0. task[t] \in Tasks /\ bridge \in Bridges /\ task \in [Requests -> Tasks]
  BY DEF ProxyTypeOK, Bridges
<1>1. CASE Resolve(t) \/ Rediscover(t)
  <2>1. bridge' = bridge
    BY <1>1 DEF Resolve, Rediscover
  <2>2. task'[t] = [pc |-> "session", attempt |-> task[t].attempt, launch |-> app.launch]
    BY <1>0, <1>1 DEF Resolve, Rediscover
  <2> QED
    BY <2>1, <2>2
<1>2. CASE FailFast(t) \/ Rejects(t)
  <2>1. bridge' = bridge /\ task'[t].pc = "done"
    BY <1>2, ReplyEffect DEF FailFast, Rejects, Replies
  <2> QED
    BY <2>1
<1>3. CASE NoHandshake(t) \/ LockHandshake(t) \/ Recheck(t)
  <2>1. bridge' = bridge /\ task[t].pc \in {"session", "shake"}
    BY <1>3 DEF NoHandshake, LockHandshake, Recheck, At
  <2>2. Goto(t, "post") \/ Goto(t, "shake")
    BY <1>3 DEF NoHandshake, LockHandshake, Recheck
  <2>3. PICK p \in {"post", "shake"} : Goto(t, p)
    BY <2>2
  <2>4. task'[t] = [pc |-> p, attempt |-> task[t].attempt, launch |-> task[t].launch]
    BY <2>1, <2>3, GotoEffect
  <2> QED
    BY <2>1, <2>4
<1>4. CASE Handshake(t) \/ HandshakeRejected(t)
  <2>1. task[t].pc = "shake" /\ Goto(t, "post")
    BY <1>4 DEF Handshake, HandshakeRejected, At
  <2>2. task'[t] = [pc |-> "post", attempt |-> task[t].attempt, launch |-> task[t].launch]
    BY <2>1, GotoEffect
  <2>3. app.transport = "stateful" => bridge' = Adopted(Offered) \/ bridge' = Adopted(NoSession)
    BY <1>4 DEF Handshake, HandshakeRejected
  <2>4. \A s \in Nat \X Nat : Adopted(s).sid \in {bridge.sid, s}
    BY <1>0, SidChange DEF Adopted
  <2>5. Adopted(Offered).sid \in {bridge.sid, Offered} /\ Adopted(NoSession).sid \in {bridge.sid, NoSession}
    BY <2>4, OfferType, NoSessionType
  <2> QED
    BY <2>2, <2>3, <2>5
<1>5. CASE Post(t)
  <2>1. bridge' = bridge
    BY <1>5 DEF Post
  <2>2. task'[t] = [pc |-> "sent", attempt |-> task[t].attempt, launch |-> task[t].launch,
                   sid |-> bridge.sid]
    BY <1>0, <1>5 DEF Post
  <2> QED
    BY <2>1, <2>2
<1>6. CASE Unknown(t)
  <2>1. bridge' = bridge /\ task[t].pc = "sent" /\ ~Valid(task[t].sid) /\ Goto(t, "stale")
    BY <1>6 DEF Unknown, At
  <2>2. task'[t] = [pc |-> "stale", attempt |-> task[t].attempt, launch |-> task[t].launch,
                   sid |-> task[t].sid]
    BY <2>1, GotoEffect
  <2> QED
    BY <2>1, <2>2
<1>7. CASE Runs(t)
  <2>1. bridge' = bridge /\ task[t].pc = "sent" /\ Goto(t, "ran")
    BY <1>7 DEF Runs, At
  <2>2. task'[t] = [pc |-> "ran", attempt |-> task[t].attempt, launch |-> task[t].launch,
                   sid |-> task[t].sid]
    BY <2>1, GotoEffect
  <2> QED
    BY <2>1, <2>2
<1>8. CASE Stale(t) \/ Refused(t) \/ Lost(t)
  <2>1. /\ task[t].pc \in {"sent", "stale", "ran"}
        /\ Retry(t) \/ Reply(t, "may have run")
        /\ bridge' = [bridge EXCEPT !.sid = NoSession] \/ bridge' = bridge
    BY <1>8 DEF Stale, Refused, Lost, Failed, Forgotten, At
  <2>2. task'[t].pc \in {"again", "done"}
    BY <2>1, RetryEffect, ReplyEffect DEF Replies
  <2>3. bridge'.sid \in {bridge.sid, NoSession}
    <3>1. [bridge EXCEPT !.sid = NoSession].sid = NoSession
      BY <1>0, SidChange, NoSessionType
    <3> QED
      BY <2>1, <3>1
  <2> QED
    BY <2>2, <2>3
<1>9. CASE Relay(t)
  <2>1. task'[t].pc = "done"
    BY <1>9, ReplyEffect DEF Relay, Replies
  <2>2. app.transport = "stateful" => bridge' = bridge
    BY <1>9 DEF Relay
  <2> QED
    BY <2>1, <2>2
<1>10. CASE RediscoverNone(t)
  <2>1. bridge' = bridge
    BY <1>10 DEF RediscoverNone
  <2>2. CASE task' = [task EXCEPT ![t] = [pc |-> "session", attempt |-> task[t].attempt,
                                          launch |-> task[t].launch]]
    <3>1. task'[t] = [pc |-> "session", attempt |-> task[t].attempt, launch |-> task[t].launch]
      BY <1>0, <2>2
    <3> QED
      BY <2>1, <3>1
  <2>3. CASE Reply(t, "unreachable")
    BY <2>1, <2>3, ReplyEffect DEF Replies
  <2> QED
    BY <1>10, <2>2, <2>3 DEF RediscoverNone
<1> QED
  BY <1>1, <1>2, <1>3, <1>4, <1>5, <1>6, <1>7, <1>8, <1>9, <1>10 DEF Forward

(* Initially no session is held. *)
LEMMA InitSessions == Init => Sessions
<1> SUFFICES ASSUME Init PROVE Sessions
  OBVIOUS
<1>1. app.up = FALSE /\ app.launch = 0 /\ bridge.sid[1] = 0
  BY DEF Init, NoSession
<1>2. \A r \in Requests : task[r].pc = "idle"
  BY DEF Init, Idle
<1> QED
  BY <1>1, <1>2 DEF Sessions, SidOk

(* Every session held was given out by some launch up to this one. *)
LEMMA NextSessions == ProxyAssumption /\ ProxyTypeOK /\ Sessions /\ [Next]_vars => Sessions'
<1> SUFFICES ASSUME ProxyAssumption, ProxyTypeOK, Sessions, [Next]_vars PROVE Sessions'
  OBVIOUS
<1>t. /\ app.launch \in Nat /\ bridge.sid \in Nat \X Nat
      /\ \A r \in Requests : task[r].pc \in {"sent", "stale"} => task[r].sid \in Nat \X Nat
  <2>1. \A r \in Requests : task[r] \in Tasks
    BY DEF ProxyTypeOK
  <2> QED
    BY <2>1, TaskShapes DEF ProxyTypeOK
<1>1. CASE Start
  <2>1. app'.launch = app.launch + 1 /\ app'.transport = app.transport /\ app'.up = TRUE
    BY <1>1 DEF Start, ProxyTypeOK
  <2>2. bridge' = bridge /\ task' = task
    BY <1>1 DEF Start
  <2>3. \A s \in Nat \X Nat : s[1] \in Nat
    OBVIOUS
  <2>4. SidOk(bridge.sid)'
    BY <1>t, <2>1, <2>2, <2>3 DEF Sessions, SidOk
  <2>5. ASSUME NEW r \in Requests, task[r].pc \in {"sent", "stale"} PROVE SidOk(task[r].sid)'
    BY <1>t, <2>1, <2>2, <2>3, <2>5 DEF Sessions, SidOk
  <2>6. ASSUME NEW r \in Requests, task[r].pc = "stale" PROVE ~Valid(task[r].sid)'
    BY <1>t, <2>1, <2>2, <2>3, <2>6 DEF Sessions, SidOk, Valid, NoSession
  <2> QED
    BY <1>t, <2>1, <2>2, <2>4, <2>5, <2>6 DEF Sessions
<1>2. CASE Stop
  BY <1>2 DEF Sessions, SidOk, Valid, Stop, ProxyTypeOK
<1>3. CASE UNCHANGED <<app, task>> /\ bridge'.sid \in {bridge.sid, NoSession}
  BY <1>t, <1>3 DEF Sessions, SidOk, Valid, NoSession
<1>4. CASE Initialize \/ StoreReady \/ LoadUp \/ PollScan \/ PollDown \/ PollUp \/ PollAnnounce
  <2>1. UNCHANGED <<app, task>> /\ bridge'.sid \in {bridge.sid, NoSession}
    BY <1>4 DEF Initialize, StoreReady, LoadUp, PollScan, PollDown, PollUp, PollAnnounce, ProxyTypeOK
  <2> QED
    BY <1>3, <2>1
<1>5. ASSUME NEW q \in Requests, Begin(q) PROVE Sessions'
  <2>1. UNCHANGED <<app, bridge>>
    BY <1>5 DEF Begin
  <2>2. /\ task'[q].pc \in {"scan", "done"}
        /\ \A r \in Requests \ {q} : task'[r] = task[r]
    BY <1>5 DEF Begin, ProxyTypeOK
  <2> QED
    BY <2>1, <2>2 DEF Sessions, SidOk, Valid
<1>6. ASSUME NEW t \in Requests, Forward(t) PROVE Sessions'
  <2>1. app'.up = app.up /\ app'.launch = app.launch /\ app'.transport = app.transport
    BY <1>6, ForwardBridge
  <2>2. \A r \in Requests \ {t} : task'[r] = task[r]
    BY <1>6, ForwardEffect DEF OnlyTask
  <2>3. /\ task'[t].pc = "sent" => task'[t].sid = bridge.sid
        /\ task'[t].pc = "stale" =>
             task[t].pc = "sent" /\ ~Valid(task[t].sid) /\ task'[t].sid = task[t].sid
        /\ app.transport = "stateful" => bridge'.sid \in {bridge.sid, NoSession, Offered}
    BY <1>6, ForwardSid
  <2>4. app.transport = "stateful" => Offered[1] = app.launch /\ NoSession[1] = 0
    BY DEF Offered, NoSession
  <2>5. SidOk(bridge.sid)'
    BY <1>t, <2>1, <2>3, <2>4 DEF Sessions, SidOk
  <2>6. ASSUME NEW r \in Requests
        PROVE  /\ task'[r].pc \in {"sent", "stale"} => SidOk(task[r].sid)'
               /\ task'[r].pc = "stale" => ~Valid(task[r].sid)'
    BY <1>t, <2>1, <2>2, <2>3 DEF Sessions, SidOk, Valid
  <2> QED
    BY <2>1, <2>5, <2>6 DEF Sessions
<1>7. CASE UNCHANGED vars
  BY <1>7 DEF vars, Sessions, SidOk, Valid
<1> QED
  BY <1>1, <1>2, <1>4, <1>5, <1>6, <1>7 DEF Next, Poller

-----------------------------------------------------------------------------
(* A request of a steady application is answered.  Each round it loses is paid for *)
(* by one of: the poller about to clear the session, a session held that the       *)
(* application does not know, a POST of its own that carries one it will refuse.   *)
(* Two rounds can be lost so, and the third succeeds.                              *)

One(b) == IF b THEN 1 ELSE 0

Pending == One(poller = "missed")
Held == One(bridge.sid # NoSession /\ ~Valid(bridge.sid))
Own(r) ==
    IF task[r].pc = "post" THEN One(bridge.sid = NoSession /\ ~Valid(NoSession))
    ELSE IF task[r].pc \in {"sent", "stale"}
         THEN One(~Valid(task[r].sid) /\ (bridge.sid # task[r].sid \/ task[r].sid = NoSession))
         ELSE 0

SteadyFor(r) ==
    task[r].pc \notin {"idle", "done"} /\ calm[r] =>
        /\ app.up /\ ~Misjudged
        /\ task[r].pc \notin {"scan", "ran"} => task[r].launch = app.launch
        /\ task[r].pc # "ran" => task[r].attempt + Pending + Held + Own(r) <= 2

AnsweredFor(r) ==
    task[r].pc = "done" /\ task[r].reply \in {"unreachable", "fallback"} => ~calm[r]

Steady == \A r \in Requests : SteadyFor(r) /\ AnsweredFor(r)

(* The launch, its transport and what it knows stay. *)
SameLaunch == app'.up = app.up /\ app'.launch = app.launch /\ app'.transport = app.transport

(* A request under way counts its rounds. *)
LEMMA AttemptType ==
    ASSUME ProxyTypeOK, NEW r \in Requests, task[r].pc \notin {"idle", "done"}
    PROVE  task[r].attempt \in Nat
<1>1. task[r] \in Tasks
  BY DEF ProxyTypeOK
<1> QED
  BY <1>1, TaskShapes

(* Each way of losing a round is counted at most once. *)
LEMMA Ones == /\ Pending \in {0, 1} /\ Held \in {0, 1} /\ \A r : Own(r) \in {0, 1}
BY DEF Pending, Held, Own, One

(* What the others do to the shared session never adds to what a request may lose. *)
LEMMA SteadyOther ==
    ASSUME ProxyTypeOK, NEW r \in Requests, SteadyFor(r), AnsweredFor(r),
           task'[r] = task[r], SameLaunch, calm'[r] => calm[r],
           calm'[r] /\ ~Misjudged /\ app.up =>
             /\ ~Misjudged'
             /\ \/ bridge'.sid = bridge.sid /\ (poller' = poller \/ poller' # "missed")
                \/ bridge.sid = NoSession /\ Valid(bridge.sid)' /\ poller' = poller
                \/ bridge'.sid = NoSession /\ ~Valid(bridge.sid) /\ poller' = poller
                \/ bridge'.sid = NoSession /\ poller = "missed" /\ poller' = "sleep"
                \/ app.transport # "stateful" /\ poller' = poller
    PROVE  SteadyFor(r)' /\ AnsweredFor(r)'
<1>1. AnsweredFor(r)'
  BY DEF AnsweredFor
<1>2. SUFFICES ASSUME task[r].pc \notin {"idle", "done"}, calm'[r]
               PROVE  /\ app'.up /\ ~Misjudged'
                      /\ task[r].pc \notin {"scan", "ran"} => task[r].launch = app'.launch
                      /\ task[r].pc # "ran" => task[r].attempt + Pending' + Held' + Own(r)' <= 2
  BY <1>1 DEF SteadyFor
<1>3. /\ app.up /\ ~Misjudged
      /\ task[r].pc \notin {"scan", "ran"} => task[r].launch = app.launch
      /\ task[r].pc # "ran" => task[r].attempt + Pending + Held + Own(r) <= 2
  BY <1>2 DEF SteadyFor
<1>4. app'.up /\ ~Misjudged' /\ (task[r].pc \notin {"scan", "ran"} => task[r].launch = app'.launch)
  BY <1>2, <1>3 DEF SameLaunch
<1>5. \A s : Valid(s) <=> (app'.transport # "stateful" \/ (s # NoSession /\ s[1] = app'.launch))
  BY DEF SameLaunch, Valid
<1>6. Pending' + Held' + Own(r)' <= Pending + Held + Own(r)
  <2>1. CASE bridge'.sid = bridge.sid /\ (poller' = poller \/ poller' # "missed")
    BY <1>5, <2>1 DEF Pending, Held, Own, One, Valid
  <2>2. CASE bridge.sid = NoSession /\ Valid(bridge.sid)' /\ poller' = poller
    BY <1>5, <2>2 DEF Pending, Held, Own, One, Valid
  <2>3. CASE bridge'.sid = NoSession /\ ~Valid(bridge.sid) /\ poller' = poller
    BY <1>5, <2>3 DEF Pending, Held, Own, One, Valid
  <2>4. CASE bridge'.sid = NoSession /\ poller = "missed" /\ poller' = "sleep"
    BY <1>5, <2>4 DEF Pending, Held, Own, One, Valid
  <2>5. CASE app.transport # "stateful" /\ poller' = poller
    BY <2>5 DEF Pending, Held, Own, One, Valid, SameLaunch
  <2> QED
    BY <1>2, <1>3, <2>1, <2>2, <2>3, <2>4, <2>5
<1>7. task[r].attempt \in Nat
  BY <1>2, AttemptType
<1> QED
  <2>1. Pending' \in {0, 1} /\ Held' \in {0, 1} /\ Own(r)' \in {0, 1}
    BY DEF Pending, Held, Own, One
  <2>2. Pending \in {0, 1} /\ Held \in {0, 1} /\ Own(r) \in {0, 1}
    BY Ones
  <2>3. task[r].pc # "ran" => task[r].attempt + Pending' + Held' + Own(r)' <= 2
    BY <1>3, <1>6, <1>7, <2>1, <2>2
  <2> QED
    BY <1>4, <2>3

(* What a step of forward_with_retries does to the session the requests share. *)
LEMMA ForwardShared ==
    ASSUME ProxyAssumption, ProxyTypeOK, Sessions, NEW t \in Requests, Forward(t),
           app.up, ~Misjudged
    PROVE  \/ calm' = Marred
           \/ /\ calm' = calm /\ ~Misjudged'
              /\ \/ bridge'.sid = bridge.sid
                 \/ bridge.sid = NoSession /\ Valid(bridge.sid)'
                 \/ bridge'.sid = NoSession /\ ~Valid(bridge.sid)
                 \/ app.transport # "stateful"
<1>0. bridge \in Bridges /\ app.launch \in Nat /\ app.launch >= 1
  BY DEF ProxyTypeOK, Bridges, Sessions
<1>a. app'.up = app.up /\ app'.launch = app.launch /\ app'.transport = app.transport
  BY ForwardBridge
<1>1. CASE calm' = calm /\ bridge' = bridge
  BY <1>1, <1>a DEF Misjudged
<1>2. CASE Handshake(t)
  <2>1. calm' = calm /\ bridge.sid = NoSession /\ bridge.stateless = FALSE /\ bridge' = Adopted(Offered)
    BY <1>0, <1>2 DEF Handshake, Needed, Bridges
  <2>2. CASE app.transport = "stateless"
    <3>1. Offered = NoSession
      BY <2>2 DEF Offered
    <3>2. bridge'.sid = bridge.sid
      BY <1>0, <2>1, <3>1, SidChange, NoSessionType DEF Adopted
    <3> QED
      BY <1>a, <2>1, <2>2, <3>2 DEF Misjudged
  <2>3. CASE app.transport # "stateless"
    <3>1. Offered # NoSession
      BY <1>0, <2>3, OfferType DEF Offered, ProxyTypeOK, NoSession
    <3>2. bridge' = [bridge EXCEPT !.sid = Offered]
      BY <2>1, <3>1 DEF Adopted
    <3>3. bridge'.sid = Offered /\ bridge'.stateless = FALSE
      BY <1>0, <2>1, <3>2, OfferType, SidChange
    <3>4. app.transport = "stateful" => Valid(bridge.sid)'
      BY <1>a, <3>1, <3>3 DEF Valid, Offered
    <3> QED
      BY <2>1, <3>3, <3>4 DEF Misjudged
  <2> QED
    BY <2>2, <2>3
<1>3. CASE Stale(t) \/ Refused(t)
  <2>1. CASE calm' = Marred
    BY <2>1
  <2>2. CASE calm' = calm /\ ~Valid(task[t].sid)
    <3>1. bridge' = Forgotten(t)
      BY <1>3 DEF Stale, Refused, Failed
    <3>2. CASE bridge.sid = task[t].sid
      <4>1. bridge' = [bridge EXCEPT !.sid = NoSession]
        BY <3>1, <3>2 DEF Forgotten
      <4>2. bridge'.sid = NoSession /\ bridge'.stateless = bridge.stateless
        BY <1>0, <4>1, SidChange, NoSessionType
      <4> QED
        BY <1>a, <2>2, <3>2, <4>2 DEF Misjudged
    <3>3. CASE bridge.sid # task[t].sid
      BY <1>1, <2>2, <3>1, <3>3 DEF Forgotten
    <3> QED
      BY <3>2, <3>3
  <2> QED
    BY <1>3, <2>1, <2>2 DEF Stale, Refused, At, Sessions
<1>4. CASE Relay(t)
  <2>1. calm' = calm
    BY <1>4 DEF Relay
  <2>2. CASE app.transport = "backfilled"
    <3>1. bridge' = [bridge EXCEPT !.sid = Constant]
      BY <1>4, <2>2 DEF Relay
    <3>2. bridge'.stateless = bridge.stateless
      BY <1>0, <3>1, OfferType, SidChange
    <3> QED
      BY <1>a, <2>1, <2>2, <3>2 DEF Misjudged
  <2>3. CASE app.transport # "backfilled"
    BY <1>1, <1>4, <2>1, <2>3 DEF Relay
  <2> QED
    BY <2>2, <2>3
<1>5. CASE Lost(t) \/ HandshakeRejected(t) \/ FailFast(t) \/ RediscoverNone(t)
  BY <1>5 DEF Lost, HandshakeRejected, FailFast, RediscoverNone, Disturbed
<1> QED
  BY <1>1, <1>2, <1>3, <1>4, <1>5
  DEF Forward, Resolve, NoHandshake, LockHandshake, Recheck, Post, Rejects, Unknown, Runs, Rediscover

(* The request's own steps: a round is only lost by spending what the sum counts. *)
LEMMA SteadySelf ==
    ASSUME ProxyAssumption, MaxRetries >= 3, ProxyTypeOK, Heard, Sessions, NEW r \in Requests,
           SteadyFor(r), Forward(r)
    PROVE  SteadyFor(r)' /\ AnsweredFor(r)'
<1>0. /\ task[r].pc \notin {"idle", "done"}
      /\ app'.up = app.up /\ app'.launch = app.launch /\ app'.transport = app.transport
      /\ poller' = poller
      /\ task[r] \in Tasks /\ task \in [Requests -> Tasks]
      /\ task[r].attempt \in Nat
      /\ MaxRetries \in Nat
  BY ForwardEffect, ForwardBridge, AttemptType DEF ProxyTypeOK, ProxyAssumption
<1>1. CASE calm'[r] = FALSE
  BY <1>1 DEF SteadyFor, AnsweredFor
<1>2. calm' = calm \/ calm'[r] = FALSE
  <2>1. calm' = calm \/ calm' = Marred
    BY DEF Forward, Resolve, FailFast, NoHandshake, LockHandshake, Recheck, Post, Rejects, Unknown,
        Runs, Rediscover, RediscoverNone, Handshake, HandshakeRejected, Stale, Refused, Lost,
        Failed, Relay, Disturbed
  <2> QED
    BY <2>1, MarredType
<1>3. SUFFICES ASSUME calm' = calm, calm[r] PROVE SteadyFor(r)' /\ AnsweredFor(r)'
  <2>1. calm[r] \in BOOLEAN
    BY DEF ProxyTypeOK
  <2> QED
    BY <1>1, <1>2, <1>3, <2>1
<1>4. /\ app.up /\ ~Misjudged
      /\ task[r].pc \notin {"scan", "ran"} => task[r].launch = app.launch
      /\ task[r].pc # "ran" => task[r].attempt + Pending + Held + Own(r) <= 2
  BY <1>0, <1>3 DEF SteadyFor
<1>5. calm' # Marred
  BY <1>3, MarredType
<1>6. ~Misjudged' /\ app'.up
  BY <1>0, <1>4, <1>5, ForwardShared
<1>7. Pending' = Pending /\ Pending \in {0, 1} /\ Held \in {0, 1} /\ Own(r) \in {0, 1}
  BY <1>0, Ones DEF Pending
<1>8. bridge.sid # NoSession \/ ~Needed => ~(bridge.sid = NoSession /\ ~Valid(NoSession))
  BY <1>4 DEF Needed, Misjudged, Valid
<1>9. \A s : Valid(s) <=> (app'.transport # "stateful" \/ (s # NoSession /\ s[1] = app'.launch))
  BY <1>0 DEF Valid
<1>10. CASE Resolve(r) \/ Rediscover(r)
  <2>1. bridge' = bridge /\ task[r].pc \in {"scan", "again"}
    BY <1>10 DEF Resolve, Rediscover, At
  <2>2. task'[r] = [pc |-> "session", attempt |-> task[r].attempt, launch |-> app.launch]
    BY <1>0, <1>10 DEF Resolve, Rediscover
  <2>3. task'[r].pc = "session" /\ task'[r].attempt = task[r].attempt /\ task'[r].launch = app.launch
    BY <2>2
  <2>4. Held' = Held /\ Own(r)' = 0 /\ Own(r) = 0
    BY <1>9, <2>1, <2>3 DEF Held, Own, One, Valid
  <2> QED
    BY <1>0, <1>4, <1>6, <1>7, <2>1, <2>3, <2>4 DEF SteadyFor, AnsweredFor
<1>11. CASE FailFast(r) \/ RediscoverNone(r) \/ Lost(r) \/ HandshakeRejected(r)
  BY <1>4, <1>5, <1>11 DEF FailFast, RediscoverNone, Lost, HandshakeRejected, Disturbed
<1>12. CASE Refused(r)
  BY <1>4, <1>12 DEF Refused, Gone, At
<1>13. CASE NoHandshake(r) \/ Recheck(r)
  <2>1. bridge' = bridge /\ task[r].pc \in {"session", "shake"} /\ Goto(r, "post")
    BY <1>13 DEF NoHandshake, Recheck, At
  <2>2. ~Needed
    BY <1>0, <1>4, <1>13, <2>1 DEF NoHandshake, Recheck, Gone, Heard, ProxyTypeOK
  <2>3. task'[r] = [pc |-> "post", attempt |-> task[r].attempt, launch |-> task[r].launch]
    BY <2>1, GotoEffect
  <2>4. task'[r].pc = "post" /\ task'[r].attempt = task[r].attempt /\ task'[r].launch = task[r].launch
    BY <2>3
  <2>5. Held' = Held /\ Own(r)' = 0 /\ Own(r) = 0
    BY <1>8, <1>9, <2>1, <2>2, <2>4 DEF Held, Own, One, Valid
  <2> QED
    BY <1>0, <1>4, <1>6, <1>7, <2>1, <2>4, <2>5 DEF SteadyFor, AnsweredFor
<1>14. CASE LockHandshake(r)
  <2>1. bridge' = bridge /\ task[r].pc = "session" /\ Goto(r, "shake")
    BY <1>14 DEF LockHandshake, At
  <2>3. task'[r] = [pc |-> "shake", attempt |-> task[r].attempt, launch |-> task[r].launch]
    BY <2>1, GotoEffect
  <2>4. task'[r].pc = "shake" /\ task'[r].attempt = task[r].attempt /\ task'[r].launch = task[r].launch
    BY <2>3
  <2>5. Held' = Held /\ Own(r)' = 0 /\ Own(r) = 0
    BY <1>9, <2>1, <2>4 DEF Held, Own, One, Valid
  <2> QED
    BY <1>0, <1>4, <1>6, <1>7, <2>1, <2>4, <2>5 DEF SteadyFor, AnsweredFor
<1>15. CASE Handshake(r)
  <2>1. bridge.sid = NoSession /\ task[r].pc = "shake" /\ Goto(r, "post")
    BY <1>15 DEF Handshake, Needed, At
  <2>3. task'[r] = [pc |-> "post", attempt |-> task[r].attempt, launch |-> task[r].launch]
    BY <2>1, GotoEffect
  <2>4. task'[r].pc = "post" /\ task'[r].attempt = task[r].attempt /\ task'[r].launch = task[r].launch
    BY <2>3
  <2>5. app.transport = "stateful" => bridge'.sid # NoSession /\ Valid(bridge.sid)'
    <3>1. app.transport = "stateful" => Offered # NoSession /\ Offered[1] = app.launch
      BY <1>4 DEF Offered, NoSession, Sessions, ProxyTypeOK
    <3>2. bridge' = Adopted(Offered) /\ bridge \in Bridges
      BY <1>15 DEF Handshake, ProxyTypeOK, Bridges
    <3>3. app.transport = "stateful" => bridge'.sid = Offered
      BY <3>1, <3>2, OfferType, SidChange DEF Adopted
    <3> QED
      BY <1>0, <3>1, <3>3 DEF Valid
  <2>6. Held' = 0 /\ Own(r)' = 0 /\ Own(r) = 0
    BY <1>0, <1>9, <2>1, <2>4, <2>5 DEF Held, Own, One, Valid
  <2> QED
    BY <1>0, <1>4, <1>6, <1>7, <2>1, <2>4, <2>6 DEF SteadyFor, AnsweredFor
<1>16. CASE Post(r)
  <2>1. bridge' = bridge /\ task[r].pc = "post"
    BY <1>16 DEF Post, At
  <2>2. task'[r] = [pc |-> "sent", attempt |-> task[r].attempt, launch |-> task[r].launch,
                   sid |-> bridge.sid]
    BY <1>0, <1>16 DEF Post
  <2>3. /\ task'[r].pc = "sent" /\ task'[r].attempt = task[r].attempt
        /\ task'[r].launch = task[r].launch /\ task'[r].sid = bridge.sid
    BY <2>2
  <2>4. Held' = Held /\ Own(r)' = Own(r)
    BY <1>9, <2>1, <2>3 DEF Held, Own, One, Valid
  <2> QED
    BY <1>0, <1>4, <1>6, <1>7, <2>1, <2>3, <2>4 DEF SteadyFor, AnsweredFor
<1>17. CASE Unknown(r)
  <2>1. bridge' = bridge /\ task[r].pc = "sent" /\ Goto(r, "stale")
    BY <1>17 DEF Unknown, At
  <2>2. task'[r] = [pc |-> "stale", attempt |-> task[r].attempt, launch |-> task[r].launch,
                   sid |-> task[r].sid]
    BY <2>1, GotoEffect
  <2>3. /\ task'[r].pc = "stale" /\ task'[r].attempt = task[r].attempt
        /\ task'[r].launch = task[r].launch /\ task'[r].sid = task[r].sid
    BY <2>2
  <2>4. Held' = Held /\ Own(r)' = Own(r)
    BY <1>9, <2>1, <2>3 DEF Held, Own, One, Valid
  <2> QED
    BY <1>0, <1>4, <1>6, <1>7, <2>1, <2>3, <2>4 DEF SteadyFor, AnsweredFor
<1>18. CASE Runs(r)
  <2>1. task[r].pc = "sent" /\ Goto(r, "ran")
    BY <1>18 DEF Runs, At
  <2>2. task'[r] = [pc |-> "ran", attempt |-> task[r].attempt, launch |-> task[r].launch,
                   sid |-> task[r].sid]
    BY <2>1, GotoEffect
  <2>3. task'[r].pc = "ran"
    BY <2>2
  <2> QED
    BY <1>6, <2>3 DEF SteadyFor, AnsweredFor
<1>19. CASE Rejects(r) \/ Relay(r)
  <2>1. PICK reply \in {"error", "answer", "unanswered"} : Reply(r, reply)
    BY <1>19 DEF Rejects, Relay
  <2>2. task'[r].pc = "done" /\ task'[r].reply = reply
    BY <2>1, ReplyEffect DEF Replies
  <2> QED
    BY <2>2 DEF SteadyFor, AnsweredFor
<1>20. CASE Stale(r)
  <2>1. task[r].pc = "stale" /\ Retry(r) /\ bridge' = Forgotten(r) /\ ~Valid(task[r].sid)
    BY <1>20 DEF Stale, At, Sessions
  <2>2. task[r].attempt + Pending + Held + Own(r) <= 2
    BY <1>4, <2>1
  <2>3. Held' + 1 <= Held + Own(r) /\ Held' \in {0, 1}
    <3>1. bridge.sid = task[r].sid => bridge'.sid = NoSession
      <4>1. bridge \in Bridges
        BY DEF ProxyTypeOK, Bridges
      <4> QED
        BY <2>1, <4>1, SidChange, NoSessionType DEF Forgotten
    <3>2. bridge.sid # task[r].sid => bridge'.sid = bridge.sid
      BY <2>1 DEF Forgotten
    <3> QED
      BY <1>9, <2>1, <3>1, <3>2 DEF Held, Own, One, Valid
  <2>4. task[r].attempt + 1 < MaxRetries
    BY <1>0, <1>7, <2>2, <2>3
  <2>5. /\ task'[r].pc = "again" /\ task'[r].attempt = task[r].attempt + 1
        /\ task'[r].launch = task[r].launch
    BY <2>1, <2>4, RetryEffect
  <2>6. Own(r)' = 0
    BY <2>5 DEF Own
  <2> QED
    BY <1>0, <1>4, <1>6, <1>7, <2>1, <2>2, <2>3, <2>5, <2>6 DEF SteadyFor, AnsweredFor
<1> QED
  BY <1>10, <1>11, <1>12, <1>13, <1>14, <1>15, <1>16, <1>17, <1>18, <1>19, <1>20 DEF Forward

(* Initially no request has lost anything. *)
LEMMA InitSteady == Init => Steady
BY DEF Init, Steady, SteadyFor, AnsweredFor, Idle

(* Every step keeps the bound on what a calm request may lose. *)
LEMMA NextSteady ==
    ASSUME ProxyAssumption, MaxRetries >= 3
    PROVE  ProxyTypeOK /\ Heard /\ Sessions /\ Steady /\ [Next]_vars => Steady'
<1> SUFFICES ASSUME ProxyTypeOK, Heard, Sessions, Steady, [Next]_vars, NEW r \in Requests
             PROVE  SteadyFor(r)' /\ AnsweredFor(r)'
  BY DEF Steady
<1>0. SteadyFor(r) /\ AnsweredFor(r)
  BY DEF Steady
<1>1. CASE Start
  BY <1>0, <1>1 DEF Start, SteadyFor, AnsweredFor
<1>2. CASE Stop
  <2>1. calm'[r] = FALSE
    BY <1>2, MarredType DEF Stop
  <2> QED
    BY <2>1 DEF SteadyFor, AnsweredFor
<1>3. CASE Initialize \/ StoreReady \/ LoadUp \/ PollUp \/ PollAnnounce
  <2>1. /\ task' = task /\ app' = app /\ calm' = calm
        /\ poller' = poller \/ poller' # "missed"
    BY <1>3 DEF Initialize, StoreReady, LoadUp, PollUp, PollAnnounce
  <2>2. bridge'.sid = bridge.sid /\ bridge'.stateless = bridge.stateless
    BY <1>3 DEF Initialize, StoreReady, LoadUp, PollUp, PollAnnounce, ProxyTypeOK
  <2> QED
    BY <1>0, <2>1, <2>2, SteadyOther DEF SameLaunch, Misjudged
<1>4. ASSUME NEW q \in Requests, Begin(q) PROVE SteadyFor(r)' /\ AnsweredFor(r)'
  <2>1. app' = app /\ bridge' = bridge /\ poller' = poller
    BY <1>4 DEF Begin
  <2>2. CASE q # r
    <3>1. task'[r] = task[r] /\ calm'[r] = calm[r]
      BY <1>4, <2>2 DEF Begin, ProxyTypeOK
    <3> QED
      BY <1>0, <2>1, <3>1, SteadyOther DEF SameLaunch, Misjudged
  <2>3. CASE q = r
    <3>1. calm'[r] => app.up /\ ~Misjudged
      <4>1. calm'[r] = (app.up /\ ~Misjudged)
        BY <1>4, <2>3, Zenon DEF Begin, ProxyTypeOK
      <4> QED
        BY <4>1, Zenon
    <3>1a. calm'[r] => app'.up /\ ~Misjudged'
      BY <2>1, <3>1, Zenon DEF Misjudged
    <3>2. \/ task'[r] = [pc |-> "scan", attempt |-> 0]
          \/ task'[r] = [pc |-> "done", reply |-> "busy"]
      BY <1>4, <2>3 DEF Begin, ProxyTypeOK
    <3>3. CASE task'[r] = [pc |-> "scan", attempt |-> 0]
      <4>1. task'[r].pc = "scan" /\ task'[r].attempt = 0
        BY <3>3
      <4>2. Own(r)' = 0 /\ Pending' \in {0, 1} /\ Held' \in {0, 1}
        BY <4>1 DEF Own, Pending, Held, One
      <4>3. task'[r].attempt + Pending' + Held' + Own(r)' <= 2
        <5>1. \A p, h \in {0, 1} : 0 + p + h + 0 <= 2
          OBVIOUS
        <5>2. 0 + Pending' + Held' + 0 <= 2
          BY <4>2, <5>1, Zenon
        <5> QED
          BY <4>1, <4>2, <5>2, Zenon
      <4>4. SteadyFor(r)'
        BY <3>1a, <4>1, <4>3, Zenon DEF SteadyFor
      <4>5. AnsweredFor(r)'
        BY <4>1 DEF AnsweredFor
      <4> QED
        BY <4>4, <4>5
    <3>4. CASE task'[r] = [pc |-> "done", reply |-> "busy"]
      <4>1. task'[r].pc = "done" /\ task'[r].reply = "busy"
        BY <3>4
      <4> QED
        BY <4>1 DEF SteadyFor, AnsweredFor
    <3> QED
      BY <3>2, <3>3, <3>4
  <2> QED
    BY <2>2, <2>3
<1>5. ASSUME NEW t \in Requests, Forward(t) PROVE SteadyFor(r)' /\ AnsweredFor(r)'
  <2>1. CASE t = r
    BY <1>0, <1>5, <2>1, SteadySelf
  <2>2. CASE t # r
    <3>1. task'[r] = task[r]
      BY <1>5, <2>2, ForwardEffect DEF OnlyTask
    <3>2. SameLaunch /\ poller' = poller
      BY <1>5, ForwardBridge DEF SameLaunch
    <3>3. calm'[r] => calm[r]
      <4>1. calm' = calm \/ calm' = Marred
        BY <1>5
        DEF Forward, Resolve, FailFast, NoHandshake, LockHandshake, Recheck, Post, Rejects, Unknown,
            Runs, Rediscover, RediscoverNone, Handshake, HandshakeRejected, Stale, Refused, Lost,
            Failed, Relay, Disturbed
      <4> QED
        BY <4>1, MarredType
    <3>4. calm'[r] /\ ~Misjudged /\ app.up =>
             /\ ~Misjudged'
             /\ \/ bridge'.sid = bridge.sid
                \/ bridge.sid = NoSession /\ Valid(bridge.sid)'
                \/ bridge'.sid = NoSession /\ ~Valid(bridge.sid)
                \/ app.transport # "stateful"
      BY <1>5, ForwardShared, MarredType
    <3> QED
      BY <1>0, <3>1, <3>2, <3>3, <3>4, SteadyOther
  <2> QED
    BY <2>1, <2>2
<1>6. CASE PollScan
  <2>1. task' = task /\ app' = app /\ bridge' = bridge
    BY <1>6 DEF PollScan
  <2>2. calm'[r] => calm[r]
    BY <1>6, MarredType DEF PollScan, Disturbed
  <2>3. calm'[r] /\ app.up => poller' # "missed"
    BY <1>6, MarredType DEF PollScan, Disturbed
  <2> QED
    BY <1>0, <2>1, <2>2, <2>3, SteadyOther DEF SameLaunch, Misjudged
<1>7. CASE PollDown
  <2>1. task' = task /\ app' = app /\ calm' = calm /\ poller = "missed" /\ poller' = "sleep"
    BY <1>7 DEF PollDown
  <2>2. bridge'.sid = NoSession /\ bridge'.stateless = FALSE
    BY <1>7 DEF PollDown, ProxyTypeOK
  <2> QED
    BY <1>0, <2>1, <2>2, SteadyOther DEF SameLaunch, Misjudged
<1>8. CASE UNCHANGED vars
  <2>1. task' = task /\ app' = app /\ calm' = calm /\ bridge' = bridge /\ poller' = poller
    BY <1>8 DEF vars
  <2> QED
    BY <1>0, <2>1, SteadyOther DEF SameLaunch, Misjudged
<1> QED
  BY <1>1, <1>2, <1>3, <1>4, <1>5, <1>6, <1>7, <1>8 DEF Next, Poller

(* While one launch of the application runs undisturbed, no request that began then is told
   that the backend is unreachable, whatever stale session the bridge holds, whatever the
   poller clears and the other requests forget or renew: two rounds of
   forward_with_retries can be lost, the third is answered.  And once the poller has
   announced the application, an initialized client has been told of it.                   *)
THEOREM AppIsServedAlways ==
    ASSUME MaxRetries >= 3
    PROVE  Spec => []AppIsServed
<1> DEFINE Inv == ProxyTypeOK /\ Heard /\ Sessions /\ Steady
<1>1. Init => Inv
  BY ProxyAssumption, InitTypes, InitHeard, InitSessions, InitSteady
<1>2. Inv /\ [Next]_vars => Inv'
  BY ProxyAssumption, NextTypes, NextHeard, NextSessions, NextSteady
<1>3. Inv => AppIsServed
  BY DEF AppIsServed, SteadyAppAnswers, Heard, Steady, AnsweredFor
<1> QED
  BY <1>1, <1>2, <1>3, PTL DEF Spec
=============================================================================
