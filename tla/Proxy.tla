------------------------------- MODULE Proxy -------------------------------
(***************************************************************************)
(* `victauri bridge`: the stdio proxy an MCP client talks to.  It answers  *)
(* the handshake itself, forwards every other request from a task of its   *)
(* own to the application that discovery finds right now, keeps one        *)
(* backend session, recovers it when the application restarts, and polls   *)
(* in the background to tell the client that a live tool list is there.    *)
(* Atomics are taken as sequentially consistent.                           *)
(***************************************************************************)
EXTENDS Naturals, FiniteSets

CONSTANTS Calls, Lists,  \* the client's tools/call and tools/list requests
          NoTask,
          MaxRetries,    \* MAX_RETRIES
          MaxInFlight,   \* MAX_IN_FLIGHT
          MaxStarts,     \* bound: launches of the application
          MaxMisses,     \* bound: scans that miss a running application
          MaxRefusals    \* bound: handshakes a running application refuses

ASSUME ProxyAssumption ==
    /\ MaxRetries \in Nat \ {0} /\ MaxInFlight \in Nat \ {0}
    /\ MaxStarts \in Nat /\ MaxMisses \in Nat /\ MaxRefusals \in Nat
    /\ Calls \cap Lists = {}
    /\ NoTask \notin Calls \cup Lists

VARIABLES
    app,      \* the application: running, which launch, sessions minted, transport
    bridge,   \* session_id, cached_init, stateless, backend_up, client_ready
    shake,    \* the handshake mutex: who holds it
    client,   \* how far the client's own handshake is, and the list it holds
    task,     \* the forwarded requests, each a task of its own
    poller,   \* the availability poller
    misses,   \* scans that missed a running application, handshakes it refused
    runs,     \* per request: times it took effect in an application (history)
    told,     \* list_changed was written since the last down->up edge (history)
    calm      \* per request: one launch has run undisturbed since it began (history)

vars == <<app, bridge, shake, client, task, poller, misses, runs,
          told, calm>>

Requests == Calls \cup Lists
NoSession == <<0, 0>>
Idle == [pc |-> "idle"]

(* A request's task: where it is, and what it knows there. *)
Tasks ==
    [pc : {"idle"}]
      \cup [pc : {"scan"}, attempt : Nat]
      \cup [pc : {"session", "shake", "post"}, attempt : Nat, launch : Nat]
      \cup [pc : {"sent", "stale", "ran"}, attempt : Nat, launch : Nat, sid : Nat \X Nat]
      \cup [pc : {"again"}, attempt : Nat, launch : Nat, stale : BOOLEAN]
      \cup [pc : {"done"}, reply : {"busy", "answer", "unanswered", "error", "unreachable",
                                   "fallback", "may have run"}]

ProxyTypeOK ==
    /\ app \in [up : BOOLEAN, launch : Nat, minted : Nat,
               transport : {"stateful", "stateless", "backfilled"}]
    /\ bridge \in [sid : Nat \X Nat, init : BOOLEAN, stateless : BOOLEAN, up : BOOLEAN,
                  ready : BOOLEAN]
    /\ shake \in Requests \cup {NoTask}
    /\ client \in [pc : {"new", "asked", "storing", "ready"},
                  list : {"none", "answer", "fallback"}]
    /\ task \in [Requests -> Tasks]
    /\ poller \in {"sleep", "found", "missed", "edge"}
    /\ misses \in [scans : Nat, shakes : Nat]
    /\ runs \in [Requests -> Nat]
    /\ told \in BOOLEAN
    /\ calm \in [Requests -> BOOLEAN]

Init ==
    /\ app \in [up : {FALSE}, launch : {0}, minted : {0},
               transport : {"stateful", "stateless", "backfilled"}]
    /\ bridge = [sid |-> NoSession, init |-> FALSE, stateless |-> FALSE,
                 up |-> FALSE, ready |-> FALSE]
    /\ shake = NoTask
    /\ client = [pc |-> "new", list |-> "none"]
    /\ task = [r \in Requests |-> Idle]
    /\ poller = "sleep"
    /\ misses = [scans |-> 0, shakes |-> 0]
    /\ runs = [r \in Requests |-> 0]
    /\ told = FALSE
    /\ calm = [r \in Requests |-> TRUE]

-----------------------------------------------------------------------------
(* The application (outside this crate).  A restart is a new process: a new  *)
(* launch number, no session of an earlier one.                              *)

(* A running application that was not found, or did not answer, is a disturbance:
   what it does to the shared session touches every request.                     *)
Marred == [r \in Requests |-> FALSE]

Start ==
    /\ ~app.up /\ app.launch < MaxStarts
    /\ app' = [app EXCEPT !.up = TRUE, !.launch = @ + 1, !.minted = 0]
    /\ UNCHANGED <<bridge, shake, client, task, poller, misses, runs,
                   told, calm>>

Stop ==
    /\ app.up
    /\ app' = [app EXCEPT !.up = FALSE]
    /\ calm' = Marred
    /\ UNCHANGED <<bridge, shake, client, task, poller, misses, runs, told>>

(* A POST resolved for launch i: any running launch may take it (a later one on
   the same port), and it is refused when nothing listens on that port any more. *)
Reachable == app.up
Gone(i) == ~app.up \/ app.launch # i

-----------------------------------------------------------------------------
(* Discovery.  One pass finds the running application, or misses it (its     *)
(* /health is late, or a second application makes the choice ambiguous).     *)

ScanFinds == app.up
ScanMisses ==
    IF app.up
    THEN misses.scans < MaxMisses /\ misses' = [misses EXCEPT !.scans = @ + 1]
    ELSE UNCHANGED misses

(* A scan that misses a running application disturbs, one that finds it down does not. *)
Disturbed == IF app.up THEN Marred ELSE calm

-----------------------------------------------------------------------------
(* stdin: one line at a time, never waiting for a backend.                   *)

Initialize ==
    /\ client.pc = "new"
    /\ bridge' = [bridge EXCEPT !.init = TRUE]
    /\ client' = [client EXCEPT !.pc = "asked"]
    /\ UNCHANGED <<app, shake, task, poller, misses, runs, told, calm>>

StoreReady ==
    /\ client.pc = "asked"
    /\ bridge' = [bridge EXCEPT !.ready = TRUE]
    /\ client' = [client EXCEPT !.pc = "storing"]
    /\ UNCHANGED <<app, shake, task, poller, misses, runs, told, calm>>

(* list_changed: the client drops the list it holds. *)
Announced(c) == [c EXCEPT !.list = "none"]

LoadUp ==
    /\ client.pc = "storing"
    /\ client' = [IF bridge.up THEN Announced(client) ELSE client EXCEPT !.pc = "ready"]
    /\ told' = (told \/ bridge.up)
    /\ UNCHANGED <<app, bridge, shake, task, poller, misses, runs, calm>>

(* A backend with sessions that the bridge takes for one without. *)
Misjudged == bridge.stateless /\ app.transport # "stateless"

InFlight == {r \in Requests : task[r].pc \notin {"idle", "done"}}

(* A request, once the client has initialized: a task of its own, or refused when too many run. *)
Begin(r) ==
    /\ client.pc = "ready"
    /\ task[r] = Idle
    /\ task' = [task EXCEPT ![r] =
           IF Cardinality(InFlight) < MaxInFlight
           THEN [pc |-> "scan", attempt |-> 0]
           ELSE [pc |-> "done", reply |-> "busy"]]
    /\ calm' = [calm EXCEPT ![r] = app.up /\ ~Misjudged]
    /\ UNCHANGED <<app, bridge, shake, client, poller, misses, runs, told>>

-----------------------------------------------------------------------------
(* Answers to the client.                                                    *)

(* The end of a forward: the reply is written and the permit dropped.  A list
   request that no backend answered gets the baked list.                      *)
Reply(t, reply) ==
    LET served == IF t \in Lists /\ reply = "unreachable" THEN "fallback" ELSE reply
    IN  /\ task' = [task EXCEPT ![t] = [pc |-> "done", reply |-> served]]
        /\ client' = IF t \in Lists /\ served \in {"answer", "fallback"}
                     THEN [client EXCEPT !.list = served] ELSE client

-----------------------------------------------------------------------------
(* forward_with_retries                                                      *)

At(t, pc) == task[t].pc = pc
Goto(t, pc) == task' = [task EXCEPT ![t].pc = pc]

Resolve(t) ==
    /\ At(t, "scan") /\ ScanFinds
    /\ task' = [task EXCEPT ![t] = [pc |-> "session", attempt |-> task[t].attempt, launch |-> app.launch]]
    /\ UNCHANGED <<app, bridge, shake, client, poller, misses, runs, told, calm>>

FailFast(t) ==
    /\ At(t, "scan") /\ ScanMisses
    /\ calm' = Disturbed
    /\ Reply(t, "unreachable")
    /\ UNCHANGED <<app, bridge, shake, poller, runs, told>>

Needed == ~bridge.stateless /\ bridge.sid = NoSession

(* ensure_backend_session: one handshake at a time, and the need is looked at
   again once the mutex is held.                                              *)
NoHandshake(t) ==
    /\ At(t, "session") /\ ~Needed
    /\ Goto(t, "post")
    /\ UNCHANGED <<app, bridge, shake, client, poller, misses, runs, told, calm>>

LockHandshake(t) ==
    /\ At(t, "session") /\ Needed /\ shake = NoTask
    /\ shake' = t
    /\ Goto(t, "shake")
    /\ UNCHANGED <<app, bridge, client, poller, misses, runs, told, calm>>

Recheck(t) ==
    /\ At(t, "shake") /\ (~Needed \/ ~bridge.init \/ Gone(task[t].launch))
    /\ shake' = NoTask
    /\ Goto(t, "post")
    /\ UNCHANGED <<app, bridge, client, poller, misses, runs, told, calm>>

(* The session a reply to `initialize` carries, if any: a stateful backend mints
   one, the plugin's default transport always sends the same constant.          *)
Constant == <<MaxStarts + 1, 1>>
Offered == CASE app.transport = "stateful" -> <<app.launch, app.minted + 1>>
             [] app.transport = "backfilled" -> Constant
             [] OTHER -> NoSession

(* A reply without a session id makes the backend a stateless one. *)
Adopted(offer) == IF offer # NoSession THEN [bridge EXCEPT !.sid = offer]
                                       ELSE [bridge EXCEPT !.stateless = TRUE]

Handshake(t) ==
    /\ At(t, "shake") /\ Needed /\ bridge.init /\ Reachable
    /\ app' = [app EXCEPT !.minted = IF app.transport = "stateful" THEN @ + 1 ELSE @]
    /\ bridge' = Adopted(Offered)
    /\ shake' = NoTask
    /\ Goto(t, "post")
    /\ UNCHANGED <<client, poller, misses, runs, told, calm>>

(* An error status to the handshake (401, 429) carries no session id either. *)
HandshakeRejected(t) ==
    /\ At(t, "shake") /\ Needed /\ bridge.init /\ Reachable
    /\ misses.shakes < MaxRefusals
    /\ misses' = [misses EXCEPT !.shakes = @ + 1]
    /\ bridge' = Adopted(IF app.transport = "backfilled" THEN Constant ELSE NoSession)
    /\ shake' = NoTask
    /\ Goto(t, "post")
    /\ calm' = Marred
    /\ UNCHANGED <<app, client, poller, runs, told>>

Post(t) ==
    /\ At(t, "post")
    /\ task' = [task EXCEPT ![t] = [pc |-> "sent", attempt |-> task[t].attempt,
                                    launch |-> task[t].launch, sid |-> bridge.sid]]
    /\ UNCHANGED <<app, bridge, shake, client, poller, misses, runs, told, calm>>

(* What the application does with a POST: refuse it before it runs (its token
   is another launch's, the rate limit), report a session it does not know, or
   run it.                                                                     *)
Valid(sid) == app.transport # "stateful" \/ (sid # NoSession /\ sid[1] = app.launch)

Rejects(t) ==
    /\ At(t, "sent") /\ Reachable
    /\ Reply(t, "error")
    /\ UNCHANGED <<app, bridge, shake, poller, misses, runs, told, calm>>

Unknown(t) ==
    /\ At(t, "sent") /\ Reachable /\ ~Valid(task[t].sid)
    /\ Goto(t, "stale")
    /\ UNCHANGED <<app, bridge, shake, client, poller, misses, runs, told, calm>>

Runs(t) ==
    /\ At(t, "sent") /\ Reachable /\ Valid(task[t].sid)
    /\ Goto(t, "ran")
    /\ runs' = [runs EXCEPT ![t] = @ + 1]
    /\ UNCHANGED <<app, bridge, shake, client, poller, misses, told, calm>>

(* Mutant of Forgotten: the rejected session is kept. *)
NothingForgotten(t) == bridge

(* clear_session_if: only the session this POST used. *)
Forgotten(t) == IF bridge.sid = task[t].sid THEN [bridge EXCEPT !.sid = NoSession] ELSE bridge

(* The next round of the loop, or the end of it. *)
Retry(t) ==
    IF task[t].attempt + 1 < MaxRetries
    THEN /\ task' = [task EXCEPT ![t] =
                 [pc |-> "again", attempt |-> task[t].attempt + 1,
                  launch |-> task[t].launch, stale |-> task[t].pc = "stale"]]
         /\ UNCHANGED client
    ELSE Reply(t, "unreachable")

Stale(t) ==
    /\ At(t, "stale")
    /\ bridge' = Forgotten(t)
    /\ Retry(t)
    /\ UNCHANGED <<app, shake, poller, misses, runs, told, calm>>

(* The answer, or an error of the bridge's own for a 202, an empty body or a
   stream that ended without it.                                              *)
Relay(t) ==
    /\ At(t, "ran")
    /\ \E reply \in {"answer", "unanswered"} : Reply(t, reply)
    /\ bridge' = IF app.transport = "backfilled" THEN [bridge EXCEPT !.sid = Constant]
                                                ELSE bridge
    /\ UNCHANGED <<app, shake, poller, misses, runs, told, calm>>

(* Mutant of MayReplay: any failed request is sent again. *)
AlwaysReplay(t, refused) == TRUE

(* may_replay: a tool call is sent again only if its connection was refused. *)
MayReplay(t, refused) == t \notin Calls \/ refused

Failed(t, refused) ==
    /\ bridge' = Forgotten(t)
    /\ IF MayReplay(t, refused) THEN Retry(t) ELSE Reply(t, "may have run")
    /\ UNCHANGED <<app, shake, poller, misses, runs, told>>

(* Nothing listens for that launch any more.  A request resolved for an earlier
   launch that forgets the session of the running one disturbs the others: one
   after the other, such requests could use up all their retries.              *)
Refused(t) ==
    /\ At(t, "sent") /\ Gone(task[t].launch)
    /\ Failed(t, TRUE)
    /\ calm' = IF app.up /\ Valid(task[t].sid) THEN Marred ELSE calm

(* The connection broke after the send, or the timeout expired. *)
Lost(t) ==
    /\ task[t].pc \in {"sent", "ran"}
    /\ Failed(t, FALSE)
    /\ calm' = Marred

(* discover_and_select: after a stale session a miss keeps the old entry, after
   a failed connection it ends the forward.                                     *)
Rediscover(t) ==
    /\ At(t, "again") /\ ScanFinds
    /\ task' = [task EXCEPT ![t] = [pc |-> "session", attempt |-> task[t].attempt, launch |-> app.launch]]
    /\ UNCHANGED <<app, bridge, shake, client, poller, misses, runs, told, calm>>

RediscoverNone(t) ==
    /\ At(t, "again") /\ ScanMisses
    /\ calm' = Disturbed
    /\ IF task[t].stale
       THEN /\ task' = [task EXCEPT ![t] = [pc |-> "session", attempt |-> task[t].attempt, launch |-> task[t].launch]]
            /\ UNCHANGED client
       ELSE Reply(t, "unreachable")
    /\ UNCHANGED <<app, bridge, shake, poller, runs, told>>

Forward(t) ==
    \/ Resolve(t) \/ FailFast(t) \/ NoHandshake(t) \/ LockHandshake(t) \/ Recheck(t)
    \/ Handshake(t) \/ HandshakeRejected(t) \/ Post(t) \/ Rejects(t) \/ Unknown(t) \/ Runs(t)
    \/ Stale(t) \/ Relay(t) \/ Refused(t) \/ Lost(t) \/ Rediscover(t) \/ RediscoverNone(t)

-----------------------------------------------------------------------------
(* The availability poller, the only writer of backend_up.                   *)

PollScan ==
    /\ poller = "sleep"
    /\ \/ ScanFinds /\ poller' = "found" /\ UNCHANGED <<misses, calm>>
       \/ ScanMisses /\ poller' = "missed" /\ calm' = Disturbed
    /\ UNCHANGED <<app, bridge, shake, client, task, runs, told>>

PollDown ==
    /\ poller = "missed"
    /\ bridge' = [bridge EXCEPT !.sid = NoSession, !.stateless = FALSE, !.up = FALSE]
    /\ poller' = "sleep"
    /\ UNCHANGED <<app, shake, client, task, misses, runs, told, calm>>

PollUp ==
    /\ poller = "found"
    /\ bridge' = [bridge EXCEPT !.up = TRUE]
    /\ poller' = IF bridge.up THEN "sleep" ELSE "edge"
    /\ told' = (told /\ bridge.up)
    /\ UNCHANGED <<app, shake, client, task, misses, runs, calm>>

PollAnnounce ==
    /\ poller = "edge"
    /\ client' = IF bridge.ready THEN Announced(client) ELSE client
    /\ told' = (told \/ bridge.ready)
    /\ poller' = "sleep"
    /\ UNCHANGED <<app, bridge, shake, task, misses, runs, calm>>

Poller == PollScan \/ PollDown \/ PollUp \/ PollAnnounce

Next ==
    \/ Start \/ Stop
    \/ Initialize \/ StoreReady \/ LoadUp
    \/ \E r \in Requests : Begin(r)
    \/ \E t \in Requests : Forward(t)
    \/ Poller

Spec == Init /\ [][Next]_vars

-----------------------------------------------------------------------------
(* Properties                                                                *)

(* A tool call takes effect at most once, whatever restarts, lost replies, stale
   sessions and retries it meets (may_replay, forward_with_retries).            *)
CallsRunAtMostOnce ==
    \A r \in Calls : runs[r] <= 1

(* A tool call reported as "backend not reachable", or as refused because too many
   were in flight, has not run: the client may safely repeat it.                   *)
UnreachableNeverRan ==
    \A r \in Calls :
        task[r].pc = "done" /\ task[r].reply \in {"unreachable", "busy"} => runs[r] = 0

(* While one launch of the application runs undisturbed, a request that began then
   is never told that the backend is unreachable: stale sessions, the poller's
   clearing and the other requests' handshakes are absorbed by the retries
   (ensure_backend_session, clear_session_if, MAX_RETRIES), as long as the bridge
   knows which transport the backend speaks.                                      *)
SteadyAppAnswers ==
    \A r \in Requests :
        task[r].pc = "done" /\ task[r].reply \in {"unreachable", "fallback"} => ~calm[r]

(* Once the poller has seen the application come up and the client has finished
   initializing, list_changed has been written for it, whichever of the two came
   first (the edge in spawn_availability_poller, the check in handle_line).        *)
ToldOfTheApp ==
    bridge.up /\ client.pc = "ready" /\ poller # "edge" => told

(* A tool call takes effect at most once, and what the client is told of one
   that failed is so.                                                         *)
CallsAreSafe == CallsRunAtMostOnce /\ UnreachableNeverRan

(* The client is served by the application that runs, and told of it.         *)
AppIsServed == SteadyAppAnswers /\ ToldOfTheApp
=============================================================================
