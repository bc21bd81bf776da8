----------------------------- MODULE FrontDoor -----------------------------
(***************************************************************************)
(* How a connection becomes an answered request: the accept loop with its  *)
(* two pools (mcp/hardening.rs, serve_hardened and admit), the deadlines   *)
(* that take a place back, and the order of the layers around the routes   *)
(* (mcp/server.rs, build_app_full_inner).                                  *)
(*                                                                         *)
(* A client is the probe (GET /health), a caller that presents the token,  *)
(* or a stranger that does not.  The probe and the callers send a whole    *)
(* request head as they connect, as every client of this server does; a    *)
(* stranger may send nothing, one byte, or any request, for ever.  Times   *)
(* are abstracted: a deadline may pass whenever what it bounds is late.    *)
(***************************************************************************)
EXTENDS Integers, Sequences, FiniteSets

CONSTANTS Probe, Callers, Strangers,
          MaxPending,      \* ServeLimits::max_pending
          MaxConnections,  \* ServeLimits::max_connections
          MaxCalls         \* GlobalConcurrencyLimitLayer

ASSUME FrontAssumption ==
  /\ MaxPending \in Nat \ {0} /\ MaxConnections \in Nat \ {0}
  /\ MaxCalls \in Nat \ {0}
  /\ Callers \cap Strangers = {} /\ Probe \notin Callers \cup Strangers

FrontClients == Callers \cup Strangers \cup {Probe}
Prompt == Callers \cup {Probe}

(***************************************************************************)
(* Where a connection is: "away" (none), "backlog", "silent" (accepted, no  *)
(* byte yet), "queued" (for a slot), and with a slot: "head" (its request   *)
(* is being read), "limited" (waits for a call permit), "body", "handling", *)
(* "idle" (answered, kept alive); "closed" is answered and closed.          *)
(***************************************************************************)
VARIABLES loop,        \* the accept loop: "permit", "accept", "drain", "ended"
          conn,        \* where each client's connection is
          backlog,     \* the listen backlog
          slotQueue,   \* waiters of the `slots' semaphore
          callQueue    \* waiters of the concurrency limit

frontVars == <<loop, conn, backlog, slotQueue, callQueue>>

FrontInit ==
  /\ loop = "permit"
  /\ conn = [c \in FrontClients |-> "away"]
  /\ backlog = <<>> /\ slotQueue = <<>> /\ callQueue = <<>>

At(where) == {c \in FrontClients : conn[c] \in where}
Go(c, where) == conn' = [conn EXCEPT ![c] = where]
Without(q, c) == SelectSeq(q, LAMBDA d : d # c)

PendingHeld == Cardinality(At({"silent", "queued"})) + (IF loop = "accept" THEN 1 ELSE 0)
SlotsHeld == Cardinality(At({"head", "limited", "body", "handling", "idle"}))
CallsHeld == Cardinality(At({"body", "handling"}))
Serving == loop \in {"permit", "accept"}

(***************************************************************************)
(* The clients and the accept loop.                                        *)
(***************************************************************************)
Connect(c) ==
  /\ conn[c] \in {"away", "closed"} /\ Serving
  /\ Go(c, "backlog")
  /\ backlog' = Append(backlog, c)
  /\ UNCHANGED <<loop, slotQueue, callQueue>>

TakePermit ==
  /\ loop = "permit" /\ PendingHeld < MaxPending
  /\ loop' = "accept"
  /\ UNCHANGED <<conn, backlog, slotQueue, callQueue>>

Accept ==
  /\ loop = "accept" /\ backlog # <<>>
  /\ Go(Head(backlog), "silent")
  /\ backlog' = Tail(backlog)
  /\ loop' = "permit"
  /\ UNCHANGED <<slotQueue, callQueue>>

(* accept fails (no descriptor): the permit goes back while the loop pauses. *)
AcceptFails ==
  /\ loop = "accept"
  /\ loop' = "permit"
  /\ UNCHANGED <<conn, backlog, slotQueue, callQueue>>

(* admit: the first byte, then a place in the queue for a slot. *)
FirstByte(c) ==
  /\ conn[c] = "silent" /\ loop # "ended"
  /\ Go(c, "queued")
  /\ slotQueue' = Append(slotQueue, c)
  /\ UNCHANGED <<loop, backlog, callQueue>>

FirstByteTimeout(c) ==
  /\ conn[c] = "silent" /\ c \in Strangers
  /\ Go(c, "away")
  /\ UNCHANGED <<loop, backlog, slotQueue, callQueue>>

GrantSlot ==
  /\ slotQueue # <<>> /\ SlotsHeld < MaxConnections
  /\ Go(Head(slotQueue), "head")
  /\ slotQueue' = Tail(slotQueue)
  /\ UNCHANGED <<loop, backlog, callQueue>>

(* A shutdown signal ends every admission, even of one that has spoken. *)
AdmissionCancelled(c) ==
  /\ loop = "drain" /\ conn[c] \in {"silent", "queued"}
  /\ Go(c, "away")
  /\ slotQueue' = Without(slotQueue, c)
  /\ UNCHANGED <<loop, backlog, callQueue>>

(***************************************************************************)
(* A request on a connection that holds a slot.  While the server drains,  *)
(* hyper serves the request being read or handled and then closes.         *)
(***************************************************************************)
AfterResponse == IF loop = "drain" THEN "closed" ELSE "idle"

(* header_read_timeout: a stalled head, or an idle kept-alive connection. *)
HeadTimeout(c) ==
  /\ \/ conn[c] = "head" /\ c \in Strangers
     \/ conn[c] = "idle"
  /\ Go(c, "away")
  /\ UNCHANGED <<loop, backlog, slotQueue, callQueue>>

(* Host, origin and content type: what no client of this server but a web   *)
(* page would send is refused ahead of the rate limiter, spends no token,   *)
(* and is closed with the answer (close_on_rejection).                      *)
RefusedByGuards(c) ==
  /\ conn[c] = "head" /\ c \in Strangers
  /\ Go(c, "closed")
  /\ UNCHANGED <<loop, backlog, slotQueue, callQueue>>

(* split_rate_limit: the bucket of those with the token, or everyone else's, *)
(* is empty; that connection is closed too.                                  *)
RefusedAtDoor(c) ==
  /\ conn[c] = "head"
  /\ Go(c, "closed")
  /\ UNCHANGED <<loop, backlog, slotQueue, callQueue>>

(* A mistaken Health: the route sits inside the concurrency limit. *)
HealthInsideLimit(c) ==
  /\ conn[c] = "head" /\ c \notin Callers
  /\ Go(c, "limited")
  /\ callQueue' = Append(callQueue, c)
  /\ UNCHANGED <<loop, backlog, slotQueue>>

(* /health is routed outside the concurrency limit and outside the auth.    *)
Health(c) ==
  /\ conn[c] = "head" /\ c \notin Callers
  /\ Go(c, AfterResponse)
  /\ UNCHANGED <<loop, backlog, slotQueue, callQueue>>

(* Every other route queues for one of the shared call permits. *)
EnterLimit(c) ==
  /\ conn[c] = "head" /\ c # Probe
  /\ Go(c, "limited")
  /\ callQueue' = Append(callQueue, c)
  /\ UNCHANGED <<loop, backlog, slotQueue>>

require_auth(c) == c \notin Strangers

(* With a permit: require_auth refuses a stranger before its body is read,  *)
(* and close_on_rejection closes the connection.                            *)
GrantCall ==
  /\ callQueue # <<>> /\ CallsHeld < MaxCalls
  /\ LET c == Head(callQueue) IN Go(c, IF require_auth(c) THEN "body" ELSE "closed")
  /\ callQueue' = Tail(callQueue)
  /\ UNCHANGED <<loop, backlog, slotQueue>>

BodyArrives(c) ==
  /\ conn[c] = "body"
  /\ Go(c, "handling")
  /\ UNCHANGED <<loop, backlog, slotQueue, callQueue>>

(* buffer_body: 408 (or 413, 400), and a half-read connection is closed.    *)
BodyTimeout(c) ==
  /\ conn[c] = "body"
  /\ Go(c, "closed")
  /\ UNCHANGED <<loop, backlog, slotQueue, callQueue>>

Respond(c) ==
  /\ conn[c] = "handling"
  /\ Go(c, AfterResponse)
  /\ UNCHANGED <<loop, backlog, slotQueue, callQueue>>

(* A kept-alive connection sends its next head. *)
NextRequest(c) ==
  /\ conn[c] = "idle" /\ loop # "ended"
  /\ Go(c, "head")
  /\ UNCHANGED <<loop, backlog, slotQueue, callQueue>>

(* The client goes away; hyper drops the request's future with the connection. *)
HangUp(c) ==
  /\ c \in Strangers /\ conn[c] \in {"silent", "queued", "head", "limited", "idle"}
  /\ Go(c, "away")
  /\ slotQueue' = Without(slotQueue, c)
  /\ callQueue' = Without(callQueue, c)
  /\ UNCHANGED <<loop, backlog>>

(***************************************************************************)
(* Shutdown: the listener is dropped (resetting what waits in the          *)
(* backlog), every task is signalled, and serve_hardened returns once the  *)
(* last task has dropped its end of the close channel.                     *)
(***************************************************************************)
Shutdown ==
  /\ Serving
  /\ loop' = "drain"
  /\ conn' = [c \in FrontClients |-> IF conn[c] = "backlog" THEN "away" ELSE conn[c]]
  /\ backlog' = <<>>
  /\ UNCHANGED <<slotQueue, callQueue>>

Drained == At({"silent", "queued", "head", "limited", "body", "handling", "idle"}) = {}

End ==
  /\ loop = "drain" /\ Drained
  /\ loop' = "ended"
  /\ UNCHANGED <<conn, backlog, slotQueue, callQueue>>

(* graceful_shutdown closes a connection no byte of a request was read from. *)
GracefulClose(c) ==
  /\ loop = "drain" /\ conn[c] \in {"idle", "head"}
  /\ Go(c, "away")
  /\ UNCHANGED <<loop, backlog, slotQueue, callQueue>>

FrontStep(c) ==
  \/ Connect(c) \/ FirstByte(c) \/ FirstByteTimeout(c) \/ AdmissionCancelled(c)
  \/ HeadTimeout(c) \/ RefusedByGuards(c) \/ RefusedAtDoor(c) \/ Health(c) \/ EnterLimit(c)
  \/ BodyArrives(c) \/ BodyTimeout(c) \/ Respond(c) \/ NextRequest(c)
  \/ HangUp(c) \/ GracefulClose(c)

FrontNext ==
  \/ TakePermit \/ Accept \/ AcceptFails \/ GrantSlot \/ GrantCall
  \/ Shutdown \/ End
  \/ \E c \in FrontClients : FrontStep(c)

(* What happens by itself: the runtime runs its tasks, a                    *)
(* deadline that has passed fires, a prompt client's request is already     *)
(* there.  The application's handlers (Respond) are promised nothing, and   *)
(* accept may fail now and then but not for ever.                           *)
FrontFairness ==
  /\ WF_frontVars(TakePermit) /\ SF_frontVars(Accept)
  /\ WF_frontVars(GrantSlot) /\ WF_frontVars(GrantCall)
  /\ WF_frontVars(End)
  /\ \A c \in FrontClients :
       /\ WF_frontVars(AdmissionCancelled(c) \/ FirstByteTimeout(c))
       /\ WF_frontVars(HeadTimeout(c))
       /\ WF_frontVars(BodyTimeout(c))
       /\ WF_frontVars(GracefulClose(c))
  /\ \A c \in Prompt : WF_frontVars(FirstByte(c))
  /\ WF_frontVars(Health(Probe))
  /\ \A c \in Callers : WF_frontVars(EnterLimit(c))

-----------------------------------------------------------------------------
Answered(c) == conn[c] \in {"idle", "closed"}

(* A liveness probe that connects is answered (or the server is shut down)  *)
(* even if no tool call ever returns, however strangers connect, stay       *)
(* silent or stall: silent connections hold no slot, a stalled head loses   *)
(* its slot, and /health is outside the call limit.  The premise is needed: *)
(* the limit is outside require_auth, so a stranger's API request waits for *)
(* a call permit, and keeps its slot meanwhile, before it is refused.       *)
HealthIsAnswered ==
  (\A c \in Strangers : []<>(conn[c] # "limited"))
    => ((conn[Probe] = "backlog") ~> (Answered(Probe) \/ ~Serving))

(* An agent's call is answered, or the server shut down, as long as the     *)
(* calls that are being handled return: strangers cannot keep a slot, a     *)
(* call permit or a place in either queue from it.                          *)
CallsAreAnswered ==
  (\A c \in Callers : []<>(conn[c] # "handling"))
    => \A c \in Callers :
         (conn[c] = "backlog") ~> (Answered(c) \/ ~Serving)
=============================================================================
