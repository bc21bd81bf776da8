------------------------------- MODULE PageIpc -------------------------------
(***************************************************************************)
(* The page's record of its Tauri calls (js_bridge.rs): the fetch wrapper  *)
(* with its route rules, the observer of Tauri's postMessage transport,    *)
(* the ring both log into, and the readers that judge from it whether the  *)
(* page is idle, which transport it uses and whether capture is complete.  *)
(*                                                                         *)
(* Tauri itself and the backend are external: one failed fetch makes Tauri *)
(* send that call again over postMessage, and every later call directly.   *)
(* A rejected fetch is retried in the same run of microtasks, so nothing   *)
(* else happens while a call is "failed".                                  *)
(***************************************************************************)
EXTENDS Integers, Sequences, FiniteSets, SequencesExt

CONSTANTS Calls,       \* the invokes of the application
          Waiters,     \* calls of waitForIpcComplete
          CapNetwork,  \* CAP_NETWORK: entries the network log keeps
          MaxOther     \* bound: other requests the page makes

ASSUME PageIpcAssumption ==
  /\ IsFiniteSet(Calls) /\ IsFiniteSet(Waiters) /\ "other" \notin Calls
  /\ CapNetwork \in Nat \ {0} /\ MaxOther \in Nat

VARIABLES call,      \* per call: where it is on its way
          ran,       \* calls whose command the backend has run
          ipcLog,    \* networkLog: the entries it holds
          lost,      \* calls whose entry was evicted or cleared
          unseen,    \* calls no entry was ever made for
          rule,      \* the route rule: its action, and whether it is for one use
          ruled,     \* an agent has added its rule
          tauriPosts,\* Tauri uses postMessage from now on
          capture,   \* ipcCapture
          hooked,    \* JSON.stringify is still the bridge's wrapper
          mapped,    \* Tauri's callback table can be reached
          waiter,    \* per waiter: its state and the calls under way when it began
          others     \* other requests made

ipcVars == <<call, ran, ipcLog, lost, unseen, rule, ruled, tauriPosts, capture,
             hooked, mapped, waiter, others>>

Actions == {"block", "fulfill", "unreadable", "delay"}
NoRule == [action |-> "none", once |-> FALSE]
Under == {"held", "mocking", "real", "reading", "failed", "posted"}
UnderWay == {c \in Calls : call[c] \in Under}

IpcInit ==
  /\ call = [c \in Calls |-> "none"] /\ ran = {}
  /\ ipcLog = <<>> /\ lost = {} /\ unseen = {}
  /\ rule = NoRule /\ ruled = FALSE
  /\ tauriPosts \in BOOLEAN
  /\ capture = [fetch |-> FALSE, post |-> FALSE, responses |-> "untried", fallback |-> FALSE]
  /\ hooked = TRUE /\ mapped \in BOOLEAN
  /\ waiter = [w \in Waiters |-> [state |-> "none", began |-> {}]]
  /\ others = 0

-----------------------------------------------------------------------------
(* The ring.                                                                *)
Entry(c, via, status) ==
  [call |-> c, via |-> via, status |-> status, mocked |-> FALSE,
   superseded |-> FALSE, body |-> FALSE, contested |-> FALSE, staged |-> FALSE]

appendCapped(log, e) == Append(IF Len(log) < CapNetwork THEN log ELSE Tail(log), e)
Evicts(log) ==
  IF Len(log) < CapNetwork \/ Head(log).superseded THEN {} ELSE {Head(log).call} \cap Calls

Of(c, via) == {i \in DOMAIN ipcLog : ipcLog[i].call = c /\ ipcLog[i].via = via}

(* The entry is written through a reference: one that has left the ring is  *)
(* written all the same, and nobody sees it.                                *)
Settled(c, via, status, mocked, body) ==
  [i \in DOMAIN ipcLog |->
     IF i \in Of(c, via)
       THEN [ipcLog[i] EXCEPT !.status = status, !.mocked = mocked, !.body = body]
       ELSE ipcLog[i]]

flushIpcWaiters ==
  waiter' = [w \in Waiters |->
    IF waiter[w].state = "waiting" THEN [waiter[w] EXCEPT !.state = "true"] ELSE waiter[w]]

(* A task starts: no microtask is outstanding.                              *)
Task == \A c \in Calls : call[c] # "failed"

-----------------------------------------------------------------------------
(* postMessage: the message is serialized, observed if the wrapper is still *)
(* in place, and sent.                                                      *)
fetchWasRetriable(e) == e.status \in {"error", "blocked"}

(* A mistaken Observed: any message under known ids is a retry.             *)
AnyIsRetry(c) == hooked

Observed(c) == hooked /\ \A i \in Of(c, "fetch") : fetchWasRetriable(ipcLog[i])

Superseded(c) ==
  [i \in DOMAIN ipcLog |->
     IF i \in Of(c, "fetch") THEN [ipcLog[i] EXCEPT !.superseded = TRUE] ELSE ipcLog[i]]

observePostMessageIpc(c) ==
  /\ ipcLog' = appendCapped(Superseded(c),
                            Entry(c, "post", IF mapped THEN "pending" ELSE "unobserved"))
  /\ lost' = lost \cup Evicts(Superseded(c))

(* Tauri warns on the console, which the bridge reads, and sends the call   *)
(* again; or sends a later one directly.                                    *)
Post(c) ==
  /\ call[c] = "failed" \/ (Task /\ call[c] = "none" /\ tauriPosts)
  /\ tauriPosts' = TRUE
  /\ capture' = [capture EXCEPT
                   !.fallback = @ \/ call[c] = "failed",
                   !.post = @ \/ Observed(c),
                   !.responses = IF ~Observed(c) THEN @ ELSE IF mapped THEN "yes" ELSE "no"]
  /\ IF Observed(c)
       THEN observePostMessageIpc(c) /\ UNCHANGED unseen
       ELSE unseen' = unseen \cup {c} /\ UNCHANGED <<ipcLog, lost>>
  /\ call' = [call EXCEPT ![c] = "posted"]
  /\ UNCHANGED <<ran, rule, ruled, hooked, mapped, waiter, others>>

(* The response reaches the wrapped callback, when there is one.            *)
PostAnswered(c) ==
  /\ Task /\ call[c] = "posted" /\ c \in ran
  /\ call' = [call EXCEPT ![c] = "done"]
  /\ IF mapped /\ c \notin unseen
       THEN /\ ipcLog' = Settled(c, "post", "answered", FALSE, TRUE)
            /\ flushIpcWaiters
       ELSE UNCHANGED <<ipcLog, waiter>>
  /\ UNCHANGED <<ran, lost, unseen, rule, ruled, tauriPosts, capture, hooked, mapped, others>>

(* Page code serializes another command under the ids of a call whose       *)
(* callbacks are still registered.                                          *)
LookAlike(c) ==
  /\ Task /\ hooked /\ c \in UnderWay \ lost
  /\ IF Of(c, "post") # {}
       THEN /\ ipcLog' = [i \in DOMAIN ipcLog |->
                 IF i \in Of(c, "post") THEN [ipcLog[i] EXCEPT !.contested = TRUE] ELSE ipcLog[i]]
            /\ UNCHANGED lost
       ELSE IF Observed(c)
       THEN /\ ipcLog' = appendCapped(Superseded(c), [Entry(c, "post", "pending") EXCEPT !.staged = TRUE])
            /\ lost' = lost \cup Evicts(Superseded(c))
       ELSE UNCHANGED <<ipcLog, lost>>
  /\ UNCHANGED <<call, ran, unseen, rule, ruled, tauriPosts, capture, hooked, mapped, waiter, others>>

-----------------------------------------------------------------------------
(* invoke: the fetch transport, through the wrapper and its route rules.    *)
Fetch(c, action) ==
  /\ Task /\ call[c] = "none" /\ ~tauriPosts
  /\ action = rule.action
  /\ ipcLog' = appendCapped(ipcLog,
                 Entry(c, "fetch", IF action = "block" THEN "blocked" ELSE "pending"))
  /\ lost' = lost \cup Evicts(ipcLog)
  /\ capture' = [capture EXCEPT !.fetch = TRUE]
  /\ rule' = IF rule.once THEN NoRule ELSE rule
  /\ call' = [call EXCEPT ![c] = CASE action = "block" -> "failed"
                                   [] action = "delay" -> "held"
                                   [] action = "none" -> "real"
                                   [] OTHER -> "mocking"]
  /\ IF action = "block" THEN flushIpcWaiters ELSE UNCHANGED waiter
  /\ UNCHANGED <<ran, unseen, ruled, tauriPosts, hooked, mapped, others>>

HeldBack(c) ==
  /\ Task /\ call[c] = "held"
  /\ call' = [call EXCEPT ![c] = "real"]
  /\ UNCHANGED <<ran, ipcLog, lost, unseen, rule, ruled, tauriPosts, capture, hooked,
                 mapped, waiter, others>>

(* makeResp: a mock Tauri could not read is replaced by an error it can, so *)
(* that the call is answered here in any case.                              *)
makeResp(c) ==
  /\ Task /\ call[c] = "mocking"
  /\ ipcLog' = Settled(c, "fetch", "answered", TRUE, TRUE)
  /\ call' = [call EXCEPT ![c] = "done"]
  /\ flushIpcWaiters
  /\ UNCHANGED <<ran, lost, unseen, rule, ruled, tauriPosts, capture, hooked, mapped, others>>

(* The backend runs the command of a request that reached it.               *)
Handle(c) ==
  /\ Task /\ call[c] \in {"real", "posted"} /\ c \notin ran
  /\ ran' = ran \cup {c}
  /\ UNCHANGED <<call, ipcLog, lost, unseen, rule, ruled, tauriPosts, capture, hooked,
                 mapped, waiter, others>>

(* doRealFetch: the status at once; the waiters when the body was read, or  *)
(* at once when it is not going to be.                                      *)
FetchAnswered(c, reads) ==
  /\ Task /\ call[c] = "real" /\ c \in ran
  /\ ipcLog' = Settled(c, "fetch", "answered", FALSE, FALSE)
  /\ call' = [call EXCEPT ![c] = IF reads THEN "reading" ELSE "done"]
  /\ IF reads THEN UNCHANGED waiter ELSE flushIpcWaiters
  /\ UNCHANGED <<ran, lost, unseen, rule, ruled, tauriPosts, capture, hooked, mapped, others>>

BodyRead(c) ==
  /\ Task /\ call[c] = "reading"
  /\ ipcLog' = Settled(c, "fetch", "answered", FALSE, TRUE)
  /\ call' = [call EXCEPT ![c] = "done"]
  /\ flushIpcWaiters
  /\ UNCHANGED <<ran, lost, unseen, rule, ruled, tauriPosts, capture, hooked, mapped, others>>

FetchFails(c) ==
  /\ Task /\ call[c] = "real" /\ c \notin ran
  /\ ipcLog' = Settled(c, "fetch", "error", FALSE, FALSE)
  /\ call' = [call EXCEPT ![c] = "failed"]
  /\ flushIpcWaiters
  /\ UNCHANGED <<ran, lost, unseen, rule, ruled, tauriPosts, capture, hooked, mapped, others>>

-----------------------------------------------------------------------------
(* Other traffic, the agent's rules, and the log it may clear.              *)
OtherRequest ==
  /\ Task /\ others < MaxOther
  /\ others' = others + 1
  /\ ipcLog' = appendCapped(ipcLog, Entry("other", "fetch", "answered"))
  /\ lost' = lost \cup Evicts(ipcLog)
  /\ UNCHANGED <<call, ran, unseen, rule, ruled, tauriPosts, capture, hooked, mapped, waiter>>

addRoute(action, once) ==
  /\ Task /\ ~ruled
  /\ ruled' = TRUE
  /\ rule' = [action |-> action, once |-> once]
  /\ UNCHANGED <<call, ran, ipcLog, lost, unseen, tauriPosts, capture, hooked, mapped, waiter, others>>

clearRoutes ==
  /\ Task /\ rule # NoRule
  /\ rule' = NoRule
  /\ UNCHANGED <<call, ran, ipcLog, lost, unseen, ruled, tauriPosts, capture, hooked,
                 mapped, waiter, others>>

clearNetworkLog ==
  /\ Task /\ ipcLog # <<>>
  /\ lost' = lost \cup ({ipcLog[i].call : i \in DOMAIN ipcLog} \cap Calls)
  /\ ipcLog' = <<>>
  /\ UNCHANGED <<call, ran, unseen, rule, ruled, tauriPosts, capture, hooked, mapped,
                 waiter, others>>

(* Page code replaces JSON.stringify.                                       *)
HookReplaced ==
  /\ Task /\ hooked
  /\ hooked' = FALSE
  /\ UNCHANGED <<call, ran, ipcLog, lost, unseen, rule, ruled, tauriPosts, capture,
                 mapped, waiter, others>>

-----------------------------------------------------------------------------
(* The readers.  The outcome of an answered call is Tauri's own; which of   *)
(* ok and error it was no property tells apart.                             *)
IsCall(e) == e.call \in Calls /\ ~e.superseded
Newest == SelectLastInSeq(ipcLog, IsCall)

waitForIpcComplete(w) ==
  /\ Task /\ waiter[w].state = "none"
  /\ waiter' = [waiter EXCEPT ![w] =
       [state |-> IF Newest # 0 /\ ipcLog[Newest].status # "pending" /\ ipcLog[Newest].body
                    THEN "true" ELSE "waiting",
        began |-> UnderWay]]
  /\ UNCHANGED <<call, ran, ipcLog, lost, unseen, rule, ruled, tauriPosts, capture, hooked,
                 mapped, others>>

WaitTimesOut(w) ==
  /\ Task /\ waiter[w].state = "waiting"
  /\ waiter' = [waiter EXCEPT ![w].state = "false"]
  /\ UNCHANGED <<call, ran, ipcLog, lost, unseen, rule, ruled, tauriPosts, capture, hooked,
                 mapped, others>>

ipcOutcome(e) ==
  CASE e.status = "pending" -> "pending"
    [] e.status = "unobserved" -> "unknown"
    [] e.status \notin {"pending", "unobserved", "answered"} -> "error"
    [] OTHER -> "answered"

ipcCaptureStatus ==
  LET transport == IF capture.fallback \/ capture.post THEN "post"
                   ELSE IF capture.fetch THEN "fetch" ELSE "unknown"
  IN CASE transport = "fetch" -> "full"
       [] transport = "unknown" -> "unknown"
       [] transport = "post" ->
            IF ~capture.post \/ ~hooked THEN "none"
            ELSE IF capture.responses = "no" THEN "requests_only" ELSE "full"

(* waitFor ipc_idle.                                                        *)
ipcIdle ==
  IF ipcCaptureStatus = "none" THEN "cannot be judged"
  ELSE IF \E i \in DOMAIN ipcLog : ipcLog[i].call \in Calls /\ ipcLog[i].status = "pending"
         THEN "busy" ELSE "idle"

IpcNext ==
  \/ \E c \in Calls :
       \/ LookAlike(c) \/ HeldBack(c) \/ makeResp(c) \/ Handle(c)
       \/ BodyRead(c) \/ FetchFails(c) \/ Post(c)
       \/ \E action \in Actions \cup {"none"} : Fetch(c, action)
       \/ PostAnswered(c) \/ \E reads \in BOOLEAN : FetchAnswered(c, reads)
  \/ OtherRequest \/ clearRoutes \/ clearNetworkLog \/ HookReplaced
  \/ \E action \in Actions, once \in BOOLEAN : addRoute(action, once)
  \/ \E w \in Waiters : waitForIpcComplete(w) \/ WaitTimesOut(w)

IpcSpec == IpcInit /\ [][IpcNext]_ipcVars

-----------------------------------------------------------------------------
(* Every call the bridge can see is one call in the log, under its own name *)
(* or marked as contested, whichever transport carried it, however often it *)
(* was tried and whatever page code serialized under its ids.               *)
CallsAreShownOnce ==
  \A c \in Calls : call[c] # "none" /\ c \notin lost \cup unseen =>
    LET own == {i \in DOMAIN ipcLog : ipcLog[i].call = c /\ IsCall(ipcLog[i])}
    IN Cardinality(own) = 1 /\ \A i \in own : ipcLog[i].staged => ipcLog[i].contested

(* An outcome in the log is what happened: a call a rule answered never ran *)
(* and will not, and one logged with Tauri's answer has run.                *)
OutcomesAreTrue ==
  \A i \in DOMAIN ipcLog : LET e == ipcLog[i] IN e.call \in Calls =>
    /\ e.mocked => e.call \notin ran /\ call[e.call] = "done"
    /\ ~e.mocked /\ ipcOutcome(e) = "answered" => e.call \in ran

(* Whatever completes wakes every waiter: one that still waits began when   *)
(* all calls that were under way then still are.                            *)
CompletionWakes ==
  \A w \in Waiters : waiter[w].state = "waiting" =>
    waiter[w].began \ unseen \subseteq IF mapped THEN UnderWay ELSE Calls

(* Capture is called full only while no call of this page went unseen, and  *)
(* then ipc_idle is met only when every call still logged has been answered. *)
StatusIsHonest ==
  ipcCaptureStatus = "full" =>
    /\ unseen = {}
    /\ ipcIdle = "idle" => \A c \in UnderWay \ lost : call[c] \in {"reading", "failed"}

(* What the bridge tells of the application's calls: each is shown once,    *)
(* with its own outcome, the capture is not claimed to be better than it    *)
(* is, and whoever waits for a call wakes when it has completed.            *)
CallsAreTold == CallsAreShownOnce /\ OutcomesAreTrue /\ StatusIsHonest /\ CompletionWakes
=============================================================================
