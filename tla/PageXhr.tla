------------------------------- MODULE PageXhr -------------------------------
(***************************************************************************)
(* One XMLHttpRequest object under the bridge's wrappers of open, send and *)
(* abort (js_bridge.rs, interceptNetwork): the log entry of each request,  *)
(* and the route rules that block it, hold it back or answer it with a     *)
(* mock.  JavaScript is single threaded, but every event fired at the page *)
(* runs page handlers that may call open, send and abort again before the  *)
(* code that fired it goes on: xhrStack holds what goes on when they       *)
(* return.  The page runs while a frame is on top, so that an event after  *)
(* which nothing goes on needs none.  The native object is modelled from   *)
(* how the wrappers use it and the events they listen to; of the requests  *)
(* that go out, the asynchronous ones.                                     *)
(***************************************************************************)
EXTENDS Integers, Sequences, FiniteSets

CONSTANTS MaxEntries,   \* bound: requests the page sends
          MaxDepth,     \* bound: events fired inside handlers of events
          Careless      \* what else page handlers do: "twice" sends again without
                        \* open(), "inOpen" opens or sends inside open()

ASSUME PageXhrAssumption ==
  MaxEntries \in Nat \ {0} /\ MaxDepth \in Nat \ {0}
  /\ Careless \subseteq {"twice", "inOpen"}

VARIABLES native,    \* the native object: its state, and the entry it carries
          net,       \* st.net is set: open() was called
          entry,     \* st.entry: index of the current request's entry, 0 for none
          netLog,    \* entries in the order of their creation: status and how they went
          wire,      \* entries whose request really was sent
          mock,      \* st.mock: entry, state, timer; NoMock
          delayed,   \* entries with a route delay timer still running
          delayTimer,\* st.delay_timer: the entry of the last one, 0 for none
          refused,   \* blocked entries whose error events are still to come
          xhrStack,  \* what goes on when the running page handler returns
          tangled    \* history: entries sent while an event of an earlier request is
                     \* still to reach the bridge's listeners

xhrVars ==
  <<native, net, entry, netLog, wire, mock, delayed, delayTimer, refused, xhrStack, tangled>>

NoMock == [of |-> 0, state |-> 0, timer |-> "none"]

XhrInit ==
  /\ native = [state |-> "unsent", of |-> 0]
  /\ net = FALSE /\ entry = 0 /\ netLog = <<>> /\ wire = {}
  /\ mock = NoMock /\ delayed = {} /\ delayTimer = 0 /\ refused = {}
  /\ xhrStack = <<>> /\ tangled = {}

Pending(i) == i # 0 /\ netLog[i].status = "pending"
xhrFinish(log, i, status) == [log EXCEPT ![i].status = status]
FinishIfPending(log, i, status) ==
  IF i # 0 /\ log[i].status = "pending" THEN xhrFinish(log, i, status) ELSE log

(* An event is fired for the request (or mock) of entry i: handlers run,    *)
(* then `after' goes on.                                                    *)
xhrFire(i, after) == xhrStack' = <<[of |-> i, after |-> after]>> \o xhrStack

PageRuns == Len(xhrStack) < MaxDepth

OnStack == {xhrStack[k] : k \in DOMAIN xhrStack}
Frame == Head(xhrStack)
Return == xhrStack' = Tail(xhrStack)
Continue(after) == xhrStack' = <<[Frame EXCEPT !.after = after]>> \o Tail(xhrStack)
Goes(after) == xhrStack # <<>> /\ Frame.after = after

(* The bridge's listeners, among those of the page.  An event reaches the   *)
(* listener when the page's earlier handlers have returned, and the later   *)
(* ones run before the next event: what is to come after each.              *)
Hooks == {"load", "error", "abort", "loadend", "nativeAbort", "nativeEnd", "mockAbort", "mockEnd"}
HookStatus(hook) ==
  CASE hook = "load" -> "ok"
    [] hook \in {"abort", "nativeAbort", "mockAbort"} -> "aborted"
    [] OTHER -> "error"
AfterHook(hook) ==
  CASE hook = "nativeAbort" -> "nativeEnd"
    [] hook = "nativeEnd" -> "unsent"
    [] hook = "mockAbort" -> "ends"
    [] hook = "mockEnd" -> "reset"
    [] OTHER -> "loadend"

(* Attached once, they settle the current entry, whichever request the      *)
(* event is of.  timeout is heard as error is.                              *)
xhrHook(hook) ==
  /\ Goes(hook)
  /\ netLog' = FinishIfPending(netLog, entry, HookStatus(hook))
  /\ IF hook = "loadend" THEN Return ELSE Continue(AfterHook(hook))
  /\ UNCHANGED <<native, net, entry, wire, mock, delayed, delayTimer, refused, tangled>>

HookAhead == \E f \in OnStack : f.after \in Hooks

(* send() has an entry of its own.                                          *)
xhrLog(how, status) ==
  /\ netLog' = Append(netLog, [status |-> status, how |-> how])
  /\ entry' = Len(netLog) + 1
  /\ tangled' = IF HookAhead THEN tangled \cup {Len(netLog) + 1} ELSE tangled

-----------------------------------------------------------------------------
(* open(): whatever was under way on this object is gone.  The native call  *)
(* fires readystatechange unless the object was OPENED already, as it is    *)
(* while a request waits for its headers; the wrapper replaces its own      *)
(* state only when that has returned.                                       *)
InOpen == \E f \in OnStack : f.after = "open"

Reopen ==
  /\ net' = TRUE /\ entry' = 0 /\ mock' = NoMock
  /\ netLog' = FinishIfPending(netLog, entry, "aborted")
  /\ delayed' = delayed \ {delayTimer} /\ delayTimer' = 0
  /\ UNCHANGED <<wire, refused, tangled>>

Open ==
  /\ PageRuns /\ (InOpen => "inOpen" \in Careless)
  /\ native' = [state |-> "opened", of |-> 0]
  /\ \/ native.state \in {"opened", "starting", "sent"} /\ Reopen /\ UNCHANGED xhrStack
     \/ native.state \in {"unsent", "sent", "done"} /\ xhrFire(0, "open")
        /\ UNCHANGED <<net, entry, netLog, wire, mock, delayed, delayTimer, refused, tangled>>

Opened == Goes("open") /\ Reopen /\ Return /\ UNCHANGED native

(* send() before open(), or after a mock was sent: not seen, or throws.     *)
CanSend ==
  /\ PageRuns /\ (InOpen => "inOpen" \in Careless)
  /\ net /\ mock = NoMock /\ Len(netLog) < MaxEntries

(* A page that sends again without open(): the native object throws, unless *)
(* a rule keeps the call from it.                                           *)
NotTwice == entry # 0 => "twice" \in Careless

(* The native send() fires loadstart, and goes on unless a handler aborted  *)
(* the request or sent another.                                             *)
NativeSend(i) ==
  /\ native' = [state |-> "starting", of |-> i]
  /\ xhrFire(i, "goOut")

GoOut ==
  /\ Goes("goOut")
  /\ IF native.state = "starting" /\ native.of = Frame.of
       THEN native' = [native EXCEPT !.state = "sent"] /\ wire' = wire \cup {Frame.of}
       ELSE UNCHANGED <<native, wire>>
  /\ Return
  /\ UNCHANGED <<net, entry, netLog, mock, delayed, delayTimer, refused, tangled>>

SendReal ==
  /\ CanSend /\ native.state = "opened" /\ NotTwice
  /\ xhrLog("network", "pending")
  /\ NativeSend(entry')
  /\ UNCHANGED <<net, wire, mock, delayed, delayTimer, refused>>

(* The native send() throws: the entry is taken back, the one before stays. *)
SendThrows ==
  /\ CanSend /\ native.state # "opened"
  /\ UNCHANGED xhrVars

SendBlocked ==
  /\ CanSend /\ NotTwice
  /\ xhrLog("blocked", "blocked")
  /\ refused' = refused \cup {entry'}
  /\ UNCHANGED <<native, net, wire, mock, delayed, delayTimer, xhrStack>>

(* It ends like a network failure, unless the page has moved on.            *)
BlockedEnds(i) ==
  /\ i \in refused /\ xhrStack = <<>>
  /\ refused' = refused \ {i}
  /\ IF i = entry THEN xhrFire(i, "error") ELSE UNCHANGED xhrStack
  /\ UNCHANGED <<native, net, entry, netLog, wire, mock, delayed, delayTimer, tangled>>

SendDelayed ==
  /\ CanSend /\ NotTwice
  /\ xhrLog("network", "pending")
  /\ delayed' = delayed \cup {entry'} /\ delayTimer' = entry'
  /\ UNCHANGED <<native, net, wire, mock, refused, xhrStack>>

(* The delay is over.  Re-opened or aborted meanwhile: nothing is sent.     *)
DelayOver(i) ==
  /\ i \in delayed /\ xhrStack = <<>>
  /\ delayed' = delayed \ {i}
  /\ delayTimer' = IF delayTimer = i THEN 0 ELSE delayTimer
  /\ IF i = entry /\ Pending(i)
       THEN IF native.state = "opened"
              THEN NativeSend(i) /\ UNCHANGED netLog
              ELSE netLog' = xhrFinish(netLog, i, "error") /\ UNCHANGED <<native, xhrStack>>
       ELSE UNCHANGED <<native, netLog, xhrStack>>
  /\ UNCHANGED <<net, entry, wire, mock, refused, tangled>>

(* xhrFulfill: asynchronous, after loadstart a timer is armed; or           *)
(* synchronous, and the answer is complete before send() returns.           *)
SendMocked(timer) ==
  /\ CanSend /\ NotTwice
  /\ xhrLog("mock", "pending")
  /\ mock' = [of |-> entry', state |-> 1, timer |-> "none"]
  /\ xhrFire(entry', IF timer = "answer" THEN "armAnswer" ELSE "armTimeout")
  /\ UNCHANGED <<native, net, wire, delayed, delayTimer, refused>>

SendMockedSync ==
  /\ CanSend /\ NotTwice
  /\ xhrLog("mock", "mocked")
  /\ mock' = [of |-> entry', state |-> 4, timer |-> "none"]
  /\ xhrFire(entry', "answered")
  /\ UNCHANGED <<native, net, wire, delayed, delayTimer, refused>>

-----------------------------------------------------------------------------
(* The answer of a mock, one event at a time.                               *)
Moved(i, state) == mock.of # i \/ mock.state # state
Disarmed(state) == [of |-> mock.of, state |-> state, timer |-> "none"]

(* The answer's first events are those of the upload.                       *)
TimerFires ==
  /\ xhrStack = <<>> /\ mock.timer # "none"
  /\ IF mock.state # 1
       THEN mock' = Disarmed(mock.state) /\ UNCHANGED <<netLog, xhrStack>>
     ELSE IF mock.timer = "answer"
       THEN mock' = Disarmed(1) /\ xhrFire(mock.of, "uploaded") /\ UNCHANGED netLog
       ELSE /\ mock' = Disarmed(4)
            /\ netLog' = xhrFinish(netLog, mock.of, "timeout")
            /\ xhrFire(mock.of, "error")
  /\ UNCHANGED <<native, net, entry, wire, delayed, delayTimer, refused, tangled>>

(* The page changes xhr.timeout: the timer is armed again, for what now     *)
(* comes first.                                                             *)
Rearm(timer) ==
  /\ PageRuns /\ mock.timer # "none" /\ timer # mock.timer
  /\ mock' = [mock EXCEPT !.timer = timer]
  /\ UNCHANGED <<native, net, entry, netLog, wire, delayed, delayTimer, refused, xhrStack, tangled>>

(* After loadstart: the timer, unless a handler moved the object on.        *)
Arm(timer) ==
  /\ Goes(IF timer = "answer" THEN "armAnswer" ELSE "armTimeout")
  /\ mock' = IF Moved(Frame.of, 1) THEN mock ELSE [mock EXCEPT !.timer = timer]
  /\ Return
  /\ UNCHANGED <<native, net, entry, netLog, wire, delayed, delayTimer, refused, tangled>>

Abandon(after, state) ==
  /\ Goes(after) /\ Moved(Frame.of, state)
  /\ Return
  /\ UNCHANGED <<native, net, entry, netLog, wire, mock, delayed, delayTimer, refused, tangled>>

(* HEADERS_RECEIVED, and LOADING if there is a body.                        *)
Advance(after, state, next) ==
  /\ Goes(after) /\ ~Moved(Frame.of, state)
  /\ mock' = [mock EXCEPT !.state = state + 1]
  /\ Continue(next)
  /\ UNCHANGED <<native, net, entry, netLog, wire, delayed, delayTimer, refused, tangled>>

xhrMockEnd ==
  /\ \/ Goes("headers") /\ ~Moved(Frame.of, 2)
     \/ Goes("loading") /\ ~Moved(Frame.of, 3)
  /\ netLog' = xhrFinish(netLog, Frame.of, "mocked")
  /\ mock' = [mock EXCEPT !.state = 4]
  /\ Continue("answered")
  /\ UNCHANGED <<native, net, entry, wire, delayed, delayTimer, refused, tangled>>

(* The object is still at DONE for this mock: its next event is fired.      *)
StillDone(after, hook) ==
  /\ Goes(after) /\ ~Moved(Frame.of, 4)
  /\ Continue(hook)
  /\ UNCHANGED <<native, net, entry, netLog, wire, mock, delayed, delayTimer, refused, tangled>>

-----------------------------------------------------------------------------
(* abort().                                                                 *)
xhrMockAbort ==
  /\ PageRuns /\ mock # NoMock
  /\ IF mock.state \in 1..3
       THEN /\ mock' = Disarmed(4)
            /\ netLog' = FinishIfPending(netLog, entry, "aborted")
            /\ xhrFire(mock.of, "aborts")
       ELSE /\ mock' = Disarmed(0)
            /\ UNCHANGED <<netLog, xhrStack>>
  /\ UNCHANGED <<native, net, entry, wire, delayed, delayTimer, refused, tangled>>

(* The events of an abort are handled: the object reads as UNSENT.          *)
MockReset ==
  /\ Goes("reset")
  /\ mock' = IF mock.of = Frame.of THEN [mock EXCEPT !.state = 0] ELSE mock
  /\ Return
  /\ UNCHANGED <<native, net, entry, netLog, wire, delayed, delayTimer, refused, tangled>>

AbortDelayed ==
  /\ PageRuns /\ mock = NoMock /\ delayTimer # 0
  /\ delayed' = delayed \ {delayTimer} /\ delayTimer' = 0
  /\ netLog' = FinishIfPending(netLog, entry, "aborted")
  /\ xhrFire(entry, "abort")
  /\ UNCHANGED <<native, net, entry, wire, mock, refused, tangled>>

(* The native abort().  In flight: readystatechange, abort and loadend,     *)
(* whatever their handlers do.  Done: no event.                             *)
NativeUnsent ==
  native' = IF native.state = "done" THEN [state |-> "unsent", of |-> 0] ELSE native

AbortInFlight ==
  /\ native.state \in {"starting", "sent"}
  /\ native' = [native EXCEPT !.state = "done"]
  /\ xhrFire(entry, "nativeAbort")
  /\ UNCHANGED netLog

(* A mistaken AbortReal: leaves the entry to the events of the native abort. *)
AbortByEvents ==
  /\ PageRuns /\ mock = NoMock /\ delayTimer = 0
  /\ \/ AbortInFlight
     \/ /\ native.state \notin {"starting", "sent"}
        /\ NativeUnsent /\ UNCHANGED <<netLog, xhrStack>>
  /\ UNCHANGED <<net, entry, wire, mock, delayed, delayTimer, refused, tangled>>

(* The wrapper closes the entry that was current before the call, which     *)
(* nothing else does where the native abort fires no event.                 *)
AbortReal ==
  /\ PageRuns /\ mock = NoMock /\ delayTimer = 0
  /\ \/ AbortInFlight
     \/ /\ native.state \notin {"starting", "sent"}
        /\ NativeUnsent /\ UNCHANGED xhrStack
        /\ netLog' = FinishIfPending(netLog, entry, "aborted")
  /\ UNCHANGED <<net, entry, wire, mock, delayed, delayTimer, refused, tangled>>

AbortReturns ==
  /\ Goes("unsent")
  /\ NativeUnsent
  /\ netLog' = FinishIfPending(netLog, Frame.of, "aborted")
  /\ Return
  /\ UNCHANGED <<net, entry, wire, mock, delayed, delayTimer, refused, tangled>>

-----------------------------------------------------------------------------
(* The native request ends: readystatechange, and then load unless a        *)
(* handler moved the object on, or error in any case.                       *)
NativeDone(event) ==
  /\ xhrStack = <<>> /\ native.state = "sent"
  /\ native' = [native EXCEPT !.state = "done"]
  /\ xhrFire(native.of, event)
  /\ UNCHANGED <<net, entry, netLog, wire, mock, delayed, delayTimer, refused, tangled>>

NativeLoads ==
  /\ Goes("loads")
  /\ IF native.state = "done" THEN Continue("load") ELSE Return
  /\ UNCHANGED <<native, net, entry, netLog, wire, mock, delayed, delayTimer, refused, tangled>>

XhrNext ==
  \/ Open \/ Opened
  \/ SendReal \/ GoOut \/ SendThrows \/ SendBlocked \/ SendDelayed \/ SendMockedSync
  \/ \E timer \in {"answer", "timeout"} : SendMocked(timer) \/ Rearm(timer) \/ Arm(timer)
  \/ \E i \in delayed : DelayOver(i)
  \/ \E i \in refused : BlockedEnds(i)
  \/ TimerFires
  \/ Advance("uploaded", 1, "headers") \/ Advance("headers", 2, "loading") \/ xhrMockEnd
  \/ StillDone("answered", "load") \/ StillDone("aborts", "mockAbort") \/ StillDone("ends", "mockEnd")
  \/ Abandon("uploaded", 1) \/ Abandon("headers", 2) \/ Abandon("loading", 3)
  \/ Abandon("answered", 4) \/ Abandon("aborts", 4) \/ Abandon("ends", 4)
  \/ xhrMockAbort \/ MockReset \/ AbortDelayed \/ AbortReal \/ AbortReturns
  \/ \E event \in {"loads", "error"} : NativeDone(event)
  \/ NativeLoads
  \/ \E hook \in Hooks : xhrHook(hook)

XhrSpec == XhrInit /\ [][XhrNext]_xhrVars

-----------------------------------------------------------------------------
(* What can still settle the current request, and, for what goes on after   *)
(* an event, finds it as it has to.                                         *)
Settles(f) ==
  /\ f.of = entry
  /\ CASE f.after = "goOut" -> native = [state |-> "starting", of |-> entry]
       [] f.after = "loads" -> native.state = "done"
       [] f.after \in {"armAnswer", "armTimeout", "uploaded"} -> ~Moved(entry, 1)
       [] f.after = "headers" -> ~Moved(entry, 2)
       [] f.after = "loading" -> ~Moved(entry, 3)
       [] OTHER -> f.after \in {"load", "error", "nativeAbort"}

OnItsWay ==
  \/ native = [state |-> "sent", of |-> entry]
  \/ entry \in delayed \/ InOpen
  \/ ~Moved(entry, 1) /\ mock.timer # "none"
  \/ \E f \in OnStack : Settles(f)

(* An entry is pending only while it is the current one and something will  *)
(* still settle it: a request the page abandoned, aborted or replaced, even *)
(* inside a handler of its own events, never stays pending and holds        *)
(* wait_for network_idle off.                                               *)
PendingIsOnItsWay ==
  \A i \in DOMAIN netLog : Pending(i) => i = entry /\ OnItsWay

(* The log says what happened.  What a rule answered or blocked was never   *)
(* sent.  And unless the request was sent inside a handler of the last      *)
(* events of an earlier one, which then reach its entry: once it has an     *)
(* outcome nothing rewrites it, an answer is that of its own request, and   *)
(* what is logged as aborted before it was sent never is.                   *)
LogStaysTrue ==
  /\ \A i \in wire' : netLog'[i].how = "network"
  /\ \A i \in DOMAIN netLog \ tangled :
       /\ ~Pending(i) => netLog'[i] = netLog[i]
       /\ Pending(i) /\ netLog'[i].status = "ok"
            => i \in wire /\ native = [state |-> "done", of |-> i]
       /\ netLog[i].status = "aborted" /\ i \notin wire => i \notin wire'
=============================================================================
