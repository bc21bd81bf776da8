----------------------------- MODULE TestClient -----------------------------
(***************************************************************************)
(* The test client: its locators, which look at the page until an           *)
(* expectation holds, and its checks, which conclude from the log of        *)
(* requests what the page did.  The two share no state.                     *)
(***************************************************************************)
EXTENDS Integers, Sequences, SequencesExt

(* The locators of the test client: an expectation polls the page until it  *)
(* holds or its time is up.  One attempt is up to three calls (the query,   *)
(* the conditions the query could not answer, the read), and the page may   *)
(* change, navigate or die between any two of them.                         *)

CONSTANTS Order,        \* the elements in document order
          Forms,        \* what an element of the page can be like
          Expectations, \* the expectations and actions a test states
          MaxMatches,   \* MAX_MATCHES
          MaxPolls,     \* bound: attempts before the deadline has passed
          MaxChanges    \* bound: changes of the page during a call

ASSUME LocatorsAssumption == MaxMatches \in Nat /\ MaxPolls \in Nat /\ MaxChanges \in Nat

(* An element: attached; "hidden" by style, "flat" (not hidden, nothing to  *)
(* see) or "seen"; enabled; with the wanted text; a "plain" element, or one *)
(* with a checked state: a "native" box, a "radio", an "aria" box.          *)
Form(in, shown, enabled, match, kind, on) ==
  [in |-> in, shown |-> shown, enabled |-> enabled, match |-> match, kind |-> kind, on |-> on]

(* What a test states: the matcher, whether .not() was said, whether the    *)
(* locator has a text condition, the position picked, and whether the       *)
(* plugin is older than the query key of that condition.                    *)
Stated(what, neg, cond, pick, old) ==
  [what |-> what, neg |-> neg, cond |-> cond, pick |-> pick, old |-> old]

VARIABLES dom,       \* "ready", "empty" (no body yet) or "dead", and the elements
          stated, step, found, polls, changes, outcome,
          rendering, \* elements whose checked state the page will re-render
          steady,    \* ghost: nothing changed since the last attempt began
          asked      \* ghost: what the page was at each call of the last attempt
locatorVars == <<dom, stated, step, found, polls, changes, outcome, rendering, steady, asked>>

Elements == Range(Order)
-----------------------------------------------------------------------------
LocatorInit ==
  /\ dom \in [at : {"ready", "empty"}, el : [Elements -> Forms]]
  /\ stated \in Expectations
  /\ step = "find" /\ found = <<>> /\ polls = 0 /\ changes = 0 /\ outcome = "none"
  /\ rendering = {} /\ steady = TRUE /\ asked = {}

(* The application changes an element, navigates, loads or dies.            *)
PageChanges ==
  /\ outcome = "none" /\ changes < MaxChanges
  /\ \/ \E e \in Elements, f \in Forms :
          dom.at = "ready" /\ f # dom.el[e] /\ dom' = [dom EXCEPT !.el[e] = f]
     \/ \E at \in {"ready", "empty", "dead"} \ {dom.at} :
          dom.at # "dead" /\ dom' = [dom EXCEPT !.at = at]
  /\ changes' = changes + 1 /\ steady' = FALSE /\ rendering' = {}
  /\ UNCHANGED <<stated, step, found, polls, outcome, asked>>

(* A framework shows the toggled state some time after the click.           *)
Rerender(e) ==
  /\ e \in rendering /\ outcome = "none"
  /\ dom' = [dom EXCEPT !.el[e].on = ~@]
  /\ rendering' = rendering \ {e}
  /\ UNCHANGED <<stated, step, found, polls, changes, outcome, steady, asked>>
-----------------------------------------------------------------------------
Acts == {"click", "check", "uncheck"}
Waits == stated.what \notin Acts \cup {"get"}
(* Actions, to_be_visible and to_be_hidden choose among the elements that   *)
(* are not hidden; everything else sees the whole document.                 *)
include_hidden == stated.what \notin Acts \cup {"visible", "hidden"}
negated == stated.neg # (stated.what \in {"hidden", "disabled"})
(* A mistaken absent_passes: whatever is negated passes without an element. *)
absent_negated == stated.what \in {"visible", "hidden", "enabled", "disabled"} /\ negated
absent_passes == stated.what \in {"visible", "hidden"} /\ negated

Returns(r) == outcome' = r /\ step' = "done" /\ UNCHANGED polls
(* Not met: the deadline has passed, or one more attempt after the pause.   *)
NotYet(r) ==
  IF Waits /\ polls < MaxPolls
  THEN step' = "find" /\ polls' = polls + 1 /\ UNCHANGED outcome
  ELSE Returns(r)

pick_one(list) ==
  LET at == CASE stated.pick = "first" -> 1 [] stated.pick = "last" -> Len(list) [] OTHER -> 2
  IN IF at \in DOMAIN list THEN {list[at]} ELSE {}

(* to_have_count, poll_attached and poll_until_simple judge what was found; *)
(* a read and an action go on with the element picked.                      *)
Judge(list) ==
  LET one == pick_one(list)
      Pass(b) == IF b THEN Returns("ok") ELSE NotYet("timeout")
  IN CASE stated.what = "count" -> Pass((Len(list) = 1) # stated.neg) /\ UNCHANGED found
       [] stated.what \in {"attached", "detached"} ->
            Pass((one # {}) = ((stated.what = "attached") # stated.neg)) /\ UNCHANGED found
       [] OTHER ->
            IF one = {} THEN /\ IF absent_passes THEN Returns("ok") ELSE NotYet("not found")
                             /\ UNCHANGED found
            ELSE LET el == CHOOSE el \in one : TRUE IN
                 CASE stated.what \in {"visible", "hidden"} ->
                        Pass(el.visible # negated) /\ UNCHANGED found
                   [] stated.what \in {"enabled", "disabled"} ->
                        Pass(el.enabled # negated) /\ UNCHANGED found
                   [] OTHER -> /\ step' = "use" /\ found' = <<el>>
                               /\ UNCHANGED <<polls, outcome>>

(* find: what the query answers, by whether it carries the condition.       *)
build_query(e) ==
  /\ dom.el[e].in
  /\ include_hidden \/ dom.el[e].shown # "hidden"
  /\ ~stated.cond \/ stated.old \/ dom.el[e].match
find_elements ==
  /\ step = "find"
  /\ steady' = TRUE /\ asked' = {dom.at}
  /\ LET hits == SelectSeq(Order, build_query)
         list == [i \in DOMAIN hits |-> [e |-> hits[i], visible |-> dom.el[hits[i]].shown = "seen",
                                         enabled |-> dom.el[hits[i]].enabled]]
     IN CASE dom.at = "dead" -> Returns("failed") /\ UNCHANGED found
          [] dom.at = "empty" -> NotYet("not ready") /\ UNCHANGED found
          [] OTHER -> IF Len(hits) > MaxMatches THEN Returns("too many") /\ UNCHANGED found
                      ELSE IF stated.cond /\ hits # <<>>
                      THEN step' = "filter" /\ found' = list /\ UNCHANGED <<polls, outcome>>
                      ELSE Judge(list)
  /\ UNCHANGED <<dom, stated, changes, rendering>>

(* A ref resolves in the document it was handed out in, while attached.     *)
getRef(e) == dom.at = "ready" /\ dom.el[e].in
page_conditions(el) == getRef(el.e) /\ dom.el[el.e].match
apply_page_filters ==
  /\ step = "filter" /\ asked' = asked \cup {dom.at}
  /\ IF dom.at = "dead" THEN Returns("failed") /\ UNCHANGED found
     ELSE Judge(SelectSeq(found, page_conditions))
  /\ UNCHANGED <<dom, stated, changes, rendering, steady>>
-----------------------------------------------------------------------------
Picked == found[1].e
State == dom.el[Picked]

(* poll_read with checked_read_js: an element that went stale is "not yet", *)
(* one without a checked state an error.                                    *)
poll_read ==
  /\ step = "use" /\ Waits /\ asked' = asked \cup {dom.at}
  /\ CASE dom.at = "dead" -> Returns("failed")
       [] dom.at # "dead" /\ ~getRef(Picked) -> NotYet("not found")
       [] OTHER -> IF State.kind = "plain" THEN Returns("no state")
                   ELSE IF (State.on = (stated.what = "checked")) # stated.neg
                   THEN Returns("ok") ELSE NotYet("timeout")
  /\ UNCHANGED <<dom, stated, found, changes, rendering, steady>>

(* Any other action, and a value read once.                                 *)
use_element ==
  /\ step = "use" /\ stated.what \in {"click", "get"} /\ asked' = asked \cup {dom.at}
  /\ Returns(IF dom.at = "dead" THEN "failed" ELSE IF getRef(Picked) THEN "ok" ELSE "not found")
  /\ UNCHANGED <<dom, stated, found, changes, rendering, steady>>

(* set_checked_js: clicks only when the state differs, then waits for it.   *)
want == stated.what = "check"
set_checked ==
  /\ step = "use" /\ stated.what \in {"check", "uncheck"} /\ asked' = asked \cup {dom.at}
  /\ CASE ~getRef(Picked) -> /\ Returns(IF dom.at = "dead" THEN "failed" ELSE "not found")
                             /\ UNCHANGED <<dom, rendering>>
       [] getRef(Picked) /\ State.on = want -> Returns("ok") /\ UNCHANGED <<dom, rendering>>
       [] getRef(Picked) /\ State.on # want ->
            CASE ~want /\ State.kind = "radio" -> Returns("refused") /\ UNCHANGED <<dom, rendering>>
              [] State.kind = "native" \/ (want /\ State.kind = "radio") ->
                   /\ dom' = [dom EXCEPT !.el[Picked].on = want]
                   /\ Returns("ok") /\ UNCHANGED rendering
              [] OTHER -> /\ rendering' = IF State.kind = "aria" THEN {Picked} ELSE {}
                          /\ step' = "await" /\ UNCHANGED <<dom, polls, outcome>>
  /\ UNCHANGED <<stated, found, changes, steady>>
AwaitChecked ==
  /\ step = "await"
  /\ Returns(IF dom.at # "ready" THEN "failed" ELSE IF State.on = want THEN "ok" ELSE "unchanged")
  /\ UNCHANGED <<dom, stated, found, changes, rendering, steady, asked>>

LocatorNext ==
  \/ PageChanges \/ \E e \in Elements : Rerender(e)
  \/ find_elements \/ apply_page_filters \/ poll_read \/ use_element \/ set_checked \/ AwaitChecked
LocatorSpec == LocatorInit /\ [][LocatorNext]_locatorVars
-----------------------------------------------------------------------------
(* What a matcher means on a page that stands still.                        *)
Matching(scope(_)) ==
  SelectSeq(Order, LAMBDA e : dom.el[e].in /\ (stated.cond => dom.el[e].match) /\ scope(dom.el[e]))
All == Matching(LAMBDA f : TRUE)
Shown == Matching(LAMBDA f : f.shown # "hidden")
Is(list, field(_)) == \E e \in pick_one(list) : field(dom.el[e])
Holds ==
  CASE stated.what = "count" -> (Len(All) = 1) # stated.neg
    [] stated.what = "attached" -> Is(All, LAMBDA f : TRUE) # stated.neg
    [] stated.what = "detached" -> Is(All, LAMBDA f : TRUE) = stated.neg
    [] stated.what = "visible" -> Is(Shown, LAMBDA f : f.shown = "seen") # stated.neg
    [] stated.what = "hidden" -> Is(Shown, LAMBDA f : f.shown = "seen") = stated.neg
    [] stated.what = "enabled" -> Is(All, LAMBDA f : f.enabled # stated.neg)
    [] stated.what = "disabled" -> Is(All, LAMBDA f : f.enabled = stated.neg)
    [] stated.what = "checked" -> Is(All, LAMBDA f : f.kind # "plain" /\ f.on # stated.neg)
    [] stated.what = "unchecked" -> Is(All, LAMBDA f : f.kind # "plain" /\ f.on = stated.neg)
    [] stated.what = "get" -> Is(All, LAMBDA f : TRUE)
    [] stated.what = "click" -> Is(Shown, LAMBDA f : TRUE)
    [] stated.what = "check" -> Is(Shown, LAMBDA f : f.on)
    [] stated.what = "uncheck" -> Is(Shown, LAMBDA f : ~f.on)

(* If the page stood still during the last attempt of an expectation, the   *)
(* expectation passed exactly when it holds of that page: nothing passes    *)
(* for want of an element, a hidden duplicate or a plugin that ignores a    *)
(* query key changes nothing, and check() that returns has checked.         *)
SteadyPagesAreJudged ==
  outcome \notin {"none", "too many", "unchanged"} /\ steady /\ dom.at = "ready" =>
    ((outcome = "ok") <=> Holds)
-----------------------------------------------------------------------------
(* What tests and tools conclude from the page's log of requests: a command *)
(* was or was not called, has no handler, is covered by tests, was called   *)
(* since a checkpoint.  The log is a ring shared by IPC calls and other     *)
(* requests; a conclusion takes several reads, and the page goes on calling,*)
(* reloads or has its log cleared between any two of them.                  *)

CONSTANTS Commands,     \* names the page invokes
          Handled,      \* those with a handler in the application
          Registered,   \* those in the introspection registry
          Window,       \* LOG_WINDOW, the size of the ring
          MaxInvokes,   \* bound: requests
          MaxTime,      \* bound: the clock
          MaxReloads    \* bound: reloads and clears
ASSUME VerdictsAssumption ==
  /\ Handled \subseteq Commands /\ Registered \subseteq Commands
  /\ Window \in Nat \ {0} /\ MaxInvokes \in Nat /\ MaxTime \in Nat /\ MaxReloads \in Nat

VARIABLES ring,      \* the requests the bridge holds, oldest first
          capture,   \* "full", or "none": the page's IPC cannot be observed
          answers,   \* FALSE: privacy settings disable the tools that tell
          clock, reloads,
          calls,     \* number of requests so far
          invoked,   \* ghost: what this document requested, and what passed the routes
          check,     \* the conclusion being drawn, and what has been read for it
          mark       \* the checkpoint of the test
verdictVars == <<ring, capture, answers, clock, reloads, calls, invoked, check, mark>>

NoCheck == [kind |-> "none", of |-> "", step |-> "none", found |-> FALSE, short |-> FALSE,
            seen |-> <<>>, before |-> {}, torn |-> FALSE, verdict |-> "none"]
NoMark == [at |-> 0, step |-> "none", held |-> 0, made |-> 0, kept |-> {}, since |-> {}]
-----------------------------------------------------------------------------
VerdictInit ==
  /\ ring = <<>> /\ calls = 0 /\ invoked = {} /\ capture \in {"full", "none"} /\ answers \in BOOLEAN
  /\ clock = 1 /\ reloads = 0 /\ check = NoCheck /\ mark = NoMark

(* The page's own requests.  Over fetch the outcome is the handler's; over  *)
(* postMessage the page can stage it; a route rule answers without handler. *)
Outcomes(c, via) ==
  IF via = "post_message" THEN {"ok", "missing"}
  ELSE IF via = "route" THEN {"ok"}
  ELSE IF c \in Handled THEN {"ok", "error", "pending"} ELSE {"missing"}
Logged(r) == r.command = "" \/ capture = "full"
Pushed(r) ==
  LET all == Append(ring, r)
  IN IF Len(all) > Window THEN Tail(all) ELSE all
Request(c, via, status) ==
  /\ calls < MaxInvokes /\ check.step # "done" /\ mark.step # "listed"
  /\ LET r == [n |-> calls + 1, command |-> c, via |-> via, status |-> status, at |-> clock]
     IN /\ calls' = calls + 1 /\ invoked' = invoked \cup {<<c, via = "route">>}
        /\ ring' = IF Logged(r) THEN Pushed(r) ELSE ring
  /\ UNCHANGED <<capture, answers, clock, reloads, check, mark>>
PageRequests ==
  \/ \E c \in Commands, via \in {"fetch", "post_message", "route"} :
       \E status \in Outcomes(c, via) : Request(c, via, status)
  \/ Request("", "fetch", "ok")

Tick == /\ clock < MaxTime /\ check.step = "none" /\ clock' = clock + 1
        /\ UNCHANGED <<ring, capture, answers, reloads, calls, invoked, check, mark>>

(* A reload, or another client's logs clear.                                *)
Forget ==
  /\ reloads < MaxReloads /\ check.step # "done" /\ reloads' = reloads + 1
  /\ ring' = <<>> /\ invoked' = {} /\ mark' = NoMark
  /\ check' = [check EXCEPT !.torn = @ \/ check.verdict = "none"]
  /\ UNCHANGED <<capture, answers, clock, calls>>
-----------------------------------------------------------------------------
(* VerifyBuilder: each check is on reads of its own, so one at a time.      *)
Kinds == {"called", "not called", "no request", "ghosts", "coverage", "coverage from log"}
StartCheck(kind, c) ==
  /\ check.step = "none" /\ mark.step = "none"
  /\ check' = [NoCheck EXCEPT !.kind = kind, !.of = c, !.step = "log"]
  /\ UNCHANGED <<ring, capture, answers, clock, reloads, calls, invoked, mark>>

Ipc(r) == r.command # ""
Conclude(k, v) == [k EXCEPT !.step = "done", !.verdict = v]
Passed(b) == IF b THEN "passed" ELSE "failed"

(* The log read.  What is found settles a positive check and fails a        *)
(* negative one; "not found" needs to know whether anything was missed.     *)
ReadLog ==
  /\ check.step = "log"
  /\ LET log == IF check.kind = "no request" THEN ring ELSE SelectSeq(ring, Ipc)
         seen == \E i \in DOMAIN log : log[i].command = check.of
         k == [check EXCEPT !.found = seen, !.short = Len(log) < Window, !.seen = log,
                            !.before = invoked]
     IN check' = CASE check.kind = "called" -> Conclude(k, Passed(seen))
                   [] check.kind = "no request" ->
                        Conclude(k, IF seen THEN "failed"
                                    ELSE IF k.short THEN "passed" ELSE "inconclusive")
                   [] check.kind = "not called" ->
                        IF seen THEN Conclude(k, "failed") ELSE [k EXCEPT !.step = "blind"]
                   [] check.kind \in {"ghosts", "coverage"} -> [k EXCEPT !.step = "blind"]
                   [] OTHER -> Conclude(k, "reported")
  /\ UNCHANGED <<ring, capture, answers, clock, reloads, calls, invoked, mark>>

(* A read that fails fails the check; a transport error ends the run.       *)
ReadFails ==
  /\ check.step \notin {"none", "done"}
  /\ check' = Conclude(check, "failed")
  /\ UNCHANGED <<ring, capture, answers, clock, reloads, calls, invoked, mark>>

(* build_ghost_report: by outcomes, those a page can stage kept apart.      *)
Of(log, c) == {log[i] : i \in {j \in DOMAIN log : log[j].command = c /\ log[j].via # "route"}}
Proven(log, c, status) == \E r \in Of(log, c) : r.status = status /\ r.via # "post_message"
handled(log) == {c \in Commands : Proven(log, c, "ok")}
confirmed(log) == {c \in Commands \ handled(log) : Proven(log, c, "missing")}
post_message_only(log) ==
  {c \in Commands : Of(log, c) # {} /\ \A r \in Of(log, c) : r.via = "post_message"}
frontend_only(log) ==
  {c \in Commands \ Registered : Of(log, c) # {}}
    \ (handled(log) \cup confirmed(log) \cup post_message_only(log))
(* introspect coverage, and coverage_report's own count on an old plugin.   *)
covered(log) == {c \in Registered : Of(log, c) # {}}
build_report(called) == [tested |-> Registered \cap called, untested |-> Registered \ called]
coverage_report(log) == build_report(covered(log))

(* ipc_blind_note, ipc_capture_status: can the page's IPC be observed?      *)
ReadCapture ==
  /\ check.step = "blind"
  /\ check' = IF answers /\ capture = "none" /\ check.kind # "coverage"
              THEN Conclude(check, "inconclusive")
              ELSE CASE check.kind = "not called" -> [check EXCEPT !.step = "full"]
                     [] check.kind = "ghosts" -> Conclude(check, Passed(confirmed(check.seen) = {}))
                     [] OTHER -> Conclude(check, "reported")
  /\ UNCHANGED <<ring, capture, answers, clock, reloads, calls, invoked, mark>>

(* network_log_is_full: the IPC list can be short of a full log. *)
network_log_is_full == ~check.short \/ (answers /\ Len(ring) >= Window)
ReadFull ==
  /\ check.step = "full"
  /\ check' = Conclude(check, IF network_log_is_full THEN "inconclusive" ELSE "passed")
  /\ UNCHANGED <<ring, capture, answers, clock, reloads, calls, invoked, mark>>
-----------------------------------------------------------------------------
(* create_ipc_checkpoint: the newest timestamp, returned once the clock has *)
(* passed it; ipc_calls_since: what is newer.                               *)
Newest == LET log == SelectSeq(ring, Ipc) IN IF log = <<>> THEN 0 ELSE log[Len(log)].at
ReadMark ==
  /\ mark.step = "none" /\ check.step = "none"
  /\ mark' = [NoMark EXCEPT !.at = Newest, !.step = "waiting", !.held = calls]
  /\ UNCHANGED <<ring, capture, answers, clock, reloads, calls, invoked, check>>
PastMark == mark.at = 0 \/ mark.at < clock
ReturnMark ==
  /\ mark.step = "waiting" /\ PastMark
  /\ mark' = [mark EXCEPT !.step = "set", !.made = calls]
  /\ UNCHANGED <<ring, capture, answers, clock, reloads, calls, invoked, check>>
ipc_calls_since ==
  /\ mark.step = "set"
  /\ mark' = [mark EXCEPT !.step = "listed", !.kept = Range(ring),
                          !.since = {r \in Range(ring) : Ipc(r) /\ r.at > mark.at}]
  /\ UNCHANGED <<ring, capture, answers, clock, reloads, calls, invoked, check>>

VerdictNext ==
  \/ PageRequests \/ Tick \/ Forget
  \/ \E kind \in Kinds, c \in Commands : StartCheck(kind, IF kind = "no request" THEN "" ELSE c)
  \/ ReadLog \/ ReadFails \/ ReadCapture \/ ReadFull
  \/ ReadMark \/ ReturnMark \/ ipc_calls_since
VerdictSpec == VerdictInit /\ [][VerdictNext]_verdictVars
-----------------------------------------------------------------------------
(* A check passes only for what is so: a command it says was called was, and*)
(* one it says was not called had not been when the log was read - although *)
(* the ring forgets and the calls share it - unless the log was lost under  *)
(* the check or the application refuses the reads that tell.                *)
PassesAreTrue ==
  check.verdict = "passed" =>
    CASE check.kind = "called" -> \E r \in check.before : r[1] = check.of
      [] check.kind \in {"not called", "no request"} ->
           answers /\ ~check.torn => ~ \E r \in check.before : r[1] = check.of
      [] OTHER -> TRUE

(* What a report says of a command is so whatever the page stages: a        *)
(* confirmed ghost has no handler, a verified handler exists, and a covered *)
(* command was invoked past the route rules.                                *)
ReportsAreTrue ==
  check.verdict # "none" =>
    /\ confirmed(check.seen) \cap Handled = {} /\ handled(check.seen) \subseteq Handled
    /\ \A c \in coverage_report(check.seen).tested : <<c, FALSE>> \in check.before
    /\ frontend_only(check.seen) \cap Registered = {}

(* The calls since a checkpoint are all those made after it was returned    *)
(* that the log still holds, and none it held when the checkpoint was read. *)
SinceIsExact ==
  mark.step = "listed" =>
    /\ \A r \in mark.since : r.n > mark.held
    /\ {r \in mark.kept : Ipc(r) /\ r.n > mark.made} \subseteq mark.since

(* Together: what a test is told of the commands of its application is so.  *)
ChecksAreTrue == PassesAreTrue /\ ReportsAreTrue /\ SinceIsExact
=============================================================================
