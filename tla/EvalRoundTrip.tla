---------------------------- MODULE EvalRoundTrip ----------------------------
(***************************************************************************)
(* One window's eval calls, from the tool handler (eval_outcome,           *)
(* probe_bridge and page_replaced in mcp/mod.rs) to the page and back      *)
(* (the injected scripts and the bridge's _evalBegin / _evalCheck /        *)
(* _evalSettle in js_bridge.rs).  A call probes the page, injects its      *)
(* code, injects a parse check behind it, and waits: for the result, for   *)
(* a ready signal of another page, for its deadline, for the app to exit.  *)
(* Meanwhile the window navigates, page script forges ready signals, the   *)
(* UI thread answers late or not at all, and callbacks arrive late.        *)
(*                                                                         *)
(* The main-thread round trips are used as SerializedCalls promises them:  *)
(* delivered, never to be delivered, or started with unknown outcome.      *)
(***************************************************************************)
EXTENDS Naturals, Sequences, FiniteSets

CONSTANTS Calls,     \* agent eval calls
          Bridged,   \* pages (their nonces) that carry the Victauri bridge
          Plain,     \* pages without it: they report no nonce
          First,     \* the page shown at the start
          NoNonce,   \* the missing nonce
          NoPage,    \* the window is closed
          BfCache,   \* whether the webview restores pages it navigated from
          MaxNavs,   \* bound: navigations of the window
          MaxForged, \* bound: ready signals sent by page script
          MaxProbes  \* bound: confirmation probes per call

Pages == Bridged \cup Plain

ASSUME EvalAssumption ==
    /\ First \in Pages
    /\ Bridged \cap Plain = {}
    /\ NoNonce \notin Pages
    /\ NoPage \notin Pages
    /\ BfCache \in BOOLEAN
    /\ MaxNavs \in Nat
    /\ MaxForged \in Nat
    /\ MaxProbes \in Nat

Nonces == Bridged \cup {NoNonce}
NonceOf(p) == IF p \in Bridged THEN p ELSE NoNonce

VARIABLES
    \* the tool handler, per call
    pc,        \* where eval_outcome is
    late,      \* whether its current deadline has passed
    armed,     \* nonce of the page that answered its probe
    seen,      \* loads_seen
    prior,     \* loads_seen before the signal being confirmed
    probe,     \* number of its latest probe
    checked,   \* parse_check_armed
    rx,        \* what its result channel holds
    outcome,   \* how the call ended
    \* shared by the handlers
    load,      \* PageLoads: the window's latest ready signal
    shutdown,  \* the app's exit signal
    \* the window
    page,      \* the page shown
    gone,      \* pages navigated away from
    navs,      \* number of navigations so far
    inbox,     \* scripts handed to the webview, in order
    limbo,     \* scripts whose dispatch started but never reported back
    begun,     \* per page: ids whose code began and has not settled
    done,      \* per page: ids that have settled (tombstones)
    wire,      \* victauri_eval_callback invocations on their way
    forged,    \* number of forged ready signals so far
    parses,    \* whether the call's code parses
    ran        \* calls whose code began executing (history)

handlerVars == <<pc, late, armed, seen, prior, probe, checked, rx, outcome>>
windowVars  == <<page, gone, navs, inbox, limbo, begun, done, wire, forged, parses, ran>>
vars == <<handlerVars, load, shutdown, windowVars>>

(* Outcomes by EvalFailureKind: what NotSent promises, and what Aborted is. *)
NotSent == {"not_sent", "not_run"}
Aborted == {"inject_unknown", "reloaded", "closed", "exiting",
            "timeout_began", "timeout_no_check"}

ProbeScript(c)  == [kind |-> "probe", call |-> c, n |-> probe'[c]]
WrapScript(c)   == [kind |-> "wrap", call |-> c]
CheckScript(c)  == [kind |-> "check", call |-> c, nonce |-> armed[c]]
Scripts ==
    [kind : {"probe"}, call : Calls, n : 0..MaxProbes + 1]
      \cup [kind : {"wrap"}, call : Calls]
      \cup [kind : {"check"}, call : Calls, nonce : Nonces]

ProbeAnswer(c, n, x) == [kind |-> "probe", call |-> c, n |-> n, nonce |-> x]
Settled(c, what)     == [kind |-> "settled", call |-> c, what |-> what]
Ready(x)             == [kind |-> "ready", nonce |-> x]
Messages ==
    [kind : {"probe"}, call : Calls, n : 0..MaxProbes + 1, nonce : Nonces]
      \cup [kind : {"settled"}, call : Calls, what : {"value", "not_run"}]
      \cup [kind : {"ready"}, nonce : Nonces]

(* The states of a call, its channel and the window; an outcome is one that
   eval_outcome can return.                                                *)
TypeOK ==
    /\ pc \in [Calls -> {"start", "probe", "probing", "inject", "check", "wait",
                         "confirming", "done"}]
    /\ late \in [Calls -> BOOLEAN]
    /\ armed \in [Calls -> Nonces]
    /\ seen \in [Calls -> Nat]
    /\ prior \in [Calls -> Nat]
    /\ probe \in [Calls -> 0..MaxProbes + 1]
    /\ checked \in [Calls -> BOOLEAN]
    /\ rx \in [Calls -> {"empty", "value", "not_run"}]
    /\ outcome \in [Calls -> {"none", "value"} \cup NotSent \cup Aborted]
    /\ load \in [seq : Nat, nonce : Nonces]
    /\ shutdown \in BOOLEAN
    /\ page \in Pages \cup {NoPage}
    /\ gone \in SUBSET Pages
    /\ navs \in 0..MaxNavs
    /\ inbox \in Seq(Scripts)
    /\ limbo \in SUBSET Scripts
    /\ begun \in [Pages -> SUBSET Calls]
    /\ done \in [Pages -> SUBSET Calls]
    /\ wire \in SUBSET Messages
    /\ forged \in 0..MaxForged
    /\ parses \in [Calls -> BOOLEAN]
    /\ ran \in SUBSET Calls

Init ==
    /\ pc = [c \in Calls |-> "start"]
    /\ late = [c \in Calls |-> FALSE]
    /\ armed = [c \in Calls |-> NoNonce]
    /\ seen = [c \in Calls |-> 0]
    /\ prior = [c \in Calls |-> 0]
    /\ probe = [c \in Calls |-> 0]
    /\ checked = [c \in Calls |-> FALSE]
    /\ rx = [c \in Calls |-> "empty"]
    /\ outcome = [c \in Calls |-> "none"]
    /\ load = [seq |-> 0, nonce |-> NoNonce]
    /\ shutdown = FALSE
    /\ page = First
    /\ gone = {}
    /\ navs = 0
    /\ inbox = <<>>
    /\ limbo = {}
    /\ begun = [p \in Pages |-> {}]
    /\ done = [p \in Pages |-> {}]
    /\ wire = IF First \in Bridged THEN {Ready(First)} ELSE {}
    /\ forged = 0
    /\ parses \in [Calls -> BOOLEAN]
    /\ ran = {}
-----------------------------------------------------------------------------
(* A main-thread round trip that evaluates a script in the window.  It hands
   the script over, or is refused (out of time, no window) and never will,
   or starts and never reports back: then the script may still get there.  *)
Delivered(script) ==
    /\ page # NoPage
    /\ inbox' = Append(inbox, script)
    /\ UNCHANGED limbo

Refused == UNCHANGED <<inbox, limbo>>

Unknown(script) ==
    /\ limbo' = limbo \cup {script}
    /\ UNCHANGED inbox

UnchangedPage == UNCHANGED <<page, gone, navs, begun, done, wire, forged, parses, ran>>

(* Every exit drops the PendingSlot: nothing is delivered to rx afterwards. *)
End(c, how) ==
    /\ pc' = [pc EXCEPT ![c] = "done"]
    /\ outcome' = [outcome EXCEPT ![c] = how]

(* The app's exit signal is checked once before anything is sent, and the
   ready signals seen so far cannot come from a later page.                *)
Start(c) ==
    /\ pc[c] = "start"
    /\ IF shutdown
       THEN End(c, "not_sent") /\ UNCHANGED seen
       ELSE /\ pc' = [pc EXCEPT ![c] = "probe"]
            /\ seen' = [seen EXCEPT ![c] = load.seq]
            /\ UNCHANGED outcome
    /\ UNCHANGED <<late, armed, prior, probe, checked, rx, load, shutdown, windowVars>>

(* probe_bridge before every eval; a failed dispatch ends the call. *)
SendProbe(c) ==
    /\ pc[c] = "probe"
    /\ probe' = [probe EXCEPT ![c] = 1]
    /\ \/ /\ ~late[c]
          /\ Delivered(ProbeScript(c))
          /\ pc' = [pc EXCEPT ![c] = "probing"]
          /\ UNCHANGED outcome
       \/ /\ Refused \/ (~late[c] /\ Unknown(ProbeScript(c)))
          /\ End(c, "not_sent")
    /\ UnchangedPage
    /\ UNCHANGED <<late, armed, seen, prior, checked, rx, load, shutdown>>

(* Mutant: a probe waits for its answer as long as the window is there. *)
ProbeWaits(c) ==
    /\ pc[c] = "probing"
    /\ page = NoPage
    /\ End(c, "not_sent")
    /\ UNCHANGED <<late, armed, seen, prior, probe, checked, rx, load, shutdown, windowVars>>

(* The probe is not answered within its window: "bridge not responding". *)
ProbeTimeout(c) ==
    /\ pc[c] = "probing"
    /\ End(c, "not_sent")
    /\ UNCHANGED <<late, armed, seen, prior, probe, checked, rx, load, shutdown, windowVars>>

(* Past the send deadline nothing is sent; a delivery that started and never
   reported back may have run the code, so it is not "not sent".           *)
Inject(c) ==
    /\ pc[c] = "inject"
    /\ \/ /\ ~late[c]
          /\ Delivered(WrapScript(c))
          /\ pc' = [pc EXCEPT ![c] = "check"]
          /\ UNCHANGED outcome
       \/ /\ Refused
          /\ End(c, "not_sent")
       \/ /\ ~late[c]
          /\ Unknown(WrapScript(c))
          /\ End(c, "inject_unknown")
    /\ UnchangedPage
    /\ UNCHANGED <<late, armed, seen, prior, probe, checked, rx, load, shutdown>>

(* The parse check goes right behind the code, and whatever it took, the
   result gets its floor of waiting time from here.                        *)
SendCheck(c) ==
    /\ pc[c] = "check"
    /\ \/ /\ Delivered(CheckScript(c))
          /\ checked' = [checked EXCEPT ![c] = armed[c] # NoNonce]
       \/ /\ Refused \/ Unknown(CheckScript(c))
          /\ UNCHANGED checked
    /\ pc' = [pc EXCEPT ![c] = "wait"]
    /\ late' = [late EXCEPT ![c] = FALSE]
    /\ UnchangedPage
    /\ UNCHANGED <<armed, seen, prior, probe, rx, outcome, load, shutdown>>

(* A result that has arrived wins over every other way to end. *)
Finish(c) ==
    /\ pc[c] = "wait"
    /\ rx[c] # "empty"
    /\ End(c, rx[c])
    /\ UNCHANGED <<late, armed, seen, prior, probe, checked, rx, load, shutdown, windowVars>>

EndUnlessArrived(c, how) == End(c, IF rx[c] # "empty" THEN rx[c] ELSE how)

(* page_replaced: a ready signal newer than the last one seen.  One with the
   armed nonce is the call's own page announcing itself late; any other is
   confirmed by asking the page.                                           *)
SignalSeen(c) ==
    /\ pc[c] = "wait"
    /\ ~late[c]
    /\ load.seq > seen[c]
    /\ IF armed[c] # NoNonce /\ load.nonce = armed[c]
       THEN /\ seen' = [seen EXCEPT ![c] = load.seq]
            /\ UNCHANGED <<pc, prior, probe, inbox, limbo>>
       ELSE /\ probe[c] <= MaxProbes
            /\ probe' = [probe EXCEPT ![c] = @ + 1]
            /\ \/ /\ Delivered(ProbeScript(c))
                  /\ pc' = [pc EXCEPT ![c] = "confirming"]
                  /\ prior' = [prior EXCEPT ![c] = seen[c]]
                  /\ seen' = [seen EXCEPT ![c] = load.seq]
               \/ /\ Refused \/ Unknown(ProbeScript(c))
                  /\ UNCHANGED <<pc, seen, prior>>
    /\ UnchangedPage
    /\ UNCHANGED <<late, armed, checked, rx, outcome, load, shutdown>>

(* A probe that is not answered proves nothing: the signal is looked at
   again later, under the call's own deadline.                             *)
ConfirmTimeout(c) ==
    /\ pc[c] = "confirming"
    /\ pc' = [pc EXCEPT ![c] = "wait"]
    /\ seen' = [seen EXCEPT ![c] = prior[c]]
    /\ UNCHANGED <<late, armed, prior, probe, checked, rx, outcome, load, shutdown, windowVars>>

Deadline(c) ==
    /\ pc[c] = "wait"
    /\ late[c]
    /\ EndUnlessArrived(c, IF checked[c] THEN "timeout_began" ELSE "timeout_no_check")
    /\ UNCHANGED <<late, armed, seen, prior, probe, checked, rx, load, shutdown, windowVars>>

AppExiting(c) ==
    /\ pc[c] = "wait"
    /\ shutdown
    /\ EndUnlessArrived(c, "exiting")
    /\ UNCHANGED <<late, armed, seen, prior, probe, checked, rx, load, shutdown, windowVars>>

(* A successful window listing that lacks the window. *)
WindowGone(c) ==
    /\ pc[c] = "wait"
    /\ page = NoPage
    /\ EndUnlessArrived(c, "closed")
    /\ UNCHANGED <<late, armed, seen, prior, probe, checked, rx, load, shutdown, windowVars>>

Handler(c) ==
    \/ Start(c) \/ SendProbe(c) \/ ProbeTimeout(c) \/ Inject(c) \/ SendCheck(c)
    \/ Finish(c) \/ SignalSeen(c) \/ ConfirmTimeout(c) \/ Deadline(c)
    \/ AppExiting(c) \/ WindowGone(c)

Expire(c) ==
    /\ pc[c] \notin {"start", "done"}
    /\ ~late[c]
    /\ late' = [late EXCEPT ![c] = TRUE]
    /\ UNCHANGED <<pc, armed, seen, prior, probe, checked, rx, outcome, load, shutdown, windowVars>>
-----------------------------------------------------------------------------
(* The webview runs the scripts it was handed in order, in the page it shows
   by then, if it gets to them at all.                                     *)
RunProbe(s) ==
    /\ wire' = wire \cup {ProbeAnswer(s.call, s.n, NonceOf(page))}
    /\ UNCHANGED <<begun, done, ran>>

(* The wrapper: a parse error runs nothing; _evalBegin refuses an id that
   was already reported as never begun.                                    *)
RunWrap(s) ==
    /\ IF parses[s.call] /\ s.call \notin done[page]
       THEN /\ begun' = [begun EXCEPT ![page] = @ \cup {s.call}]
            /\ ran' = ran \cup {s.call}
       ELSE UNCHANGED <<begun, ran>>
    /\ UNCHANGED <<done, wire>>

(* Mutant: code that began and has not settled is reported too. *)
CheckSpeaksEarly(s) ==
    /\ page \in Bridged
    /\ s.nonce = page
    /\ s.call \notin done[page]

(* _evalCheck: silent in any page but the armed one, and once the code has
   begun or settled.                                                       *)
CheckSpeaks(s) ==
    /\ page \in Bridged
    /\ s.nonce = page
    /\ s.call \notin begun[page]
    /\ s.call \notin done[page]

RunCheck(s) ==
    /\ IF CheckSpeaks(s)
       THEN /\ done' = [done EXCEPT ![page] = @ \cup {s.call}]
            /\ wire' = wire \cup {Settled(s.call, "not_run")}
       ELSE UNCHANGED <<done, wire>>
    /\ UNCHANGED <<begun, ran>>

RunScript ==
    /\ page # NoPage
    /\ inbox # <<>>
    /\ LET s == Head(inbox)
       IN CASE s.kind = "probe" -> RunProbe(s)
            [] s.kind = "wrap"  -> RunWrap(s)
            [] s.kind = "check" -> RunCheck(s)
    /\ inbox' = Tail(inbox)
    /\ UNCHANGED <<handlerVars, load, shutdown, page, gone, navs, limbo, forged, parses>>

(* _evalSettle, once per id: the code returns or throws. *)
Settle(c) ==
    /\ page # NoPage
    /\ c \in begun[page]
    /\ begun' = [begun EXCEPT ![page] = @ \ {c}]
    /\ done' = [done EXCEPT ![page] = @ \cup {c}]
    /\ wire' = wire \cup {Settled(c, "value")}
    /\ UNCHANGED <<handlerVars, load, shutdown, page, gone, navs, inbox, limbo,
                   forged, parses, ran>>

(* A dispatch that had started gets there after all. *)
LimboArrives ==
    /\ page # NoPage
    /\ \E s \in limbo :
         /\ inbox' = Append(inbox, s)
         /\ limbo' = limbo \ {s}
    /\ UNCHANGED <<handlerVars, load, shutdown, page, gone, navs, begun, done, wire,
                   forged, parses, ran>>

(* A reload or navigation: a fresh page, or one restored as it was left.
   Scripts not yet run go to the new page or are dropped; callbacks under
   way may be cut off; a bridged page signals ready.                       *)
Navigate ==
    /\ page # NoPage
    /\ navs < MaxNavs
    /\ navs' = navs + 1
    /\ gone' = gone \cup {page}
    /\ \E p \in Pages \ {page} :
         /\ BfCache \/ p \notin gone
         /\ page' = p
         /\ \E kept \in {wire, {}} :
              wire' = kept \cup (IF p \in Bridged THEN {Ready(p)} ELSE {})
    /\ inbox' \in {inbox, <<>>}
    /\ UNCHANGED <<handlerVars, load, shutdown, limbo, begun, done, forged, parses, ran>>

CloseWindow ==
    /\ page # NoPage
    /\ page' = NoPage
    /\ gone' = gone \cup {page}
    /\ inbox' = <<>>
    /\ UNCHANGED <<handlerVars, load, shutdown, navs, limbo, begun, done, wire,
                   forged, parses, ran>>

(* The ready signal is page-callable: page script sends one with any nonce. *)
Forge ==
    /\ page # NoPage
    /\ forged < MaxForged
    /\ forged' = forged + 1
    /\ \E x \in Nonces : wire' = wire \cup {Ready(x)}
    /\ UNCHANGED <<handlerVars, load, shutdown, page, gone, navs, inbox, limbo,
                   begun, done, parses, ran>>

(* The app's exit signal, raised at most once. *)
BeginShutdown ==
    /\ ~shutdown
    /\ shutdown' = TRUE
    /\ UNCHANGED <<handlerVars, load, windowVars>>
-----------------------------------------------------------------------------
(* victauri_eval_callback. *)

(* The signal is recorded for the calling window under the next number. *)
RecordLoad(m) ==
    /\ load' = [seq |-> load.seq + 1, nonce |-> m.nonce]
    /\ UNCHANGED handlerVars

(* A probe's own slot: the first probe arms the call; a confirmation aborts
   it only if the page that answers is another page.                       *)
ProbeAnswered(m) ==
    LET c == m.call IN
    /\ CASE pc[c] = "probing" /\ m.n = probe[c] ->
              /\ pc' = [pc EXCEPT ![c] = "inject"]
              /\ armed' = [armed EXCEPT ![c] = m.nonce]
              /\ UNCHANGED outcome
         [] pc[c] = "confirming" /\ m.n = probe[c] /\ m.nonce # armed[c] ->
              /\ EndUnlessArrived(c, "reloaded")
              /\ UNCHANGED armed
         [] pc[c] = "confirming" /\ m.n = probe[c] /\ m.nonce = armed[c] ->
              /\ pc' = [pc EXCEPT ![c] = "wait"]
              /\ UNCHANGED <<armed, outcome>>
         [] OTHER -> UNCHANGED <<pc, armed, outcome>>
    /\ UNCHANGED <<late, seen, prior, probe, checked, rx, load>>

(* The first outcome for a live slot is delivered; any other is refused. *)
OutcomeArrived(m) ==
    LET c == m.call IN
    /\ rx' = IF pc[c] \in {"check", "wait", "confirming"} /\ rx[c] = "empty"
             THEN [rx EXCEPT ![c] = m.what] ELSE rx
    /\ UNCHANGED <<pc, late, armed, seen, prior, probe, checked, outcome, load>>

Callback ==
    /\ \E m \in wire :
         /\ CASE m.kind = "ready"   -> RecordLoad(m)
              [] m.kind = "probe"   -> ProbeAnswered(m)
              [] m.kind = "settled" -> OutcomeArrived(m)
         /\ wire' = wire \ {m}
    /\ UNCHANGED <<shutdown, page, gone, navs, inbox, limbo, begun, done, forged,
                   parses, ran>>

Next ==
    \/ \E c \in Calls : Handler(c) \/ Expire(c) \/ Settle(c)
    \/ RunScript \/ LimboArrives \/ Navigate \/ CloseWindow \/ Forge
    \/ BeginShutdown \/ Callback

Spec == Init /\ [][Next]_vars

(* The handler's tasks are polled and its timers fire; nothing is assumed of
   the page, the UI thread or the callbacks.                               *)
FairSpec == Spec /\ \A c \in Calls : WF_vars(Handler(c)) /\ WF_vars(Expire(c))
-----------------------------------------------------------------------------
(* EvalFailureKind::NotSent, "the code never ran": true when it is said and
   for ever after.  A caller that is told so re-runs the command.          *)
NotSentNeverRuns ==
    \A c \in Calls : outcome[c] \in NotSent => c \notin ran

(* A result that arrived while the call was live is what the call returns:
   it is never turned into a timeout or an abort, which would invite a
   retry that runs the command twice; and a value is the code's own.       *)
ArrivedResultWins ==
    \A c \in Calls :
        /\ outcome[c] \in Aborted => rx[c] = "empty"
        /\ outcome[c] = "value" => c \in ran

(* Only a page change ends a call as "loaded a new page": not a late ready
   signal of its own page, nor one forged by page script.                  *)
ReloadIsReal ==
    \A c \in Calls :
        outcome[c] = "reloaded" => \E p \in gone : NonceOf(p) = armed[c]

(* What the caller of an eval is told is so: "not sent" only if nothing ran, a
   result that arrived rather than an error, and a reload only if there was
   one.                                                                    *)
AnswersAreTrue == NotSentNeverRuns /\ ArrivedResultWins /\ ReloadIsReal

(* Every call ends, whatever the page and the UI thread do. *)
EveryCallEnds == \A c \in Calls : <>(pc[c] = "done")
=============================================================================
