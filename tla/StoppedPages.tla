---------------------------- MODULE StoppedPages ----------------------------
(***************************************************************************)
(* `navigate go_to` and `go_back` of the plugin (mcp/mod.rs), and what     *)
(* they do about a page that has stopped answering: a detour through the   *)
(* server's own /health page, and, where the web process is the app's      *)
(* child and its main thread spins, ending that process.  Nothing tells    *)
(* which windows a web process renders, so before it is ended it is paused *)
(* and the other windows are asked whether they still answer.              *)
(*                                                                         *)
(* The engine decides when a navigation lands: WebKit queues it behind the *)
(* page's script, WebView2 lets a cross-site one through.  Pages stop and  *)
(* resume at any time; a client may hang up at any time.                   *)
(***************************************************************************)
EXTENDS Integers, FiniteSets

CONSTANTS Windows,     \* the labels; windows may share a web process
          Navigators,    \* the calls
          MaxPages,    \* bound: pages loaded
          MaxMoods,    \* bound: times a page stops or resumes
          Nil

ASSUME StoppedPagesAssumption ==
    IsFiniteSet(Windows) /\ Nil \notin Nat /\ Nil \notin Navigators

VARIABLES engine,      \* "webview2", "webkitgtk" or "wkwebview"
          page,        \* window -> [id, url, mood] of the page it shows
          proc,        \* window -> the web process that renders it
          sent,        \* window -> a navigation that has not landed, or None
          loads, moods,\* counters of the bounds; a page's id is its load's number
          paused,      \* web processes stopped by a call
          flat,        \* web processes that spun ever since they were first measured
          answered,    \* windows whose bridge has answered or announced a page
          nonce,       \* window -> the page that last answered a probe, or None
          lastApp,     \* window -> the URL inside the app it last left, or None
          holder,      \* who navigates natively (the native_navigation lock), or None
          call,        \* request -> where it is and what it knows
          ended        \* what ending processes did: [window, others]

pagesVars == <<engine, page, proc, sent, loads, moods, paused, flat, answered, nonce, lastApp,
               holder, call, ended>>

App == {"home", "other"}          \* is_app_url
PageUrls == App \cup {"outside"}
Moods == {"ready", "busy", "spinning", "blocked"}

NoCall == [at |-> "idle", w |-> Nil, url |-> Nil, left |-> Nil, was |-> Nil, hadAnswered |-> FALSE,
         pid |-> Nil, result |-> Nil]

PagesInit ==
    /\ engine \in {"webview2", "webkitgtk", "wkwebview"}
    /\ page = [w \in Windows |-> [id |-> 0, url |-> "home", mood |-> "ready"]]
    /\ proc \in [Windows -> 1..Cardinality(Windows)]
    /\ sent = [w \in Windows |-> Nil]
    /\ loads = 0
    /\ moods = 0
    /\ paused = {}
    /\ flat = {}
    /\ answered \in SUBSET Windows
    /\ nonce \in {[w \in Windows |-> IF w \in s THEN 0 ELSE -1] : s \in SUBSET answered}
    /\ lastApp = [w \in Windows |-> Nil]
    /\ holder = Nil
    /\ call = [r \in Navigators |-> NoCall]
    /\ ended = {}

----------------------------------------------------------------------------
(* The webviews. *)
Listens(w) == page[w].mood \in {"ready", "busy"} /\ proc[w] \notin paused

(* probe_bridge is answered: there is a bridge and its thread runs. *)
Answers(w) == Listens(w) /\ page[w].url \in App

SpinningNow(pages, procs) ==
    {procs[w] : w \in {v \in Windows : pages[v].mood \in {"busy", "spinning"}}}

(* Web processes are the app's children, and can be measured, on Linux alone. *)
Measured == IF engine = "webkitgtk" THEN SpinningNow(page, proc) ELSE {}

ChangeMood(w, mood) ==
    /\ moods < MaxMoods
    /\ mood # page[w].mood
    /\ page[w].mood # "dead"
    /\ proc[w] \notin paused
    /\ page' = [page EXCEPT ![w].mood = mood]
    /\ flat' = flat \cap SpinningNow(page', proc)
    /\ moods' = moods + 1
    /\ UNCHANGED <<engine, proc, sent, loads, paused, answered, nonce, lastApp, holder, call, ended>>

CrossSite(from, to) == ~({from, to} \subseteq App)

(* A page that is loaded inside the app announces itself; one loaded where the process has *)
(* gone gets a new process.                                                                *)
Land(w) ==
    /\ sent[w] # Nil
    /\ loads < MaxPages
    /\ proc[w] \notin paused
    /\ \/ page[w].mood \in {"ready", "busy", "dead"}
       \/ engine = "webview2" /\ CrossSite(page[w].url, sent[w])
    /\ page' = [page EXCEPT ![w] = [id |-> loads + 1, url |-> sent[w], mood |-> "ready"]]
    /\ proc' = [proc EXCEPT ![w] = IF page[w].mood = "dead" THEN Cardinality(Windows) + loads + 1
                                                            ELSE @]
    /\ flat' = flat \cap SpinningNow(page', proc')
    /\ answered' = IF sent[w] \in App THEN answered \cup {w} ELSE answered
    /\ sent' = [sent EXCEPT ![w] = Nil]
    /\ loads' = loads + 1
    /\ UNCHANGED <<engine, moods, paused, nonce, lastApp, holder, call, ended>>

(* The window's URL: the new one may be read before the page has left. *)
ReadUrl(w, url) == url \in {page[w].url, IF sent[w] = Nil THEN page[w].url ELSE sent[w]}

(* A navigation replaces one that has not landed. *)
SendTo(w, url) == sent' = [sent EXCEPT ![w] = url]

----------------------------------------------------------------------------
(* The calls. *)
With(change, c) == [f \in DOMAIN c |-> IF f \in DOMAIN change THEN change[f] ELSE c[f]]
Go(r, change) == call' = [call EXCEPT ![r] = With(change, @)]

FinishRequest(r, result) ==
    /\ Go(r, [at |-> "done", result |-> result])
    /\ holder' = IF holder = r THEN Nil ELSE holder

HeardFrom(w) ==
    /\ answered' = answered \cup {w}
    /\ nonce' = [nonce EXCEPT ![w] = page[w].id]

webviews == <<engine, page, proc, loads, moods>>

(* navigate_natively takes the lock and remembers the page it leaves. *)
GoTo(r, w, url) ==
    /\ call[r].at = "idle"
    /\ holder = Nil
    /\ holder' = r
    /\ lastApp' = [lastApp EXCEPT ![w] = IF page[w].url \in App THEN page[w].url ELSE @]
    /\ Go(r, [at |-> "probe", w |-> w, url |-> url])
    /\ UNCHANGED <<webviews, sent, paused, flat, answered, nonce, ended>>

(* A page that answers is simply sent there. *)
PageAnswers(r) ==
    LET w == call[r].w IN
    /\ call[r].at = "probe"
    /\ Answers(w)
    /\ HeardFrom(w)
    /\ SendTo(w, call[r].url)
    /\ FinishRequest(r, [ok |-> TRUE, new |-> FALSE])
    /\ UNCHANGED <<webviews, paused, flat, lastApp, ended>>

(* No answer: a stopped page of the app is to be recovered, from any other page the detour *)
(* comes first.                                                                            *)
PageIsSilent(r) ==
    LET w == call[r].w
        stopped == w \in answered /\ page[w].url \in App
    IN
    /\ call[r].at = "probe"
    /\ page[w].mood # "ready" \/ page[w].url \notin App \/ proc[w] \in paused
    /\ IF call[r].url \in App /\ stopped
       THEN Go(r, [at |-> "recover"]) /\ UNCHANGED <<sent, holder>>
       ELSE SendTo(w, "health") /\ Go(r, [at |-> "pass"]) /\ UNCHANGED holder
    /\ UNCHANGED <<webviews, paused, flat, answered, nonce, lastApp, ended>>

(* Nothing was stopped, or the target is outside: the call does not wait for an answer. *)
PassDetour(r) ==
    /\ call[r].at = "pass"
    /\ SendTo(call[r].w, call[r].url)
    /\ FinishRequest(r, [ok |-> TRUE, new |-> FALSE])
    /\ UNCHANGED <<webviews, paused, flat, answered, nonce, lastApp, ended>>

(* go_back: history.back() in a page that answers; otherwise back to the last URL known to *)
(* be inside the app, when the window's bridge has ever answered.                          *)
GoBack(r, w) ==
    /\ call[r].at = "idle"
    /\ Answers(w)
    /\ HeardFrom(w)
    /\ \E url \in PageUrls : SendTo(w, url)
    /\ Go(r, [at |-> "done", w |-> w, result |-> [ok |-> TRUE, new |-> FALSE]])
    /\ UNCHANGED <<webviews, paused, flat, lastApp, holder, ended>>

GoBackSilent(r, w) ==
    /\ call[r].at = "idle"
    /\ ~Answers(w)
    /\ \E url \in App :
         /\ IF lastApp[w] # Nil THEN url = lastApp[w]
            ELSE IF page[w].url \in App THEN ReadUrl(w, url) ELSE url = "home"
         /\ IF w \in answered THEN Go(r, [at |-> "lock", w |-> w, url |-> url])
            ELSE Go(r, [at |-> "done", w |-> w, result |-> [ok |-> FALSE, new |-> FALSE]])
    /\ UNCHANGED <<webviews, sent, paused, flat, answered, nonce, lastApp, holder, ended>>

TakeLock(r) ==
    /\ call[r].at = "lock"
    /\ holder = Nil
    /\ holder' = r
    /\ Go(r, [at |-> "recover"])
    /\ UNCHANGED <<webviews, sent, paused, flat, answered, nonce, lastApp, ended>>

----------------------------------------------------------------------------
(* recover_stopped_page.  The page left is known by the last nonce; the processes are      *)
(* measured, where they are the app's children; the window is sent on the detour.          *)
Recover(r) ==
    LET w == call[r].w IN
    /\ call[r].at = "recover"
    /\ Go(r, [at |-> "detour", left |-> nonce[w], was |-> page[w].id,
              hadAnswered |-> nonce[w] = page[w].id])
    /\ flat' = Measured
    /\ SendTo(w, "health")
    /\ UNCHANGED <<webviews, paused, answered, nonce, lastApp, holder, ended>>

(* The detour shows or its time is up; then the target is sent. *)
LeaveDetour(r) ==
    /\ call[r].at = "detour"
    /\ SendTo(call[r].w, call[r].url)
    /\ Go(r, [at |-> "await"])
    /\ UNCHANGED <<webviews, paused, flat, answered, nonce, lastApp, holder, ended>>

(* A mistaken AnotherPage: whatever answers has recovered. *)
AnyPage(r) == TRUE

(* The page that answers is not the one left. *)
AnotherPage(r) == call[r].left = -1 \/ page[call[r].w].id # call[r].left

Recovered(r) ==
    LET w == call[r].w IN
    /\ call[r].at \in {"await", "last"}
    /\ Answers(w)
    /\ AnotherPage(r)
    /\ HeardFrom(w)
    /\ FinishRequest(r, [ok |-> TRUE, new |-> TRUE, shows |-> page[w].id])
    /\ UNCHANGED <<webviews, sent, paused, flat, lastApp, ended>>

(* Windows that have answered before and are silent now: one of them may be the page that spins. *)
OthersAnswer(r) ==
    \A w \in (Windows \cap answered) \ {call[r].w} : Answers(w)

(* STOPPED_PAGE_ANSWER_WAIT is over: one process has spun all along, the call may end it, *)
(* and every other window answers.                                                        *)
PauseSpinning(r) ==
    /\ call[r].at = "await"
    /\ \E pid \in flat :
         /\ flat = {pid}
         /\ OthersAnswer(r)
         /\ paused' = paused \cup {pid}
         /\ Go(r, [at |-> "paused", pid |-> pid])
    /\ UNCHANGED <<webviews, sent, flat, answered, nonce, lastApp, holder, ended>>

(* Nothing to end, or not allowed to: the navigation gets its time to land. *)
WaitOn(r) ==
    /\ call[r].at = "await"
    /\ Go(r, [at |-> "last"])
    /\ UNCHANGED <<webviews, sent, paused, flat, answered, nonce, lastApp, holder, ended>>

(* With the process paused, the others are asked again. *)
StillAnswer(r) == OthersAnswer(r)

EndProcess(r) ==
    LET w == call[r].w
        lost == {v \in Windows : proc[v] = call[r].pid}
    IN
    /\ call[r].at = "paused"
    /\ StillAnswer(r)
    /\ page' = [v \in Windows |-> IF v \in lost THEN [id |-> page[v].id, url |-> "", mood |-> "dead"]
                                                ELSE page[v]]
    /\ paused' = paused \ {call[r].pid}
    /\ flat' = flat \ {call[r].pid}
    /\ ended' = ended \cup {[window |-> w, others |-> (lost \cap answered) \ {w}]}
    /\ sent' = [v \in Windows |-> IF v \in lost THEN Nil ELSE sent[v]]
    /\ Go(r, [at |-> "restart"])
    /\ UNCHANGED <<engine, proc, loads, moods, answered, nonce, lastApp, holder>>

(* Another window went silent, or the process could not be ended: it is resumed. *)
Resume(r) ==
    /\ call[r].at = "paused"
    /\ paused' = paused \ {call[r].pid}
    /\ Go(r, [at |-> "last"])
    /\ UNCHANGED <<webviews, sent, flat, answered, nonce, lastApp, holder, ended>>

(* navigate_new_web_process: sent, and sent again while the window has no URL, since the *)
(* webview may drop a navigation before it has noticed that the process is gone.         *)
SendAgain(r) ==
    LET w == call[r].w IN
    /\ call[r].at = "restart"
    /\ sent[w] = Nil
    /\ page[w].url = ""
    /\ SendTo(w, call[r].url)
    /\ UNCHANGED <<webviews, paused, flat, answered, nonce, lastApp, holder, call, ended>>

DropSent(w) ==
    /\ page[w].mood = "dead"
    /\ sent[w] # Nil
    /\ \E r \in Navigators : call[r].at = "restart" /\ call[r].w = w
    /\ SendTo(w, Nil)
    /\ UNCHANGED <<webviews, paused, flat, answered, nonce, lastApp, holder, call, ended>>

Restarted(r) ==
    LET w == call[r].w IN
    /\ call[r].at = "restart"
    /\ Answers(w)
    /\ HeardFrom(w)
    /\ FinishRequest(r, [ok |-> TRUE, new |-> TRUE, shows |-> page[w].id])
    /\ UNCHANGED <<webviews, sent, paused, flat, lastApp, ended>>

(* STOPPED_PAGE_LOAD_WAIT is over. *)
StopWaiting(r) ==
    /\ call[r].at \in {"last", "restart"}
    /\ FinishRequest(r, [ok |-> FALSE, new |-> FALSE])
    /\ UNCHANGED <<webviews, sent, paused, flat, answered, nonce, lastApp, ended>>

(* The client hangs up: the lock is dropped, and a paused process resumed. *)
HangUp(r) ==
    /\ call[r].at \notin {"idle", "done"}
    /\ paused' = IF call[r].at = "paused" THEN paused \ {call[r].pid} ELSE paused
    /\ FinishRequest(r, Nil)
    /\ UNCHANGED <<webviews, sent, flat, answered, nonce, lastApp, ended>>

CallStep(r) ==
    \/ PageAnswers(r) \/ PageIsSilent(r) \/ PassDetour(r) \/ TakeLock(r)
    \/ Recover(r) \/ LeaveDetour(r) \/ Recovered(r) \/ PauseSpinning(r) \/ WaitOn(r)
    \/ EndProcess(r) \/ Resume(r) \/ SendAgain(r) \/ Restarted(r) \/ StopWaiting(r) \/ HangUp(r)

PagesNext ==
    \/ \E w \in Windows : Land(w) \/ DropSent(w) \/ \E mood \in Moods : ChangeMood(w, mood)
    \/ \E r \in Navigators, w \in Windows :
         GoBack(r, w) \/ GoBackSilent(r, w) \/ \E url \in PageUrls : GoTo(r, w, url)
    \/ \E r \in Navigators : CallStep(r)

PagesSpec == PagesInit /\ [][PagesNext]_pagesVars

----------------------------------------------------------------------------
(* Ending a web process never takes the page of another window that has ever answered: a *)
(* page that works in slices reads as flat out and answers, and only its silence while   *)
(* paused gives it away.  And a process is paused only while a call is asking: whatever  *)
(* ends the call resumes it (mcp/mod.rs recover_stopped_page, other_windows_answer,      *)
(* PausedWebProcess).                                                                    *)
BystandersKeepTheirPages ==
    /\ \A e \in ended : e.others = {}
    /\ \A pid \in paused : \E r \in Navigators : call[r].at = "paused" /\ call[r].pid = pid

Claims(r) == call[r].at = "done" /\ call[r].result # Nil /\ call[r].result.new

(* A call that says the window recovered has heard from another page than the one that   *)
(* had stopped, however late that one resumed with the navigation still waiting behind   *)
(* it, if that page ever answered and no process was ended (mcp/mod.rs                   *)
(* another_page_answers_within).                                                         *)
RecoveredIsAnotherPage ==
    \A r \in Navigators : Claims(r) /\ call[r].hadAnswered /\ call[r].pid = Nil
                              => call[r].result.shows # call[r].was

(* Recovering a stopped page harms no page that works, and is only claimed of another.   *)
RecoveryIsSafe == BystandersKeepTheirPages /\ RecoveredIsAnotherPage
============================================================================
