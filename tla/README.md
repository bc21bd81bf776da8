# A verification project for Victauri

Victauri is a Tauri plugin that lets an agent (over MCP or REST on localhost)
look into and drive a running desktop application: evaluate JavaScript in its
webviews, act on its elements, record what it does, take traces and pictures,
query its databases. Around the plugin stand a command line tool (with an MCP
proxy, a launcher and a project setup), a watchdog and a test client library.

The project models the parts in which several threads, tasks, pages, processes
and files meet, and the hand-written algorithms whose edges are hard to test. TLC
checks them on small instances; TLAPS proves the most important safety properties
for every value of the constants. `PROJECT.json` names, for every definition that
models code, the lines it was translated from, the hazards the properties are
aimed at, and for every property a mistaken form of some definition that breaks it.

Paths below are relative to `src/crates/victauri-<crate>/src/`.

## The system: parts, state, interactions

| part | state it keeps | why it is hard | module |
|---|---|---|---|
| main-thread dispatch, plugin `bridge.rs` | a gate (lock, in-flight count); per call a state word and a result channel | a timeout races the start of the closure; an abandoned closure may still run; the UI may hang for ever | `MainDispatch`, `SerializedCalls` |
| eval round trip, plugin `mcp/mod.rs`, `js_bridge.rs` | per call a channel and the nonce of the armed page; per window its last ready signal; per page the begun and settled ids | scripts reach whatever page is shown when they run; callbacks are lost, late or forged | `EvalRoundTrip` |
| pending eval table, plugin `lib.rs`, `tools.rs` | the table behind tokio's fair mutex, the windows that may answer | budgets under concurrency; a fair lock granted to a task nobody polls | `PendingEvals` |
| recorder, core `recording.rs` | the active recording (two rings, counter, generation), the last session | indices across eviction and import | `Recorder` |
| recording drain, plugin `mcp/server.rs`, `introspection.rs` | an epoch, a floor, a mark and a lock per window; the logs of the pages | reads straddle stops and starts; loop and flush share marks | `RecordingDrain` |
| trace, plugin `screencast.rs`, `mcp/mod.rs` | the active trace, its generation and frames, the recording it owns | a trace is stopped or replaced while it is being set up | `TraceOwner` |
| backend log, plugin `backend_logs.rs` | a ring behind a std mutex, waiters | lost wake-ups, eviction, a logger inside a logger | `LogBuffer` |
| console capture and launcher, cli `run.rs`, `logs.rs` | two files and a cursor; the child, its signals | rotation under a reader; one stop delivered twice, or never | `ConsoleCapture`, `Launcher` |
| server start, plugin `lib.rs`, `mcp/server.rs`; test `app.rs` | port, discovery entry, thread | the thread may not start; another application takes the port; the exit takes the entry away before `on_ready` is called | `AppStart`, `DiscoveryRoots` |
| connection limits, plugin `mcp/hardening.rs` | two pools of permits, deadlines | strangers that never send | `FrontDoor` |
| rate limiter, core `security.rs` | two atomics | compare-exchange loops, dropped remainders | `RateLimiter` |
| tool dispatch and privacy, plugin `mcp/authz.rs`, `privacy.rs`, `mcp/mod.rs`, core `middleware.rs` | configuration, faults, baselines | many doors to one effect | `ToolGate` |
| CLI bridge, cli `bridge.rs` | session, handshake mutex, availability | retries over restarts, a poller beside requests | `Proxy` |
| watchdog, watchdog `main.rs` | selector, target, failure count | another application takes over the port | `Watchdog` |
| in-page bridge, plugin `js_bridge.rs` | wrapped requests, IPC log, refs, scrubs, routes | handlers that run inside events; awaits between reads | `PageXhr`, `PageIpc`, `PageRefs`, `PageAnimations`, `RoutePatterns`, `PageTree` |
| database tools, plugin `database.rs` | threads, deadlines, function lists | the scanner and the policy against SQLite's own rules | `DatabaseCalls`, `SqlReading`, `AppFiles` |
| pictures, plugin `screenshot.rs` | one shared worker, windows that change | sizes read before pixels | `WindowCapture` |
| stopped pages, plugin `mcp/mod.rs` | samples of web processes | ending the process of another window | `StoppedPages` |
| test client, test `client.rs`, `discovery.rs`, `locator.rs`, `assertions.rs` | endpoint, identity, log reads | conclusions from several reads | `Rendezvous`, `TestClient` |
| CLI commands and setup, cli `main.rs`, `call.rs`, `agents.rs` | exit codes, project files | an application that dies mid-call; a command killed between two files | `CliVerdicts`, `ProjectSetup` |
| recordings as tests, core `codegen.rs`, `js_bridge.rs` | a selector | two encoders, two decoders; words that several elements hold | `RecordedSelectors` |

How they meet: every tool that touches a window goes through the dispatcher; evals
of agents and of the drain go through the eval round trip and occupy slots of the
pending table; `RecordingDrain` and `TraceOwner` compose the one `Recorder`; `EvalRoundTrip` uses the dispatcher as `SerializedCalls` promises it;
watchdog, proxy and test client see the plugin only through discovery entries and
its port.

## Modules and how they correspond to the code

**Dispatch and evals.** In `MainDispatch` a calling thread goes through `Call`,
`Acquire` / `LockTimeout` (the gate), `Clear` / `EarlierRunning` (the wait for the
in-flight count), `Post`, and then `Receive`, `Disconnected`, `Timeout`, `Abandon`
(the compare-and-swap from queued to abandoned) and `GiveUp` (the grace once the
closure has started). The UI thread picks a job, starts it, runs the closure,
which may panic, sends the result and is done; it also works for the application
for any length of time, adopts the main thread's handle, and exits with its queue.
`SerializedCalls` says what callers are promised; a call is "open" while its
closure may still start or is running. `EvalRoundTrip` is one window and the evals
sent to it: the handler's steps, the webview's inbox of scripts run in order in the
page shown by then (`RunScript`), callbacks in any order or never (`Callback`),
dispatches with unknown outcome (`LimboArrives`), and the environment (`Navigate`,
`CloseWindow`, `Forge`, `BeginShutdown`). `PendingEvals` is the table: the lock's
queue hands it to its head whether or not that task is polled; `RequestSlot` and
`Retry` are the two ways of asking (`lock()` and `lock_pending_unqueued`);
`BlockApp` stops the application's runtime for good.

**Recordings.** `Recorder` is the recorder's methods over its three fields, one
lock acquisition each; an event is known by its position in everything the
recording took in (the ghost field `all`), so that a renumbering is visible.
A client in `MCServing` calls them in any order. `RecordingDrain` adds the watermarks, the
drain loop, reads of windows (lock, pin the generation, ask the page, append event
by event, move the mark), several clients' calls and the pages. `TraceOwner` adds
the screencast, its capture tasks and clients that also use the recording tool.

**Serving.** `FrontDoor` is the accept loop with its pools and deadlines;
`RateLimiter` one atomic access per step; `ToolGate` every tool and action with the
capability it resolves to, what its handler requires and the kinds of effect it
has; the handlers that run commands of the application or keep what one answered
(`invoke_command`, `verify_state`, `contract_record`) are paths of statements in the
order of the source, one step each, so that a refusal may find things already done; `Proxy` the stdio
bridge with a task per request, the handshake mutex, retries and the poller.

**Around the application.** `Watchdog`, `Launcher`, `ConsoleCapture`, `LogBuffer`,
`AppStart`, `DiscoveryRoots`.

**In the page.** `PageXhr` keeps a stack of what goes on when a page handler
returns: handlers run before and after each of the bridge's own listeners, at every
event of a mock, at `readystatechange` of `open()`, at `loadstart`, and at the
`readystatechange`, `abort` and `loadend` that the native `abort()` fires whatever they
do meanwhile, and may open, send and abort again in each; `PageIpc` has Tauri's own transport as environment; `PageRefs`,
`PageAnimations`; `RoutePatterns` and `PageTree` run the matchers and the three
walks step by step beside a reference definition.

**Behind the tools.** `DatabaseCalls` (phases, threads, deadlines, and the policy on what a statement may
do), `SqlReading`
(the scanner, the names a view mentions, Tarjan on an explicit stack, each beside a
definition of what it should find), `AppFiles`, `StoppedPages`,
`WindowCapture`.

**Clients.** `Rendezvous`, `TestClient`, `CliVerdicts`, `ProjectSetup`, and
`RecordedSelectors`, which goes from the element a user acted on to the selector, the
line of Rust, and the element the replay finds with it in pages where others come
before it or hold its words.

The modules of one neighbourhood share no variables, so `MCHost`, `MCServing`,
`MCPage`, `MCTools` and `MCClients` check several of them in one run: the initial
state chooses a scenario, one component runs and the others stand still. They hold
otherwise only the values of constants and the conjunctions of properties, and
`MCServing` the client that calls the recorder's methods.

A definition under a comment that begins with "Mutant" or "A mistaken" is a
deliberately wrong form of the definition behind it; no specification uses it.

## Runs

| run | instance | what it shows |
|---|---|---|
| Dispatch | 3 calls, timeout 1, grace 1 | `OneInFlight`: never two round trips on the UI thread; `VerdictsAreTrue`: what a caller was told stays true; `ReturnsInTime`, `EveryCallReturns`; `Implements`: refines `SerializedCalls` |
| Eval | 1 call, 2 bridged pages and a plain one, 2 navigations, 1 forged signal, 1 confirming probe | `AnswersAreTrue`: "not sent" for ever, an arrived result wins, a reload is real; `EveryCallEnds` |
| Drain | 2 clients, 1 window, 3 calls of 5 kinds, 1 event, 2 loads | `RecordingsAreFaithful`: a started recording is drained, nothing older taken in, nothing skipped; `ReadsAddUp`: nothing twice, a flush takes in all or says what it missed |
| DrainLive | 1 client, 2 windows that close and come back | `CapturedIsRecorded` |
| Host | 2 agent and 2 page evals on a table of 2; 2 clients with 4 trace calls; 3 processes on 2 ports; 2 logging threads, a waiter, a ring of 2; capture files of 2 records; a launcher with 2 signals; 2 ports to start on | `TableIsShared`, `TracesOwnTheirs`, `NeverSwitches`, `LogIsFollowed`, `LaunchersKeepTheirWord`, `StartIsSound` |
| HostLive | the same with 3 trace calls, 2 processes, 2 logs | `PluginGoesOn`: agents get the lock, accepted results are delivered, traces end, loggers return; `ProcessesAreMinded`: crashes are reported, restarts followed, stops reach the application, servers start |
| Proxy | a call and a listing, 2 launches, 1 refused handshake, 3 rounds of retries | `CallsAreSafe`: a call runs at most once and "not reachable" means it did not; `AppIsServed` |
| Serving | 2 strangers, a caller and a probe on pools of 2; 2 callers of the bucket, clock 5; all tools, 3 profiles, 7 disabled sets, 3 lists; 1 agent, rings of 1 and 2 | `DoorsStayOpen`, `TimeIsPaidOnce`, `NoSideDoors`, `RefusalsComeFirst`: when a handler refuses, no trigger is spent, nothing is stored and no command was sent; `SessionsAreExact` |
| Page | 3 requests on one object, events nested 3 deep; 2 IPC calls; 2 nodes; 2 scrubs, 2 elements | `PendingIsOnItsWay`, `CallsAreTold`, `AnimationsAreTheirs`, `AgentsSeeThePage` |
| Tools | 2 database calls on 1 slot; 3 views; texts, shapes and globs of a few symbols; 2 windows; 2 rows and 4 columns; 2 files; 2 captures | `DatabaseIsOnlyRead`, `TextsAreReadRight`, `RecoveryIsSafe`, `FilesAreTheApps`, `PicturesAreTrue` |
| Clients | 2 processes, 3 starts; 2 accounts; 2 commands; 1 change of the page; a page of up to 3 elements, texts of 2 characters, collapsed frames; selectors of an element used, an inner one and one that differs in one respect | `ClientsFindTheirApp`, `SetupIsSound`, `ConfigsSurvive`, `VerdictsAreTrue` (exit codes), `TestsJudgeTruly`; `PageIsReadRight`: the views agree on what is shown, and a recorded selector finds what was used, in its role or tag |
| OtherApp | 2 launches, 2 calls, `VICTAURI_PORT` set | a counterexample to `CallsStayWithTheApp`, see below |

Why the bounds are enough to be interesting. Three dispatch calls are one in flight,
one waiting for it and one queueing at the gate; with one tick before and one after
the start every deadline can fall on either side of every step. One eval meets
every page twice at most; two evals meet only in the pending table, which has its
own module. Two clients and the loop are all the roles a read can overlap with.
The table, the rings, the pools and the rule lists are reached exactly and by one
more. Three processes are the watched one, its successor and a stranger; two ports
force reuse. The bridge goes three rounds where the code has four: the proof shows
that three are enough for `AppIsServed`, and a fourth repeats the third. Two
launches are every order of a restart and a retry. Bounds on behaviour are named constants that occur in guards (`MaxOps`,
`MaxTime`, `MaxVisits`, `MaxNavs`, `MaxForged`, `MaxProbes`, `MaxTaken`,
`MaxGenerations`, `MaxStarts`, `MaxClock`, ...). Clients of Drain, database calls of
Tools, IPC calls, nodes, scrubs and elements of Page, and processes and identifiers
of Clients are interchangeable and those runs use symmetry; they check no liveness.
Some initial choices that only multiply states are tied together in the MC modules:
a discovery root that is left standing belongs to the settings that can leave it, an
odd configuration to a chained builder, and one of two windows to be pictured is
large.

Deadlock is checked in DrainLive, which goes on for ever. The other models end when
their bounded calls are done, as a system without further requests does.

### Fairness, and why the code justifies it

* Dispatch: time passes and calling threads are scheduled. The UI thread gets
  none, so `EveryCallReturns` holds with a UI that is wedged for ever.
* Eval: the handler's task is polled and its timers fire; nothing of the page,
  the UI thread or the callbacks.
* DrainLive: the loop and the handlers run; a page that is asked again and again
  answers some time within its five seconds (strong fairness, since a reload
  can cut off any single read).
* HostLive: each runtime polls its tasks, the application's until it is blocked;
  trace handlers run and `MAX_TRACE_DURATION` ends a capture task; the watchdog's
  loop runs; threads leave a log call and waiters are polled; the launcher, its
  stopper thread and its helper run, time passes and an application that has
  decided to end ends; the plugin's setup and its server thread run. Nothing is
  assumed of applications and nobody has to stop, answer or restart.
* Serving: the accept loop runs, permits are granted in order, deadlines fire. The
  loop's accept is strongly fair: a stranger's connection may take the place in
  the backlog any number of times but not for ever.

## What is proved

Eight modules hold theorems; each `...Proofs` module extends the modules it is about
and has a section for each of them.

| theorem | statement |
|---|---|
| `TypeCorrect`, `SerializedDispatch`, `TruthfulVerdicts`, `BoundedWait` (`MainDispatchProofs`) | `TypeOK`, `OneInFlight`, `VerdictsAreTrue`, `ReturnsInTime` always hold, for any calls, timeout and grace |
| `DispatchRefinement` (`MainDispatchProofs`) | every behaviour of the dispatcher is one of `SerializedCalls` |
| `TableIsSharedAlways` (`HostProofs`) | hard budgets, agents not crowded out, answers from the window asked, and a lock that is one |
| `TracesOwnTheirsAlways`, `ClientsEndTheirOwnAlways` (`HostProofs`) | a trace's recording always has somebody to end it, frames are of the last trace; a trace never ends a client's recording |
| `NeverSwitchesAlways` (`HostProofs`) | a watchdog never follows another application than the one it named |
| `CallsAreSafeAlways` (`ProxyProofs`) | a call forwarded by the bridge runs at most once, and one reported as not reachable or refused has not run |
| `AppIsServedAlways` (`ProxyProofs`) | with three rounds of retries or more, a request during which one launch runs undisturbed is answered by it, and the client is told of the application |
| `AnswersAreTrueAlways` (`EvalRoundTripProofs`) | without a back/forward cache: code reported as not sent or not begun never runs, an arrived result wins, a reported reload happened |
| `ResultsWinAlways` (`EvalRoundTripProofs`) | the last two of these in any webview |
| `NothingIsSkippedAlways` (`RecordingDrainProofs`) | in any webview, a recording a client started is drained until it ends, and no read skips an event |
| `RecordingsAreFaithfulAlways` (`RecordingDrainProofs`) | without a back/forward cache, also nothing captured before a recording began gets into it |
| `IndicesNameEventsAlways` (`RecordingDrainProofs`) | in the active recording and in the last session, imported ones too, an index names one event of everything taken in, whatever the rings evicted |
| `StartIsSoundAlways` (`HostProofs`) | for any builder and environment: unless the exit came first, `on_ready` names a port that is the application's and, if its files could be written, listed; no token is asked for only on request, a blank one opens nothing; a test drives the application it started or none, and does not give up on one that serves |
| `LaunchersKeepTheirWordAlways` (`HostProofs`) | a reader that follows a capture through rotations gets every record once and in order or is told of the gap, an exit is called unknown only if it is; an application that ends in time on its own copy of a stop is not signalled |
| `NoSideDoorsAlways` (`ServingProofs`) | no tool or action, however it is written, has an effect that the profile does not grant or that was disabled under another name, and no command runs that the lists refuse |
| `RefusalsComeFirstAlways` (`ServingProofs`) | for any number of agents: a handler that refuses has spent no trigger, stored no baseline and sent no command; triggers and baselines are of commands the lists admit, one entry each, within any caps |
| `RecoveryIsSafeAlways` (`ServingProofs`) | ending a stopped web process takes no page that has answered, a paused process has a call that will resume it, recovery is claimed only of another page |
| `DatabaseIsOnlyReadAlways` (`ServingProofs`) | a phase is out of time only when its own time was up, a report runs no code of the host's modules, a query changes nothing and is refused only if it could, every column keeps a key; `SlotsSufficeAlways` bounds the threads by the slots |
| `AnimationsAreTheirsAlways` (`PageProofs`) | after any scrubs the animations are as the page has them, ends are told when they are real, a recorder that says it is armed is run |
| `PendingIsOnItsWayAlways` (`PageProofs`) | a request is shown as pending only while something will still settle it |
| `CallsAreToldAlways` (`PageProofs`) | each call the bridge can see is shown once, with its own outcome; capture is called full only when nothing went unseen; no waiter misses what it waits for |
| `ClientsFindTheirAppAlways` (`ClientsProofs`) | a client finds the application it was made for, among those of other accounts and across restarts, and every call it makes runs there, once; its two halves are `CallsReachTheirAppAlways` and `EntriesAreOursAlways` |
| `SetupIsSoundAlways` (`ClientsProofs`) | whatever fails or is killed: wiring and grant agree with a complete manifest, and a success reported by `setup` is one |
| `ConfigsSurviveAlways` (`ClientsProofs`) | no step of a command takes what the user has in a configuration, or replaces an entry of the user |
| `VerdictsAreTrueAlways` (`ClientsProofs`) | exit codes, files and final words of the commands are true of what happened |
| `TimeIsPaidOnceAlways` (`ServingProofs`) | no interval is credited twice, no more calls than capacity plus time claimed, at least half of the time's worth credited |

Assumptions. Each module's named `ASSUME` is all a proof uses of the constants:
that "none" values are not members of the sets they stand beside
(`DispatchAssumption`, `PendingAssumption`, `WatchdogAssumption`, `RecorderAssumption`,
`EvalAssumption`, `StoppedPagesAssumption`, `PageAnimationsAssumption`,
`RendezvousAssumption`, `RootsAssumption`, and `CliAssumption` for an exit code that is
not there yet), that windows are not clients (`DrainAssumption`), that foreign traffic
is no call (`PageIpcAssumption`), that timeouts, capacities, rates and the IPC ring are
positive, that ports are numbers (`AppStartAssumption`), that the configurations of
`setup` form a list (`ProjectSetupAssumption`), that a read of a capture and an answer
take at least one line and file 0 is none (`ConsoleAssumption`; a client that follows asks
for 2000 lines), that an echo is shorter than the grace and the grace no longer than a
terminal's (`LauncherAssumption`, the code's constants), that
budgets nest (`MaxPerWindow` within `MaxPage` within `MaxPending`, as the code's
constants do), that there is a slot for database calls and a table is ordinary or
virtual (`DatabaseCallsAssumption`; `PolicyAssumption` says that two bounds are numbers),
and that callers of the rate limiter, database calls, windows and processes are finitely
many. The bounds that only limit TLC (`MaxOps`, `MaxClock`, ...) are arbitrary.

Four theorems have a hypothesis. Two say that the webview keeps no page to go back to
(`~BfCache`); TLC finds the counterexample when it does, and each has a part without
that hypothesis stated beside it. `PendingIsOnItsWayAlways` excludes a page that sends
again without `open()` (the native object throws, unless a rule keeps the call from it)
and one that opens or sends inside the `readystatechange` of `open()` (`Careless = {}`,
as in the run): such a page has two requests on the one entry that the wrapper keeps,
or an entry under the address of another request, and TLC finds a pending entry that
nothing settles with the first and a log that does not stay true with the second.
`ClientsFindTheirAppAlways` is stated without an explicit port (with one, `OtherApp`
is the counterexample) and where no application is given the process id of a killed
one whose directory is still there (`"app" \notin Reuse`): the new application would
write its files over the old ones, and a reader could pair one's port with the other's
token.

None of the invariants is inductive as it stands.

* **Dispatch.** `OneInFlight` does not say why a second call cannot be posted.
  `Inv` adds: the callers between gaining and releasing the gate are exactly its
  holder (`LockInv`); the main thread executes at most one job and the count says
  so (`Counted`); place, state word and channel of a job fit together (`JobInv`);
  an answer says where the job is (`AnswerInv`); a posted job that has not started
  belongs to the holder (`Owned`); once a caller has seen the count at zero nobody
  else executes (`Alone`); elapsed time plus the running timer is in the bound
  (`TimeInv`). A job not started belongs to the holder, a started one is counted
  and the next holder waits for the count: hence one in flight. A caller told "will
  not run" never posted, or won the compare-and-swap, or saw the channel closed by
  a job dropped unstarted; each is stable.
* **Pending evals.** `PendingTypeOK` contains the lock (`LockOk`): one owner, and
  a queue that holds each waiting job once. `Progress` relates a call to its jobs,
  `Asked` says that a delivery, also one handed the lock by somebody else, is of a
  result from the window asked. `Budgets` are kept because they are tested and used
  in one critical section; that agents are not crowded out follows by counting.
* **Traces.** A handler goes on with a generation taken several steps ago.
  `TakenInv` says it is its alone (`OneEach`), that its task is not spawned twice
  (`NotSpawned`) and that nobody else touches its recording meanwhile (`NotOwned`);
  `Held`, that whatever a trace, a handler or a task will end is a recording a
  trace started.
* **Watchdog.** A process with an entry was launched and keeps its identity
  (`Known`); only an application without a name is pinned by its process (`Pinning`).
* **Bridge.** `Once` ties the number of times a call ran to where its task is: a
  task that may post again has not run, because `may_replay` is asked of what the
  last answer said. `Heard` follows the one announcement that the poller's edge and
  `handle_line` owe each other. For `SteadyAppAnswers` the retries must be
  counted: `Sessions` says that a session in use is of a launch up to this one and
  that one found unknown stays unknown; `Steady` says that the rounds a calm
  request has spent, plus one if the poller is about to clear the session
  (`Pending`), plus one if the bridge holds an outdated session (`Held`), plus one if
  the request has picked one up itself (`Own`), are at most two. Every lost round
  uses up one of the three, no step of the others adds to the sum, and so the third
  round is answered. The count is tight: with two rounds TLC finds a request told
  "unreachable" by an application that ran all along. One thing had to be called a
  disturbance: a request left over from an earlier launch that is refused while it
  holds the valid session makes the bridge drop a good session
  (`clear_session_if`), and enough of those use up the rounds of another.
* **Rate limiter.** A caller with tokens to add is inside the credit loop and
  cannot win a second interval over them; a caller about to claim has earned a
  token, which bounds the remainder that the refill drops; a caller about to spend
  has seen a token (`CallersInv`).
* **Evals.** Only `Inject` hands over a wrapper, once, so a call that was told "not
  sent" has nothing in limbo or in the window's inbox. If its code was handed over,
  the check that reports "never began" was sent after it, and the inbox keeps order:
  the wrapper is gone when the check runs, and with `BeganHere` the page shown then
  is the one that would have begun it, because a page once left is not shown again.
  That is the step that needs `~BfCache`. A reload is reported on a ready signal, or
  a confirming probe's answer, of a page shown after the armed one.
* **Recording drain.** A mark promises that every event up to it is in the recording
  or was not for it, and a reply promises the same once its events are appended
  (`MarkInv`, `ReadInv`); a promise binds while the recording it is for is active.
  An import takes its generation before it has the recorder, so that generation must
  be known to be nobody's until it is used (`ImportInv`). The epoch is never past a
  started recording, and behind it only while that recording's reset is due
  (`ResetInv`), which is what makes a read that is refused harmless. That nothing
  older gets in (`OldInv`) needs the floor, and pages whose log does not come back.
  For the indices, `PlaceInv` follows every session, also the one an import holds on
  to: its ring is the end of what it took in, so that the largest index in use, to
  which an import sets its counter, is the number of all events.

* **Server start.** While the application lives, a server that has bound holds one port
  (`PortHeld`); its entry is written token first and port second, as far as the files
  can be written, and is gone before the port is let go (`Listing`). A server goes only
  when the application exits (`Handing`), which is why `on_ready` names a listed port
  unless it was called after the exit began. What a test read of an old entry still
  stands when it asks the port (`Asking`).
* **Console capture.** Records are numbered through the files (`Numbered`), so a cursor
  is a number, its file's first plus its offset, and everything up to it is had or was
  said to be gone (`CursorAt`). A change of files keeps that because the rotated file,
  whenever it is the cursor's, is the one before the open one (`CaptureInv`, `BothInv`),
  and a file that is not the last grows no more; a cursor without a tag is of the file
  under the name unless a rotation came between, which is the excepted case.
* **Launcher.** An application that heard the stop has less to clean up than the thread of
  the first stop has left of its grace (`InTime`): it heard an echo of that stop at the
  latest, and both clocks run together. Until that grace is over nobody sends anything
  (`Graced`), after it the application has ended.
* **The gate.** The configuration never changes and an effect is decided at admission,
  so the steps are short; the work is the table. `EffectsAreClean` goes through every
  tool and action and shows that what its handler requires, under whichever names, is
  enough for each of its effects (`WhatIsClean`). A call carries what it has done so
  far, so that the order of a handler's checks and effects is in the state: what a
  refused call has done is read off its path (`RefusalsComeFirst`).
* **Stopped pages.** One lock covers a call from its first probe to its answer
  (`OneHolds`); a paused process has exactly such a call (`Pausing`); a call remembers
  what it left (`Leaving`), so that the same page is not taken for another.
* **Database.** A call that works has one watchdog, of its own phase, because a phase is
  left only after its watchdog ended, so whatever interrupts a phase was armed for it
  (`Guarded`); until the application changes its schema a report's list tells which
  tables are virtual, the ones cut off included (`KnowsTheFile`). For the policy:
  `pragma_name` finds the name in every text a PRAGMA may have (`NameIs`), acts up to the
  one asked about were allowed (`Asked`), and an allowed function is harmless whichever
  registration of its name SQLite picks (`AllowedIsHarmless`). A key that is no column's
  name stands for a column whose name is taken, so names and keys are no more than the
  columns and one of as many suffixes is free (`KeyIsFree`, by the pigeonhole principle).
* **Scrubs.** A scrub stands over its element until a restore runs (`OneStands`), and
  while it stands a restore is queued or owed by somebody (`RestoresCome`); the
  animations differ from the page's by what the standing hold remembers (`AsFound`).
  Ends are counted against what is queued, heard and excused (`EndsCount`).
* **Requests.** An entry that is pending is that of the request under way
  (`OnePending`), the native object carries that request (`Carries`), and something that
  will settle it can be named (`BeingSettled`). A step leaves it alone (`StillPends`) or
  ends the entry (`EndsPending`); what continues after a handler has to be shown to
  notice what the handler did (`PopKeeps`). `abort()` fires the events of the old
  request at handlers that may send a new one, so the end of the native call must not
  take the new one's: above it on the stack is the abort that finished it (`Covered`).
* **IPC log.** What an entry tells follows from where its call is (`TellsOf`); each call
  neither lost nor unseen has one entry that counts (`ShowsOnce`, `ShowsAll`), also when
  a full ring drops one (`LogGrows`) and when page code imitates a call
  (`LookAlikeKeeps`).
* **Setup.** Whatever is wired or granted stands beside a complete manifest, which
  `init` afterwards leaves as it is (`GatingInv`); each configuration that `setup` has
  been at reaches the application or is reported (`ConfigInv`).
* **Commands.** One invariant per command over the place it is at (`CallInv`,
  `SuiteInv`, `RecordInv`, `DoctorInv`).
* **Rendezvous.** Tokens are never used twice, so what was read of a launch stays true
  of it or is of one that is gone (`Apart`, `SeenOk`, `ReadOk`, `Current`); the token a
  client holds is its application's or nobody's (`BoundInv`); a call in hand has not
  run (`CountedInv`).
* **Roots.** What another account wrote lies in its own directory (`Forged`); the root
  is picked once and private from then on, or both places are taken for good (`Picked`,
  `Helpless`); while the application runs nothing removes what it wrote (`Registers`,
  `LiveVerdicts`); a scan begun after that has its root still ahead, has found it, or
  cannot tell whose the process is (`WillFind`).

Each conjunct was checked by TLC before it was proved, and each proof has a lemma
per action.

Only model-checked, and why:

* every liveness property (`EveryCallReturns`, `EveryCallEnds`, `CapturedIsRecorded`,
  `PluginGoesOn`, `ProcessesAreMinded`, `DoorsStayOpen`): fairness and `ENABLED` are
  out of the prover's reach;
* `TextsAreReadRight` and `PageIsReadRight`, the scanners, walks, matchers and encoders
  of `SqlReading`, `RoutePatterns`, `PageTree` and `RecordedSelectors`: what a recursive
  definition computes for every input needs induction over data; and `PicturesAreTrue` and
  `FilesAreTheApps`, which are about rows of pixels and paths more than about steps;
* `SessionsAreExact` and `LogIsFollowed`, which filter sequences (`checkpoint_window`, a
  page of the log), again induction over data; what `SessionsAreExact` says of indices
  is proved as `IndicesNameEventsAlways`;
* `ReadsAddUp`, which is bound to the instance: nothing is taken in twice only as long as
  no window is closed and reopened under the drain loop, see below;
* `AgentsSeeThePage` and `TestsJudgeTruly`: within reach, not proved yet.

## Where the code and its documentation disagree

`OtherApp` is a run that ends with a counterexample: `reinitialize` overwrites the
client's endpoint before `verify_identity` has accepted it, so after one refused
call the next one runs in another application. `PROJECT.json` quotes both sides.

Others were met while modelling; the properties are stated so that they do not
depend on them:

* in a webview with a back/forward cache the parse check can run in the restored
  page and report that code never began which ran in the page between
  (plugin `js_bridge.rs:2063`, against the comments at 1760 and 2059), and
  going back appends events from before the recording (`mcp/server.rs:1565`
  against `introspection.rs:1578`): `BfCache` is FALSE in Eval and Drain;
* an import takes its generation before the lock; a start and a stop in between leave
  it active under a generation the watermarks regard as stale, and it is never
  drained (core `recording.rs:583` against plugin `introspection.rs:1646`). Its epoch
  may also be overtaken by a later start whose reset is still due, so that a flush
  meanwhile takes in nothing and reports nothing missed; `FlushTakesInAll` is stated
  for a recording that is drained from before the call until its answer;
* the loop forgets the marks and locks of windows missing from a listing it made
  earlier (`mcp/server.rs:1505`): if a window is reopened in between and a flush is
  reading it, the loop's next read of it takes a new lock and runs beside the
  flush's, and both append the same events, against the comment that they "never
  ingest the same window's events twice" (`mcp/server.rs:1523`). TLC finds it with
  two windows, one client and a flush; `NoEventTwice` is checked with one window;
* the bridge's listeners on an `XMLHttpRequest` are attached once and settle the entry
  that is current when the event comes (plugin `js_bridge.rs:4955-4968`). A page that
  opens and sends request B inside a handler of A's last events (`load`, `error`,
  `abort`, `timeout`, `loadend`, or the `readystatechange` that `abort()` fires) has B
  settled by what is still to come of A: B is shown as ended while it is in flight; a
  mocked B is rewritten from "aborted" or "error" to the mock's status when the mock
  answers (5161-5165); a B that a rule holds back is never sent, because its timer finds
  it no longer pending (5398-5405). `LogStaysTrue` leaves out exactly the entries sent
  that way (`tangled`), and TLC reaches each of the three when they are put back;
  `PendingIsOnItsWay` holds for them as well;
* a test generated in the direct style keeps of a text selector the text only, so that
  it may act on another element of the same words (core `codegen.rs:315` chooses a
  scoped locator for that reason); `RecordedIsReplayed` asks of that style the words
  and of the locator style the element. An attribute that holds NUL cannot be written
  in a selector and is not found;
* `on_ready` runs in a task of its own and may be called while the application exits,
  with a port that is no longer listed or held (`mcp/server.rs:494`, `lib.rs:1204`); a
  discovery file that cannot be written is only logged, so a server may serve unlisted;
* `verify_state` runs its expression in the page before the lists are asked for it;
* a checkpoint's answer carries the number of retained events read a second time,
  not the index stored (`mcp/mod.rs:2694` against core `recording.rs:28`);
* a scrub whose call is cancelled at an unlucky moment may leave animations paused;
  the console capture can grow after its end record; a list the client was given
  while no application ran is not always replaced; a refused handshake makes the
  proxy take a stateful application for a stateless one; `ipc_idle` does not see
  calls evicted from the ring; an XHR's logged address is the one given to the last
  `open`, also when a request of an earlier one is sent; `app_info` may name another
  database than `query_db` then opens (`mcp/mod.rs:1606`).

## Abstractions to keep in mind

* Dispatch, evals: what closures do and what payloads hold is left out; a page's log
  does not evict and its tombstones are kept (the code keeps a thousand); one
  window; the readiness cache of the default window is left out.
* Recording drain: a reopened window with a stale listing occurs in DrainLive only, which
  checks that what is captured is recorded, not that it is recorded once. Checkpoints
  are told apart by a counter where the code draws a UUID.
* `LogBuffer`: `clear` has no caller; digests of ranges, and pushes nested inside a
  waker's own push, are left out. `ConsoleCapture`: tags do not collide.
* `Proxy`: atomics are sequentially consistent; notifications, batches, the end of
  the input, reuse of process ids and `VICTAURI_PORT` are left out.
* `ToolGate`: a handler is the order of what it requires and of the kinds of effect it
  has; TLC runs one agent, the proofs any number; a fault rule that expired is one that
  is not there; MCP resources and redaction are left out.
* Page: `PageXhr` is one object, with the events as browsers fire them; of requests that
  go out it has the asynchronous ones (a synchronous one that fails throws, and the
  wrapper takes its entry back although it went out); `PageAnimations` has end events only, no shadow roots and no slow-frame
  releases; `PageIpc` has Tauri as environment and retries in the same run of
  microtasks; `PageTree` leaves out the walks' known difference inside collapsed and
  hidden frames, accessible names and geometry.
* Database: quoted words and names are abstracted to what the policy tells apart;
  parameter binding and cell conversion are left out; an application is taken not
  to override SQLite's built-ins when introspection is unavailable.
* `RoutePatterns`: a pattern is its shape; lookaround and backreferences are left
  out. `StoppedPages`: no session history. `AppFiles`: a check and the open behind
  it are one step. `WindowCapture`: a pixel is where it comes from.
* `ProjectSetup`: one command at a time, one source file. `Rendezvous`: one scan for
  an identity is one step; the client's retries when its session is stale or the rate
  limit is reached (`client.rs:917-931`) are left out. `TestClient`, `CliVerdicts`:
  the calls and matchers that share a path are represented by one of them; `doctor`'s
  sixth check and the warning about versions are left out. `RecordedSelectors`: a page
  is the element used, perhaps an inner one that holds its words, and another that
  differs in one respect; classes, truncation of long texts, case folding and
  visibility are left out. `DiscoveryRoots`: no root user, readers in the environment
  of the application. `Launcher`: time in ticks, only the direct child. `AppStart`: a
  process id is used once, and that one value of the server is moved into one thread
  is Rust's ownership, not a property checked here.

Not modelled: registries behind a single mutex (timings, event bus, task tracker,
command registry, core event log), pure transformations (verification, snapshots,
redaction, parameter parsing, report formats), memory statistics, procedural macros,
examples and the editor extension.

## Plan

1. Proofs still worth having: the door's limits (`FrontDoor`), and `NoEventTwice` where no
   window is reopened. Each belongs in one of the proof modules there are.
2. A second window in `EvalRoundTrip`, and an abstract specification of the drain
   ("what is captured while recording is recorded once, in order").
