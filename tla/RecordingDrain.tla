---------------------------- MODULE RecordingDrain ----------------------------
(***************************************************************************)
(* How a page's events get into a recording (victauri-plugin mcp/server.rs *)
(* event_drain_loop and drain_window, introspection.rs DrainWatermarks,    *)
(* the recording tool of mcp/mod.rs, and drainEvents of js_bridge.rs).     *)
(* A background loop reads every window about once a second; a client's    *)
(* stop, checkpoint and flush read them too.  A read asks the page for     *)
(* what lies after the window's mark, waits, appends the reply one event   *)
(* at a time to the recording it was meant for, and moves the mark.        *)
(* Meanwhile other clients stop, start and import recordings, and pages    *)
(* are reloaded.                                                           *)
(*                                                                         *)
(* An event is the moment it was captured, so `floor` (a time) and events  *)
(* compare directly.                                                       *)
(***************************************************************************)
EXTENDS Recorder, FiniteSets, TLC

CONSTANTS Windows, Clients,
          Kinds,      \* the recording-tool actions the clients use
          BfCache,    \* whether a window may go back to a page it left
          MaxOps,     \* bound on the clients' calls
          MaxTime,    \* bound on captured events
          MaxVisits   \* bound on navigations, reloads and windows opened again

(* Clients are interchangeable: nothing compares them but for equality. *)
ClientSymmetry == Permutations(Clients)

ASSUME DrainAssumption == Windows \cap Clients = {}

VARIABLES
    now,     \* the last captured event
    page,    \* the page each window shows, 0 when it is closed
    visits,  \* pages loaded or gone back to so far
    log,     \* what each page of a window has captured, in order of loading
    epoch, floor, mark,   \* DrainWatermarks
    lockId,  \* which lock DrainWatermarks.locks holds for a window
    tick,    \* the background loop: sleeping, or about to read these windows
    read,    \* reads in progress: the loop's, one per window, and a client's
    op,      \* what each client's call is doing
    ops,     \* calls made so far
    told,    \* what the last stop or checkpoint of a client amounted to
    begun    \* how each generation began: its floor, and what it imported

pageVars == <<now, page, visits, log>>
markVars == <<epoch, floor, mark, lockId>>
callVars == <<op, ops, told, begun>>
vars == <<recVars, pageVars, markVars, tick, read, callVars>>

NoRead == [pc |-> "none"]
NoOp == [pc |-> "none"]
Asleep == [pc |-> "sleep"]
NoMark == <<0, 0>>      \* pages are numbered from 1

Readers == Windows \cup Clients
Open == {w \in Windows : page[w] # 0}
Loads(w) == Len(log[w])

Init ==
    /\ RecInit
    /\ now = 0
    /\ page = [w \in Windows |-> 1]
    /\ visits = 0
    /\ log = [w \in Windows |-> << <<>> >>]
    /\ epoch = 0 /\ floor = 0
    /\ mark = [w \in Windows |-> NoMark]
    /\ lockId = [w \in Windows |-> 0]
    /\ tick = Asleep
    /\ read = [r \in Readers |-> NoRead]
    /\ op = [c \in Clients |-> NoOp]
    /\ ops = 0
    /\ told = [c \in Clients |-> None]
    /\ begun = <<>>
-----------------------------------------------------------------------------
(* The pages. *)

Capture(w) ==
    /\ w \in Open
    /\ now < MaxTime
    /\ now' = now + 1
    /\ log' = [log EXCEPT ![w][page[w]] = Append(@, now + 1)]
    /\ UNCHANGED <<recVars, page, visits, markVars, tick, read, callVars>>

(* A reload or a navigation, or a window opened again under its label. *)
Load(w) ==
    /\ visits < MaxVisits
    /\ visits' = visits + 1
    /\ log' = [log EXCEPT ![w] = Append(@, <<>>)]
    /\ page' = [page EXCEPT ![w] = Loads(w) + 1]
    /\ UNCHANGED <<recVars, now, markVars, tick, read, callVars>>

(* A page the window left before is shown again, as it was. *)
Back(w) ==
    /\ BfCache
    /\ visits < MaxVisits
    /\ visits' = visits + 1
    /\ \E i \in 1..(page[w] - 1) : page' = [page EXCEPT ![w] = i]
    /\ UNCHANGED <<recVars, now, log, markVars, tick, read, callVars>>

(* A script that did not run yet goes with its window. *)
Close(w) ==
    /\ w \in Open
    /\ Cardinality(Open) > 1   \* closing the last one ends the application
    /\ page' = [page EXCEPT ![w] = 0]
    /\ read' = [r \in Readers |-> IF read[r].pc = "asked" /\ read[r].win = w
                                  THEN [pc |-> "unheard", win |-> w, lock |-> read[r].lock]
                                  ELSE read[r]]
    /\ UNCHANGED <<recVars, now, visits, log, markVars, tick, callVars>>
-----------------------------------------------------------------------------
(* DrainWatermarks. *)

(* Mutant: a reset that comes late is carried out all the same. *)
ResetAnyway(floorMs, e) ==
    /\ epoch' = e
    /\ floor' = floorMs
    /\ mark' = [w \in Windows |-> NoMark]
    /\ UNCHANGED lockId

Reset(floorMs, e) ==
    /\ IF e <= epoch
       THEN UNCHANGED <<epoch, floor, mark>>
       ELSE /\ epoch' = e
            /\ floor' = floorMs
            /\ mark' = [w \in Windows |-> NoMark]
    /\ UNCHANGED lockId

Advance(w, e, m) ==
    /\ mark' = IF epoch = e THEN [mark EXCEPT ![w] = m] ELSE mark
    /\ UNCHANGED <<epoch, floor, lockId>>

(* A forgotten lock that is asked for again is a new lock, which matters to
   those who still have the old one.                                       *)
HasLock(r, w) == read[r].pc \notin {"none", "enter"} /\ read[r].win = w /\ read[r].lock = lockId[w]

Retain(labels) ==
    /\ mark' = [w \in Windows |-> IF w \in labels THEN mark[w] ELSE NoMark]
    /\ lockId' = [w \in Windows |->
                    IF w \notin labels /\ \E r \in Readers : HasLock(r, w)
                    THEN lockId[w] + 1 ELSE lockId[w]]
    /\ UNCHANGED <<epoch, floor>>
-----------------------------------------------------------------------------
(* One read of one window: drain_window_into_recording, drain_window. *)

(* What drainEvents answers: the page, how far it has counted its entries,
   and the entries after the mark (all, if the mark is another page's).
   They are sorted by time, so the set is as good as the array.            *)
DrainEvents(w, m, floorMs) ==
    LET entries == log[w][page[w]]
        after == IF m[1] = page[w] THEN m[2] ELSE 0
        lo == IF after = 0 THEN floorMs ELSE 0
    IN  [mark |-> <<page[w], Len(entries)>>,
         events |-> {entries[k] : k \in {j \in (after + 1)..Len(entries) : entries[j] > lo}}]

(* A read is over; a client's flush goes on with its next window. *)
Ended(r, ok) ==
    /\ read' = [read EXCEPT ![r] = NoRead]
    /\ op' = IF r \notin Clients THEN op
             ELSE [op EXCEPT ![r].todo = @ \ {read[r].win},
                             ![r].missed = IF ok THEN @ ELSE @ \cup {read[r].win}]

LockFor(r) ==
    /\ read[r].pc = "enter"
    /\ read' = [read EXCEPT ![r] = [pc |-> "want", win |-> @.win, lock |-> lockId[@.win]]]
    /\ UNCHANGED <<recVars, pageVars, markVars, tick, callVars>>

Holds(r, w, id) ==
    /\ read[r].pc \in {"pinned", "asked", "unheard", "replied", "recording"}
    /\ read[r].win = w
    /\ read[r].lock = id

(* Mutant: a window is read without its lock. *)
PinUnlocked(r) ==
    /\ read[r].pc = "want"
    /\ IF IsRecording
       THEN /\ read' = [read EXCEPT ![r] = [pc |-> "pinned", win |-> @.win, lock |-> @.lock,
                                            gen |-> recording.generation]]
            /\ UNCHANGED op
       ELSE Ended(r, TRUE)
    /\ UNCHANGED <<recVars, pageVars, markVars, tick, ops, told, begun>>

(* The lock is taken and the recording this read is for is pinned. *)
Pin(r) ==
    /\ read[r].pc = "want"
    /\ \A q \in Readers : ~Holds(q, read[r].win, read[r].lock)
    /\ IF IsRecording
       THEN /\ read' = [read EXCEPT ![r] = [pc |-> "pinned", win |-> @.win, lock |-> @.lock,
                                            gen |-> recording.generation]]
            /\ UNCHANGED op
       ELSE Ended(r, TRUE)
    /\ UNCHANGED <<recVars, pageVars, markVars, tick, ops, told, begun>>

(* Mutant: a first read skips what was captured before it, not before the
   recording began.                                                        *)
AskFromNow(r) ==
    LET w == read[r].win IN
    /\ read[r].pc = "pinned"
    /\ IF epoch # read[r].gen THEN Ended(r, TRUE)
       ELSE IF w \notin Open THEN Ended(r, FALSE)
       ELSE /\ read' = [read EXCEPT ![r] =
                          [pc |-> "asked", win |-> w, lock |-> @.lock, gen |-> @.gen,
                           mark |-> mark[w],
                           floor |-> IF mark[w] = NoMark THEN now ELSE 0]]
            /\ UNCHANGED op
    /\ UNCHANGED <<recVars, pageVars, markVars, tick, ops, told, begun>>

(* The cursor is read, and the script injected if it is for that recording. *)
Ask(r) ==
    LET w == read[r].win IN
    /\ read[r].pc = "pinned"
    /\ IF epoch # read[r].gen THEN Ended(r, TRUE)
       ELSE IF w \notin Open THEN Ended(r, FALSE)
       ELSE /\ read' = [read EXCEPT ![r] =
                          [pc |-> "asked", win |-> w, lock |-> @.lock, gen |-> @.gen,
                           mark |-> mark[w],
                           floor |-> IF mark[w] = NoMark THEN floor ELSE 0]]
            /\ UNCHANGED op
    /\ UNCHANGED <<recVars, pageVars, markVars, tick, ops, told, begun>>

(* The script runs in the page the window shows by then. *)
PageReplies(r) ==
    LET w == read[r].win IN
    /\ read[r].pc = "asked"
    /\ w \in Open
    /\ read' = [read EXCEPT ![r] = [pc |-> "replied", win |-> w, lock |-> @.lock, gen |-> @.gen,
                                    reply |-> DrainEvents(w, @.mark, @.floor)]]
    /\ UNCHANGED <<recVars, pageVars, markVars, tick, callVars>>

(* No slot, no bridge in the page, or no reply within five seconds. *)
ReadFails(r) ==
    /\ read[r].pc \in {"asked", "unheard", "replied"}
    /\ Ended(r, FALSE)
    /\ UNCHANGED <<recVars, pageVars, markVars, tick, ops, told, begun>>

(* The reply's events go into the pinned recording only, one at a time and
   the oldest first; other threads run in between.                         *)
RecordOne(r) ==
    /\ read[r].pc \in {"replied", "recording"}
    /\ \E e \in read[r].reply.events :
         /\ \A f \in read[r].reply.events : e <= f
         /\ RecordEventIf(read[r].gen, e)
         /\ read' = [read EXCEPT ![r] =
                       [pc |-> "recording", win |-> @.win, lock |-> @.lock, gen |-> @.gen,
                        reply |-> [mark |-> @.reply.mark, events |-> @.reply.events \ {e}]]]
    /\ UNCHANGED <<pageVars, markVars, tick, callVars>>

MoveMark(r) ==
    /\ read[r].pc \in {"replied", "recording"}
    /\ read[r].reply.events = {}
    /\ Advance(read[r].win, read[r].gen, read[r].reply.mark)
    /\ Ended(r, TRUE)
    /\ UNCHANGED <<recVars, pageVars, tick, ops, told, begun>>

Reading(r) ==
    \/ LockFor(r) \/ Pin(r) \/ Ask(r) \/ PageReplies(r) \/ ReadFails(r)
    \/ RecordOne(r) \/ MoveMark(r)
-----------------------------------------------------------------------------
(* The background loop. *)

LoopTick ==
    /\ tick = Asleep
    /\ IsRecording
    /\ tick' = [pc |-> "listed", labels |-> Open]
    /\ UNCHANGED <<recVars, pageVars, markVars, read, callVars>>

LoopSpawn ==
    /\ tick.pc = "listed"
    /\ Retain(tick.labels)
    /\ read' = [r \in Readers |-> IF r \in tick.labels THEN [pc |-> "enter", win |-> r]
                                                       ELSE read[r]]
    /\ tick' = [pc |-> "joining"]
    /\ UNCHANGED <<recVars, pageVars, callVars>>

LoopJoin ==
    /\ tick.pc = "joining"
    /\ \A w \in Windows : read[w] = NoRead
    /\ tick' = Asleep
    /\ UNCHANGED <<recVars, pageVars, markVars, read, callVars>>

Loop == LoopTick \/ LoopSpawn \/ LoopJoin
-----------------------------------------------------------------------------
(* The recording tool. *)

Begin(c, kind) ==
    /\ kind \in Kinds
    /\ op[c] = NoOp
    /\ ops < MaxOps
    /\ ops' = ops + 1
    /\ told' = [told EXCEPT ![c] = None]

(* Start, import: the time of the call is read before the recorder is asked. *)
BeginStart(c) ==
    /\ Begin(c, "start")
    /\ op' = [op EXCEPT ![c] = [pc |-> "start", floor |-> now]]
    /\ UNCHANGED <<recVars, pageVars, markVars, tick, read, begun>>

StartCall(c) ==
    /\ op[c].pc = "start"
    /\ IF IsRecording
       THEN /\ op' = [op EXCEPT ![c] = NoOp]
            /\ UNCHANGED <<recVars, begun>>
       ELSE /\ StartSession
            /\ begun' = Append(begun, [by |-> "start", floor |-> op[c].floor, had |-> 0])
            /\ op' = [op EXCEPT ![c] = [pc |-> "reset", floor |-> @.floor,
                                        gen |-> generations + 1]]
    /\ UNCHANGED <<pageVars, markVars, tick, read, ops, told>>

(* What is imported was exported before.  Its generation is taken now. *)
BeginImport(c) ==
    /\ Begin(c, "import")
    /\ Source # None
    /\ TakeGeneration
    /\ begun' = Append(begun, [by |-> "import", floor |-> now, had |-> Len(Source.all)])
    /\ op' = [op EXCEPT ![c] = [pc |-> "import", floor |-> now, gen |-> generations + 1,
                                session |-> Source]]
    /\ UNCHANGED <<recording, lastSession, pageVars, markVars, tick, read>>

ImportCall(c) ==
    /\ op[c].pc = "import"
    /\ IF IsRecording
       THEN /\ op' = [op EXCEPT ![c] = NoOp]
            /\ UNCHANGED recVars
       ELSE /\ ImportIfIdle(op[c].session, op[c].gen)
            /\ op' = [op EXCEPT ![c] = [pc |-> "reset", floor |-> @.floor, gen |-> @.gen]]
            /\ UNCHANGED generations
    /\ UNCHANGED <<pageVars, markVars, tick, read, ops, told, begun>>

ResetCall(c) ==
    /\ op[c].pc = "reset"
    /\ Reset(op[c].floor, op[c].gen)
    /\ op' = [op EXCEPT ![c] = NoOp]
    /\ UNCHANGED <<recVars, pageVars, tick, read, ops, told, begun>>

(* Stop, checkpoint and flush read the windows first, if a recording is
   active; the windows they could not list or read are `missed`.           *)
BeginFlush(c, kind) ==
    /\ Begin(c, kind)
    /\ \E todo \in {Open, {}} :
         op' = [op EXCEPT ![c] =
                  [pc |-> "flushing", kind |-> kind,
                   todo |-> IF IsRecording THEN todo ELSE {},
                   missed |-> IF IsRecording /\ todo = {} THEN Windows ELSE {},
                   gen |-> IF IsRecording /\ epoch = recording.generation THEN epoch ELSE 0,
                   from |-> page, upto |-> now]]
    /\ kind = "flush" => IsRecording
    /\ UNCHANGED <<recVars, pageVars, markVars, tick, read, begun>>

FlushNext(c) ==
    /\ op[c].pc = "flushing"
    /\ read[c] = NoRead
    /\ \E w \in op[c].todo : read' = [read EXCEPT ![c] = [pc |-> "enter", win |-> w]]
    /\ UNCHANGED <<recVars, pageVars, markVars, tick, callVars>>

(* FINAL_FLUSH_BUDGET: the read is dropped where it waits. *)
FlushTimeout(c) ==
    /\ op[c].pc = "flushing"
    /\ op[c].kind # "flush"
    /\ read[c].pc \in {"want", "asked", "unheard", "replied"}
    /\ read' = [read EXCEPT ![c] = NoRead]
    /\ op' = [op EXCEPT ![c].todo = {}, ![c].missed = @ \cup op[c].todo]
    /\ UNCHANGED <<recVars, pageVars, markVars, tick, ops, told, begun>>

Flushed(c, kind) ==
    /\ op[c].pc = "flushing"
    /\ op[c].kind = kind
    /\ op[c].todo = {}
    /\ read[c] = NoRead

(* History of a finished flush: what pages that stayed had captured before the
   call, and the recording (still the same, and drained from before the call
   until now) lacks, though their window was not reported.                 *)
Took(e) == \E k \in DOMAIN recording.all : recording.all[k] = e

Silent(c) ==
    IF op[c].gen # recording.generation \/ op[c].gen # epoch THEN {}
    ELSE {e \in (begun[op[c].gen].floor + 1)..op[c].upto :
            /\ \E w \in Windows \ op[c].missed :
                 /\ op[c].from[w] # 0 /\ op[c].from[w] = page[w]
                 /\ \E k \in DOMAIN log[w][page[w]] : log[w][page[w]][k] = e
            /\ ~Took(e)}

Outcome(c) ==
    [silent |-> Silent(c), index |-> recording.counter, reported |-> recording.counter]

StopCall(c) ==
    /\ Flushed(c, "stop")
    /\ told' = IF IsRecording THEN [told EXCEPT ![c] = Outcome(c)] ELSE told
    /\ Stop
    /\ op' = [op EXCEPT ![c] = NoOp]
    /\ UNCHANGED <<pageVars, markVars, tick, read, ops, begun>>

(* The checkpoint, under a generated id; then its answer reads event_count. *)
CheckpointCall(c) ==
    /\ Flushed(c, "checkpoint")
    /\ IF IsRecording
       THEN /\ Checkpoint(ops)
            /\ told' = [told EXCEPT ![c] = Outcome(c)]
            /\ op' = [op EXCEPT ![c] = [pc |-> "count"]]
       ELSE /\ op' = [op EXCEPT ![c] = NoOp]
            /\ UNCHANGED <<recVars, told>>
    /\ UNCHANGED <<pageVars, markVars, tick, read, ops, begun>>

CountCall(c) ==
    /\ op[c].pc = "count"
    /\ told' = [told EXCEPT ![c].reported = EventCount]
    /\ op' = [op EXCEPT ![c] = NoOp]
    /\ UNCHANGED <<recVars, pageVars, markVars, tick, read, ops, begun>>

FlushCall(c) ==
    /\ Flushed(c, "flush")
    /\ op' = [op EXCEPT ![c] = NoOp]
    /\ UNCHANGED <<recVars, pageVars, markVars, tick, read, ops, told, begun>>

Calling(c) ==
    \/ StartCall(c) \/ ImportCall(c) \/ ResetCall(c) \/ FlushNext(c)
    \/ FlushTimeout(c) \/ StopCall(c) \/ CheckpointCall(c) \/ CountCall(c)
    \/ FlushCall(c)

Request(c) ==
    \/ BeginStart(c) \/ BeginImport(c)
    \/ \E kind \in {"stop", "checkpoint", "flush"} : BeginFlush(c, kind)
-----------------------------------------------------------------------------
Pages == \E w \in Windows : Capture(w) \/ Load(w) \/ Back(w) \/ Close(w)

Next ==
    \/ Pages
    \/ Loop
    \/ \E r \in Readers : Reading(r)
    \/ \E c \in Clients : Request(c) \/ Calling(c)

Spec == Init /\ [][Next]_vars

(* Handlers and the loop run; a page that is asked over and over answers
   sooner or later within its five seconds, and the answer is taken in.    *)
FairSpec ==
    /\ Spec
    /\ WF_vars(Loop)
    /\ \A c \in Clients : WF_vars(Calling(c))
    /\ \A r \in Readers : WF_vars(Reading(r))
    /\ \A w \in Windows :
         /\ SF_vars(PageReplies(w))
         /\ SF_vars(RecordOne(w) \/ MoveMark(w))
-----------------------------------------------------------------------------
ReadPCs == {"none", "enter", "want", "pinned", "asked", "unheard", "replied",
            "recording"}
OpPCs == {"none", "start", "import", "reset", "flushing", "count"}

(* The states of pages, marks, reads and calls; a mark lies in a page of its
   window, and neither epoch nor floor is ever ahead of recorder and clock. *)
TypeOK ==
    /\ RecTypeOK
    /\ now \in 0..MaxTime
    /\ \A w \in Windows : page[w] \in 0..Loads(w) /\ Loads(w) <= MaxVisits + 1
    /\ epoch \in 0..generations
    /\ floor \in 0..now
    /\ \A w \in Windows : mark[w] \in (0..Loads(w)) \X (0..MaxTime)
    /\ \A r \in Readers : read[r].pc \in ReadPCs
    /\ \A c \in Clients : op[c].pc \in OpPCs
    /\ Len(begun) = generations

(* "never ingest the same window's events twice": whatever mixture of loop
   reads and flushes took a recording's events in, each is in it once.     *)
NoEventTwice ==
    \A s \in {Source} \ {None} :
        \A i, j \in DOMAIN s.all : s.all[i] = s.all[j] => i = j

(* "those events predate it": no event captured before a recording began is
   appended to it, by no read in flight across a stop and a start, and by no
   first read of a page older than the recording.                          *)
NothingOlder ==
    IsRecording =>
        LET b == begun[recording.generation] IN
        \A k \in (b.had + 1)..Len(recording.all) : recording.all[k] > b.floor

(* A window's mark only covers events its recording holds: no order of reads
   failing, retried, straddling a reset or racing one another skips one.   *)
NothingSkipped ==
    IsRecording /\ recording.generation = epoch =>
        \A w \in Windows :
            mark[w] # NoMark =>
            \A k \in 1..mark[w][2] :
                LET e == log[w][mark[w][1]][k] IN
                e > begun[epoch].floor => Took(e)

(* "a reset for an epoch at or below the current one is a stale caller": once
   the handlers are done, the active recording is the one that is drained,
   however the handlers of several starts and stops overtook one another.  *)
Drained(by) ==
    IsRecording /\ begun[recording.generation].by = by
      /\ (\A c \in Clients : op[c].pc # "reset")
        => epoch = recording.generation

StartedIsDrained == Drained("start")

(* "REPORTED, never silently dropped": a stop or a checkpoint that names no
   window as unreachable has taken in everything a page captured before the
   call, if the page stayed and the recording was still the same one.      *)
FlushTakesInAll ==
    \A c \in Clients : told[c] # None => told[c].silent = {}

(* A recording is of what happened during it: once started it is drained,
   nothing from before it gets in, and nothing is passed over.             *)
RecordingsAreFaithful == StartedIsDrained /\ NothingOlder /\ NothingSkipped

(* What the reads of loop and clients amount to, taken together: no event is
   taken in twice, and what a flush does not report as missed is there.    *)
ReadsAddUp == NoEventTwice /\ FlushTakesInAll

(* What a page captures while a recording is active reaches it, unless the
   recording ends or the page goes first.                                  *)
Due(w, e) ==
    /\ IsRecording
    /\ begun[recording.generation].floor < e
    /\ w \in Open
    /\ \E k \in DOMAIN log[w][page[w]] : log[w][page[w]][k] = e

CapturedIsRecorded ==
    \A w \in Windows, e \in 1..MaxTime : Due(w, e) ~> (~Due(w, e) \/ Took(e))
=============================================================================
