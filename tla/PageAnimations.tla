--------------------------- MODULE PageAnimations ---------------------------
(***************************************************************************)
(* Scrubbing and sampling the page's animations: the calls of              *)
(* animation_scrub in the server (prepare, seek, restore, and the guard    *)
(* that restores when a call ends early), the scrub state and event holds  *)
(* of the page, and the sweep recorder.  The scripts of the calls run in   *)
(* the page one at a time, in the order they were sent.                    *)
(***************************************************************************)
EXTENDS Integers, Sequences, FiniteSets

CONSTANTS Scrubs,      \* calls of animation_scrub
          Elements,    \* elements of the page with one animation each
          Restore,     \* values of the parameter `restore` in use
          MaxEnds,     \* bound: natural ends of one animation
          MaxArms,     \* bound: recorders armed
          NoScrub      \* scrubState === null

ASSUME PageAnimationsAssumption ==
  /\ IsFiniteSet(Scrubs) /\ IsFiniteSet(Elements) /\ NoScrub \notin Scrubs
  /\ Restore \subseteq BOOLEAN
  /\ MaxEnds \in Nat /\ MaxArms \in Nat

VARIABLES want,       \* per call: its element and its restore parameter
          step,       \* per call: the eval it waits for, whether it was sent, the guard
          answer,     \* per call: the page's answer to that eval
          inbox,      \* scripts sent to the page and not yet run
          spawned,    \* calls whose guard has spawned a restore not yet sent
          unrestored,       \* how restores came to be never sent
          anim,       \* per element: playState of its animation
          own,        \* per element: the playState the page itself has given it
          scrub,      \* scrubState: the call that prepared it, or NoScrub
          hold,       \* scrubQuiet: event holds, one per call that prepared
          onfinish,   \* per element: the page's finish handler is in place
          queued,     \* per element: end events for the next frame, real or of a scrub
          ends,      \* per element: natural ends, ends heard and noticed, ends excused
          sweep,      \* sweepState: recorder, session under way, stopped, disarmed
          loops       \* recorders with a frame callback pending

animVars == <<want, step, answer, inbox, spawned, unrestored, anim, own, scrub, hold,
              onfinish, queued, ends, sweep, loops>>
callVars == <<want, spawned, unrestored>>
pageVars == <<anim, own, scrub, hold, onfinish, queued, ends>>
sweepVars == <<sweep, loops>>

NotBegun == [at |-> "idle", sent |-> FALSE, armed |-> FALSE]
Ended == [at |-> "ended", sent |-> FALSE, armed |-> FALSE]
NoSweep == [gen |-> 0, cur |-> FALSE, stopped |-> TRUE, disarmed |-> FALSE, idle |-> FALSE]

AnimInit ==
  /\ want \in [Scrubs -> [el: Elements, resume: Restore]]
  /\ step = [c \in Scrubs |-> NotBegun]
  /\ answer = [c \in Scrubs |-> "none"]
  /\ inbox = <<>> /\ spawned = {} /\ unrestored = {}
  /\ anim \in [Elements -> {"running", "paused", "finished", "idle"}]
  /\ own = anim
  /\ scrub = NoScrub /\ hold = {}
  /\ onfinish = [t \in Elements |-> TRUE]
  /\ queued = [t \in Elements |-> {}]
  /\ ends = [t \in Elements |-> [real |-> 0, heard |-> 0, noticed |-> 0, excused |-> 0]]
  /\ sweep = NoSweep /\ loops = {}
-----------------------------------------------------------------------------
(* The calls.  A step is an eval: to be sent, or sent and waited for.      *)

Awaits(c, at, armed) == step' = [step EXCEPT ![c] = [at |-> at, sent |-> FALSE, armed |-> armed]]

Active(c) == step[c].at \notin {"idle", "ended"}

Start(c) ==
  /\ step[c] = NotBegun
  /\ Awaits(c, "prepare", TRUE)
  /\ UNCHANGED <<answer, inbox, callVars, pageVars, sweepVars>>

Send(c) ==
  /\ Active(c) /\ ~step[c].sent
  /\ step' = [step EXCEPT ![c].sent = TRUE]
  /\ inbox' = Append(inbox, [op |-> IF step[c].at = "refuse" THEN "restore" ELSE step[c].at,
                             call |-> c])
  /\ answer' = [answer EXCEPT ![c] = "none"]
  /\ UNCHANGED <<callVars, pageVars, sweepVars>>

(* The answer of the page is back: what animation_scrub does with it.  The *)
(* guard is disarmed when nothing was prepared, before the last restore,   *)
(* and after the restore of a filmstrip refused for its size.              *)
Hears(c) ==
  /\ Active(c) /\ step[c].sent /\ answer[c] # "none"
  /\ \/ step[c].at = "prepare" /\ answer[c] = "prepared" /\ Awaits(c, "seek", TRUE)
     \/ step[c].at = "prepare" /\ answer[c] = "refused" /\ step' = [step EXCEPT ![c] = Ended]
     \/ step[c].at = "seek" /\ Awaits(c, "restore", FALSE)
     \/ step[c].at = "seek" /\ Awaits(c, "refuse", TRUE)
     \/ step[c].at \in {"restore", "refuse"} /\ step' = [step EXCEPT ![c] = Ended]
  /\ answer' = [answer EXCEPT ![c] = "none"]
  /\ UNCHANGED <<inbox, callVars, pageVars, sweepVars>>

(* An eval fails or times out.  One that was not sent never is; one that   *)
(* was may still run.                                                      *)
EvalFails(c) ==
  /\ Active(c)
  /\ \/ /\ step[c].at = "prepare"
        /\ step' = [step EXCEPT ![c] = Ended]
        /\ spawned' = spawned \cup {c} /\ unrestored' = unrestored
     \/ /\ step[c].at = "seek" /\ Awaits(c, "restore", FALSE)
        /\ UNCHANGED <<spawned, unrestored>>
     \/ /\ step[c].at \in {"restore", "refuse"}
        /\ step' = [step EXCEPT ![c] = Ended]
        /\ unrestored' = IF step[c].sent THEN unrestored ELSE unrestored \cup {"failed"}
        /\ UNCHANGED spawned
  /\ answer' = [answer EXCEPT ![c] = "none"]
  /\ UNCHANGED <<want, inbox, pageVars, sweepVars>>

(* The request is cancelled: the future is dropped, and with it the guard. *)
Cancel(c) ==
  /\ Active(c)
  /\ step' = [step EXCEPT ![c] = Ended]
  /\ spawned' = IF step[c].armed THEN spawned \cup {c} ELSE spawned
  /\ unrestored' = IF ~step[c].armed /\ ~step[c].sent THEN unrestored \cup {"cancelled"} ELSE unrestored
  /\ answer' = [answer EXCEPT ![c] = "none"]
  /\ UNCHANGED <<want, inbox, pageVars, sweepVars>>

(* ScrubRestoreGuard::drop: the spawned restore is sent, or fails.         *)
GuardRestores(c) ==
  /\ c \in spawned
  /\ spawned' = spawned \ {c}
  /\ \/ inbox' = Append(inbox, [op |-> "restore", call |-> c]) /\ unrestored' = unrestored
     \/ inbox' = inbox /\ unrestored' = unrestored \cup {"failed"}
  /\ UNCHANGED <<want, step, answer, pageVars, sweepVars>>
-----------------------------------------------------------------------------
(* The page.                                                               *)

HoldOf(c) == CHOOSE h \in hold : h.of = c

(* restoreScrub: what the animation, its handler, its events and the holds *)
(* become.  The hold is released two frames later (releaseScrubEvents).    *)
Restored(c, resume) ==
  LET h == HoldOf(c)
      again == resume /\ h.saved = "finished"
  IN [anim     |-> [anim EXCEPT ![h.el] = IF resume /\ h.saved \in {"running", "finished"}
                                          THEN h.saved ELSE @],
      onfinish |-> [onfinish EXCEPT ![h.el] = @ /\ ~again],
      queued   |-> [queued EXCEPT ![h.el] = IF again THEN @ \cup {"scrub"} ELSE @],
      hold     |-> (hold \ {h}) \cup
                     {[h EXCEPT !.frames = 2, !.keeps = again /\ onfinish[h.el]]}]

AsItIs == [anim |-> anim, onfinish |-> onfinish, queued |-> queued, hold |-> hold]

(* scrubPrepare, in the page as `before` leaves it.                        *)
PreparesAfter(c, before) ==
  LET t == want[c].el IN
  /\ anim' = [before.anim EXCEPT ![t] = "paused"]
  /\ hold' = before.hold \cup {[of |-> c, el |-> t, saved |-> before.anim[t],
                                frames |-> 0, keeps |-> FALSE]}
  /\ onfinish' = before.onfinish
  /\ queued' = before.queued
  /\ ends' = [ends EXCEPT ![t].excused = IF "real" \in queued[t] THEN @ + 1 ELSE @]
  /\ scrub' = c

(* A mistaken Prepare: it sets up over a hold that stands. *)
PreparesOver(c) == PreparesAfter(c, AsItIs)

(* A scrub that is replaced is restored first.                             *)
Prepares(c) == PreparesAfter(c, IF scrub = NoScrub THEN AsItIs ELSE Restored(scrub, TRUE))

(* scrubRestore(resume) ends whatever scrub the page has.                  *)
ScrubRestore(resume) ==
  IF scrub = NoScrub
  THEN UNCHANGED pageVars
  ELSE LET after == Restored(scrub, resume) IN
       /\ anim' = after.anim /\ onfinish' = after.onfinish
       /\ queued' = after.queued /\ hold' = after.hold
       /\ scrub' = NoScrub
       /\ UNCHANGED <<own, ends>>

(* An answer nobody waits for any more is dropped.                         *)
Answers(c, op, a) ==
  answer' = IF step[c].sent /\ op \in {step[c].at, IF step[c].at = "refuse" THEN "restore" ELSE ""}
            THEN [answer EXCEPT ![c] = a] ELSE answer

RunScript ==
  /\ inbox # <<>>
  /\ inbox' = Tail(inbox)
  /\ LET s == Head(inbox) IN
     \/ /\ s.op = "prepare" /\ anim[want[s.call].el] = "idle"
        /\ Answers(s.call, s.op, "refused") /\ UNCHANGED pageVars
     \/ /\ s.op = "prepare" /\ anim[want[s.call].el] # "idle"
        /\ Answers(s.call, s.op, "prepared") /\ Prepares(s.call) /\ UNCHANGED own
     \/ s.op = "seek" /\ Answers(s.call, s.op, "sought") /\ UNCHANGED pageVars
     \/ s.op = "restore" /\ Answers(s.call, s.op, "restored")
        /\ ScrubRestore(want[s.call].resume)
  /\ UNCHANGED <<step, callVars, sweepVars>>

(* The page's animations: one ends by itself, one is played (again) when   *)
(* no scrub holds its events.                                              *)
NaturalEnd(t) ==
  /\ anim[t] = "running" /\ queued[t] = {} /\ ends[t].real < MaxEnds
  /\ anim' = [anim EXCEPT ![t] = "finished"]
  /\ own' = [own EXCEPT ![t] = "finished"]
  /\ queued' = [queued EXCEPT ![t] = {"real"}]
  /\ ends' = [ends EXCEPT ![t].real = @ + 1]
  /\ UNCHANGED <<step, answer, inbox, callVars, scrub, hold, onfinish, sweepVars>>

PagePlays(t) ==
  /\ anim[t] \in {"finished", "idle"} /\ queued[t] = {} /\ ends[t].real < MaxEnds
  /\ \A h \in hold : h.el # t
  /\ anim' = [anim EXCEPT ![t] = "running"]
  /\ own' = [own EXCEPT ![t] = "running"]
  /\ UNCHANGED <<step, answer, inbox, callVars, scrub, hold, onfinish, queued, ends, sweepVars>>

(* scrubCaused, for an end event of the element of a hold.                 *)
scrubCaused(h) == ~(anim[h.el] = "finished" /\ h.saved # "finished")

(* A frame: end events are dispatched, through the listener that stops     *)
(* those of held animations; then the frame callbacks of releases run.     *)
DrawFrame ==
  /\ (\E t \in Elements : queued[t] # {}) \/ (\E h \in hold : h.frames > 0)
  /\ LET stops(t) == \E h \in hold : h.el = t /\ scrubCaused(h)
         released == {h \in hold : h.frames = 1}
     IN /\ ends' = [t \in Elements |->
              [ends[t] EXCEPT
                 !.heard = @ + IF stops(t) THEN 0 ELSE Cardinality(queued[t]),
                 !.noticed = @ + IF onfinish[t] THEN Cardinality(queued[t]) ELSE 0]]
        /\ queued' = [t \in Elements |-> {}]
        /\ hold' = {IF h.frames = 2 THEN [h EXCEPT !.frames = 1] ELSE h : h \in hold \ released}
        /\ onfinish' = [t \in Elements |-> onfinish[t] \/ \E h \in released : h.el = t /\ h.keeps]
  /\ UNCHANGED <<step, answer, inbox, callVars, anim, own, scrub, sweepVars>>
-----------------------------------------------------------------------------
(* The sweep recorder.                                                     *)

installSweepRecorder ==
  /\ sweep.gen < MaxArms
  /\ sweep' = [NoSweep EXCEPT !.gen = sweep.gen + 1, !.stopped = FALSE]
  /\ loops' = loops \cup {sweep.gen + 1}

(* One frame of recorder g: a superseded or disarmed one ends, so does one *)
(* left idle; a session begins with a running animation and ends with it.  *)
Tick(g) ==
  /\ g \in loops
  /\ \/ /\ g # sweep.gen \/ sweep.disarmed
        /\ loops' = loops \ {g} /\ UNCHANGED sweep
     \/ /\ g = sweep.gen /\ ~sweep.disarmed /\ sweep.idle
        /\ sweep' = [sweep EXCEPT !.cur = FALSE, !.stopped = TRUE]
        /\ loops' = loops \ {g}
     \/ /\ g = sweep.gen /\ ~sweep.disarmed /\ ~sweep.idle
        /\ sweep' = [sweep EXCEPT !.cur = \E t \in Elements : anim[t] = "running"]
        /\ UNCHANGED loops

(* Nobody has armed or read the recorder for SWEEP_IDLE_STOP_MS.           *)
IdlesOut ==
  sweep.gen > 0 /\ ~sweep.idle /\ sweep' = [sweep EXCEPT !.idle = TRUE] /\ UNCHANGED loops

disarmSweep ==
  /\ sweep.gen > 0 /\ ~sweep.stopped
  /\ sweep' = [sweep EXCEPT !.cur = FALSE, !.stopped = TRUE, !.disarmed = TRUE]
  /\ UNCHANGED loops

readSweep == sweep.gen > 0 /\ sweep' = [sweep EXCEPT !.idle = FALSE] /\ UNCHANGED loops

SweepNext ==
  /\ installSweepRecorder \/ (\E g \in loops : Tick(g)) \/ IdlesOut \/ disarmSweep \/ readSweep
  /\ UNCHANGED <<step, answer, inbox, callVars, pageVars>>

ScrubNext ==
  \/ \E c \in Scrubs : \/ Start(c) \/ Send(c) \/ Hears(c) \/ EvalFails(c) \/ Cancel(c)
                       \/ GuardRestores(c)
  \/ RunScript \/ DrawFrame
  \/ \E t \in Elements : NaturalEnd(t) \/ PagePlays(t)

AnimSpec == AnimInit /\ [][ScrubNext \/ SweepNext]_animVars
-----------------------------------------------------------------------------
AllOver == inbox = <<>> /\ spawned = {} /\ \A c \in Scrubs : ~Active(c)

(* Once every scrub is over, however each of them ended and however they   *)
(* overlapped, each animation is in the state the page has it in: what ran *)
(* runs, what had finished has finished, what the page paused is paused.   *)
(* Calls that ask to leave the page paused, and restores that never        *)
(* reached the page, are excepted.                                         *)
PutBackAsFound ==
  (AllOver /\ unrestored = {} /\ \A c \in Scrubs : want[c].resume) => anim = own

(* The page hears of the end of an animation, as an event and through its  *)
(* finish handler, when the animation has really ended and never because   *)
(* of a scrub; each real end is heard of, except one already queued when a *)
(* scrub of the same element was prepared, which the code gives up.        *)
EndsAreTrue ==
  \A t \in Elements :
    LET happened == ends[t].real - (IF "real" \in queued[t] THEN 1 ELSE 0)
    IN \A told \in {ends[t].heard, ends[t].noticed} :
         happened - ends[t].excused <= told /\ told <= happened

(* A recorder that says it is armed is being run by a frame callback.      *)
ArmedIsRunning == ~sweep.stopped => sweep.gen \in loops

(* What scrubbing and sweeping leave behind: every animation as it was     *)
(* found, an end told to the page only if there was one, and nothing armed *)
(* that has ceased to run.                                                 *)
AnimationsAreTheirs == PutBackAsFound /\ EndsAreTrue /\ ArmedIsRunning
=============================================================================
