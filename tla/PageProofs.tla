----------------------------- MODULE PageProofs -----------------------------
(***************************************************************************)
(* What is proved of the tooling inside the page: scrubbed animations, the *)
(* log of XMLHttpRequests and the log of Tauri's calls.                    *)
(***************************************************************************)
EXTENDS PageAnimations, PageXhr, PageIpc, FiniteSetTheorems, TLAPS

(***************************************************************************)
(* AnimationsAreTheirs for any calls and any elements. A scrub stands over *)
(* its element from its preparation until a restore runs (OneStands), and  *)
(* while it stands a restore is in the page's inbox or somebody still owes *)
(* one: its call, the guard the call has left, or nobody because sending   *)
(* failed, which the property excepts (RestoresCome). The animations       *)
(* differ from what the page made of them by what the standing hold        *)
(* remembers, and by no more (AsFound). Ends are counted against what is   *)
(* queued, heard, noticed and excused, and the events a scrub causes       *)
(* itself are stopped by the hold that caused them (ScrubEvents,           *)
(* EndsCount).                                                             *)
(***************************************************************************)

PlayStates == {"running", "paused", "finished", "idle"}
Scripts == [op : {"prepare", "seek", "restore"}, call : Scrubs]
Steps == [at : {"idle", "prepare", "seek", "restore", "refuse", "ended"}, sent : BOOLEAN,
          armed : BOOLEAN]
Holds == [of : Scrubs, el : Elements, saved : PlayStates, frames : 0..2, keeps : BOOLEAN]
Counts == [real : Nat, heard : Nat, noticed : Nat, excused : Nat]

CallsTypeOK ==
  /\ want \in [Scrubs -> [el : Elements, resume : BOOLEAN]]
  /\ step \in [Scrubs -> Steps]
  /\ answer \in [Scrubs -> {"none", "prepared", "refused", "sought", "restored"}]
  /\ inbox \in Seq(Scripts)

(* The page: animations, finish handlers, end events, holds, scrub and counts. *)
PageTypeOK(a, f, q, hs, s, e) ==
  /\ a \in [Elements -> PlayStates] /\ own \in [Elements -> PlayStates]
  /\ f \in [Elements -> BOOLEAN] /\ q \in [Elements -> SUBSET {"real", "scrub"}]
  /\ hs \subseteq Holds /\ s \in Scrubs \cup {NoScrub}
  /\ e \in [Elements -> Counts]

(* A prepared scrub stands over its element until a restore runs; the other holds are on *)
(* their way out.                                                                        *)
OneStands(a, hs, s) ==
  /\ \A h, k \in hs : h.of = k.of => h = k
  /\ \A h \in hs : (h.frames = 0 <=> h.of = s) /\ (h.frames = 0 => ~h.keeps)
  /\ s # NoScrub => \E h \in hs : h.of = s /\ a[h.el] = "paused" /\ h.saved # "idle"

(* The animations are as the page has them, but for the one that is being scrubbed. *)
AllResume == \A c \in Scrubs : want[c].resume
AsFound(a, hs, s) ==
  \A t \in Elements :
    \/ a[t] = own[t] /\ \A h \in hs : h.of = s => h.el # t
    \/ \E h \in hs : h.of = s /\ h.el = t /\ h.saved = own[t]

(* Ends: a running animation is held only by scrubs that found it running; an event of a *)
(* scrub is stopped by its hold and is behind the back of the finish handler.            *)
FoundFinished(hs, t) == \E h \in hs : h.el = t /\ h.saved = "finished"
RunningHolds(a, hs, s) ==
  \A h \in hs :
    /\ a[h.el] = "running" => h.saved = "running"
    /\ h.of = s /\ h.saved = "running" => \A k \in hs : k.el = h.el => k.saved = "running"
ScrubEvents(a, f, q, hs) ==
  \A t \in Elements :
    /\ "scrub" \in q[t] => ~f[t] /\ FoundFinished(hs, t)
    /\ ~f[t] => \E h \in hs : h.el = t /\ h.keeps /\ h.saved = "finished"
    /\ "real" \in q[t] /\ ~FoundFinished(hs, t) => a[t] = "finished"
Waits(p) == IF p THEN 1 ELSE 0
EndsCount(q, hs, e) ==
  \A t \in Elements :
    /\ e[t].heard + Waits("real" \in q[t]) <= e[t].real
    /\ e[t].noticed + Waits("real" \in q[t]) <= e[t].real
    /\ e[t].real <= e[t].excused + e[t].heard
                      + Waits("real" \in q[t] /\ ~FoundFinished(hs, t))
    /\ e[t].real <= e[t].excused + e[t].noticed
                      + Waits("real" \in q[t] /\ ~FoundFinished(hs, t))

PageSound(a, f, q, hs, s, e) ==
  /\ PageTypeOK(a, f, q, hs, s, e)
  /\ OneStands(a, hs, s)
  /\ AllResume => AsFound(a, hs, s)
  /\ RunningHolds(a, hs, s)
  /\ ScrubEvents(a, f, q, hs)
  /\ EndsCount(q, hs, e)
PageInv == PageSound(anim, onfinish, queued, hold, scrub, ends)

(* A call prepares once: before it has asked to, nothing of it is in the page. *)
Preparing(i) == inbox[i].op = "prepare"
Fresh(c) == step[c].at = "idle" \/ (step[c].at = "prepare" /\ ~step[c].sent)
PreparesOnce ==
  /\ \A h \in hold : ~Fresh(h.of)
  /\ \A i \in 1..Len(inbox) : Preparing(i) =>
       /\ ~Fresh(inbox[i].call)
       /\ \A h \in hold : h.of # inbox[i].call
       /\ \A j \in 1..Len(inbox) : Preparing(j) /\ inbox[j].call = inbox[i].call => i = j

(* What a call has heard, or has gone on to do, tells that its preparation has run. *)
HeardOf ==
  \A c \in Scrubs :
    /\ step[c].at \in {"idle", "ended"} => ~step[c].sent
    /\ answer[c] # "none" => step[c].sent
    /\ step[c].at \in {"seek", "restore", "refuse"} \/ answer[c] # "none" =>
         \A i \in 1..Len(inbox) : Preparing(i) => inbox[i].call # c
    /\ answer[c] = "refused" => \A h \in hold : h.of # c

(* Whoever has prepared, or is about to, is restored: by a script that is on its way, or *)
(* by what is still owed to its call.                                                    *)
Restoring(c) == step[c].at \in {"restore", "refuse"} /\ step[c].sent
Owed(c) == unrestored # {} \/ c \in spawned \/ (Active(c) /\ ~Restoring(c))
RestoresAfter(i) == \E j \in 1..Len(inbox) : j > i /\ inbox[j].op = "restore"
RestoresCome ==
  /\ scrub # NoScrub => Owed(scrub) \/ RestoresAfter(0)
  /\ \A i \in 1..Len(inbox) : Preparing(i) => Owed(inbox[i].call) \/ RestoresAfter(i)
  /\ \A c \in Scrubs : Restoring(c) /\ answer[c] # "none" => scrub # c
  /\ \A c \in Scrubs : step[c].at \in {"prepare", "seek"} => step[c].armed

ScrubInv == CallsTypeOK /\ PageInv /\ PreparesOnce /\ HeardOf /\ RestoresCome

SweepInv ==
  /\ DOMAIN sweep = DOMAIN NoSweep
  /\ sweep.disarmed => sweep.stopped
  /\ ArmedIsRunning
-----------------------------------------------------------------------------
pageState == <<anim, own, scrub, hold, onfinish, queued, ends>>

(* What leaves the page alone leaves it sound. *)
LEMMA PageStands == ASSUME PageInv, UNCHANGED pageState, UNCHANGED want PROVE PageInv'
BY DEF PageInv, PageSound, PageTypeOK, OneStands, AllResume, AsFound, RunningHolds,
   ScrubEvents, EndsCount, FoundFinished, Waits, pageState

LEMMA InboxGrows ==
    ASSUME CallsTypeOK, NEW m \in Scripts, inbox' = Append(inbox, m)
    PROVE  /\ inbox' \in Seq(Scripts) /\ Len(inbox) \in Nat /\ Len(inbox') = Len(inbox) + 1
           /\ \A i \in 1..Len(inbox) : inbox'[i] = inbox[i]
           /\ inbox'[Len(inbox) + 1] = m
BY DEF CallsTypeOK

LEMMA InboxIsOfCalls ==
    ASSUME CallsTypeOK
    PROVE  \A i \in 1..Len(inbox) : inbox[i] \in Scripts /\ inbox[i].call \in Scrubs
<1>1. \A i \in 1..Len(inbox) : inbox[i] \in Scripts BY DEF CallsTypeOK
<1>2. \A m \in Scripts : m.call \in Scrubs BY DEF Scripts
<1>3. QED BY <1>1, <1>2

LEMMA InboxAdvances ==
    ASSUME CallsTypeOK, inbox # <<>>, inbox' = Tail(inbox)
    PROVE  /\ inbox' \in Seq(Scripts) /\ Len(inbox) \in Nat \ {0} /\ Len(inbox') = Len(inbox) - 1
           /\ \A i \in 1..Len(inbox') : inbox'[i] = inbox[i + 1] /\ i + 1 \in 1..Len(inbox)
           /\ Head(inbox) = inbox[1] /\ inbox[1] \in Scripts
BY DEF CallsTypeOK

LEMMA StartScrubStep ==
    ASSUME ScrubInv, NEW c \in Scrubs, Start(c) PROVE ScrubInv'
<1> USE DEF ScrubInv, Start, callVars, pageVars, Awaits, NotBegun
<1>1. CallsTypeOK' BY DEF CallsTypeOK, Steps
<1>2. PageInv' BY PageStands DEF pageState
<1>3. PreparesOnce' BY DEF PreparesOnce, CallsTypeOK, Fresh, Preparing, Steps
<1>4. HeardOf' BY DEF HeardOf, CallsTypeOK, Preparing, Steps
<1>5. RestoresCome'
  BY DEF RestoresCome, CallsTypeOK, Owed, Active, Restoring, RestoresAfter,
     Preparing, Steps
<1>6. QED BY <1>1, <1>2, <1>3, <1>4, <1>5

LEMMA SendStep ==
    ASSUME ScrubInv, NEW c \in Scrubs, Send(c) PROVE ScrubInv'
<1> DEFINE m == [op |-> IF step[c].at = "refuse" THEN "restore" ELSE step[c].at, call |-> c]
<1> USE DEF ScrubInv, callVars, pageVars
<1>1. m \in Scripts /\ inbox' = Append(inbox, m)
  BY DEF CallsTypeOK, Steps, Scripts, Send, Active
<1>2. /\ inbox' \in Seq(Scripts) /\ Len(inbox) \in Nat /\ Len(inbox') = Len(inbox) + 1
      /\ \A i \in 1..Len(inbox) : inbox'[i] = inbox[i]
      /\ inbox'[Len(inbox) + 1] = m
  BY <1>1, InboxGrows
<1>3. CallsTypeOK' BY <1>2 DEF CallsTypeOK, Steps, Send, Active
<1>4. PageInv' BY PageStands DEF pageState, Send
<1>5. PreparesOnce'
  BY <1>2 DEF PreparesOnce, CallsTypeOK, Fresh, Preparing, Steps, Send, Active
<1>6. HeardOf' BY <1>2 DEF HeardOf, CallsTypeOK, Preparing, Steps, Send, Active
<1>7. RestoresCome'
  <2>1. /\ step'[c].at = step[c].at /\ step'[c].armed = step[c].armed /\ Active(c) /\ Active(c)'
        /\ answer'[c] = "none" /\ ~step[c].sent
        /\ \A d \in Scrubs \ {c} : step'[d] = step[d] /\ answer'[d] = answer[d]
        /\ scrub' = scrub /\ spawned' = spawned /\ unrestored' = unrestored
    BY DEF CallsTypeOK, Steps, Send, Active
  <2>2. \A i \in 0..Len(inbox) : RestoresAfter(i) => RestoresAfter(i)'
    BY <1>2 DEF RestoresAfter
  <2>3. CASE step[c].at \in {"restore", "refuse"}
    <3>1. \A i \in 0..Len(inbox) : RestoresAfter(i)'
      BY <1>2, <2>3 DEF RestoresAfter
    <3>2. \A i \in 1..Len(inbox') : Preparing(i)' => i \in 1..Len(inbox)
      BY <1>2, <2>3 DEF Preparing
    <3>3. \A d \in Scrubs : Restoring(d)' /\ answer'[d] # "none" => scrub' # d
      BY <2>1 DEF Restoring, RestoresCome
    <3>4. \A d \in Scrubs : step'[d].at \in {"prepare", "seek"} => step'[d].armed
      BY <2>1 DEF RestoresCome
    <3>5. QED BY <1>2, <3>1, <3>2, <3>3, <3>4 DEF RestoresCome
  <2>4. CASE step[c].at \notin {"restore", "refuse"}
    <3>1. \A d \in Scrubs : (Owed(d) => Owed(d)') /\ (Restoring(d) <=> Restoring(d)')
      BY <2>1, <2>4 DEF Owed, Restoring, Active
    <3>2. Owed(c)' BY <2>1, <2>4 DEF Owed, Restoring
    <3>3. \A i \in 1..Len(inbox') : Preparing(i)' =>
            \/ inbox'[i].call = c
            \/ i \in 1..Len(inbox) /\ Preparing(i) /\ inbox'[i].call = inbox[i].call
      BY <1>2 DEF Preparing
    <3>4. \A i \in 1..Len(inbox) : inbox[i].call \in Scrubs
      BY InboxIsOfCalls
    <3>5. scrub' # NoScrub => Owed(scrub)' \/ RestoresAfter(0)'
      BY <1>2, <2>1, <2>2, <3>1 DEF RestoresCome, PageInv, PageSound, PageTypeOK
    <3>6. \A i \in 1..Len(inbox') : Preparing(i)' =>
            Owed(inbox[i].call)' \/ RestoresAfter(i)' \/ inbox'[i].call = c
      BY <1>2, <2>2, <3>1, <3>3, <3>4 DEF RestoresCome
    <3>7. \A i \in 1..Len(inbox') : Preparing(i)' => (Owed(inbox[i].call) \/ RestoresAfter(i))'
      BY <1>2, <3>2, <3>3, <3>6
    <3>8. \A d \in Scrubs : /\ Restoring(d)' /\ answer'[d] # "none" => scrub' # d
                            /\ step'[d].at \in {"prepare", "seek"} => step'[d].armed
      BY <2>1, <3>1 DEF RestoresCome
    <3>9. QED BY <3>5, <3>7, <3>8 DEF RestoresCome
  <2>5. QED BY <2>3, <2>4
<1>8. QED BY <1>3, <1>4, <1>5, <1>6, <1>7

(* A call goes on to its next eval, not yet sent, or ends and leaves behind who restores. *)
LEMMA CallMoves ==
    ASSUME ScrubInv, NEW c \in Scrubs, NEW new \in Steps,
           step' = [step EXCEPT ![c] = new], answer' = [answer EXCEPT ![c] = "none"],
           UNCHANGED <<inbox, want, pageState>>,
           new.at \in {"seek", "restore", "refuse", "ended"}, ~new.sent,
           new.at = "seek" => new.armed,
           new.at # "ended" => \A i \in 1..Len(inbox) : Preparing(i) => inbox[i].call # c,
           spawned \subseteq spawned', unrestored \subseteq unrestored',
           new.at = "ended" =>
             \/ c \in spawned' \/ unrestored' # {}
             \/ /\ scrub = c => RestoresAfter(0)
                /\ \A i \in 1..Len(inbox) : Preparing(i) /\ inbox[i].call = c => RestoresAfter(i)
    PROVE  ScrubInv'
<1> USE DEF ScrubInv
<1>1. /\ step'[c] = new /\ answer'[c] = "none"
      /\ \A d \in Scrubs \ {c} : step'[d] = step[d] /\ answer'[d] = answer[d]
      /\ step' \in [Scrubs -> Steps]
  BY DEF CallsTypeOK
<1>2. CallsTypeOK' BY <1>1 DEF CallsTypeOK
<1>3. PageInv' BY PageStands
<1>4. \A d \in Scrubs : Fresh(d)' => Fresh(d)
  BY <1>1 DEF Fresh
<1>5. PreparesOnce' 
  <2>1. \A h \in hold : h.of \in Scrubs BY DEF PageInv, PageSound, PageTypeOK, Holds
  <2>2. \A i \in 1..Len(inbox) : inbox[i].call \in Scrubs BY InboxIsOfCalls
  <2>3. \A h \in hold' : ~Fresh(h.of)' BY <1>4, <2>1 DEF PreparesOnce, pageState
  <2>4. \A i \in 1..Len(inbox) : Preparing(i) => ~Fresh(inbox[i].call)'
    BY <1>4, <2>2 DEF PreparesOnce
  <2>5. QED BY <2>3, <2>4 DEF PreparesOnce, Preparing, pageState, Fresh
<1>6. HeardOf' BY <1>1 DEF HeardOf, Preparing, pageState
<1>7. RestoresCome'
  <2>1. \A d \in Scrubs \ {c} : (Owed(d) => Owed(d)') /\ (Restoring(d)' <=> Restoring(d))
    BY <1>1 DEF Owed, Active, Restoring
  <2>2. /\ ~Restoring(c)'
        /\ new.at # "ended" \/ c \in spawned' \/ unrestored' # {} => Owed(c)'
    BY <1>1 DEF Owed, Active, Restoring
  <2>3. \A i \in 1..Len(inbox) : inbox[i].call \in Scrubs BY InboxIsOfCalls
  <2>4. /\ \A i : RestoresAfter(i)' <=> RestoresAfter(i)
        /\ \A i : Preparing(i)' <=> Preparing(i)
    BY DEF RestoresAfter, Preparing
  <2>5. scrub' # NoScrub => Owed(scrub)' \/ RestoresAfter(0)'
    BY <2>1, <2>2, <2>4 DEF RestoresCome, PageInv, PageSound, PageTypeOK, pageState
  <2>6. \A i \in 1..Len(inbox) : Preparing(i) => Owed(inbox[i].call)' \/ RestoresAfter(i)'
    BY <2>1, <2>2, <2>3, <2>4 DEF RestoresCome
  <2>7. \A d \in Scrubs : /\ Restoring(d)' /\ answer'[d] # "none" => scrub' # d
                          /\ step'[d].at \in {"prepare", "seek"} => step'[d].armed
    BY <1>1, <2>1, <2>2 DEF RestoresCome, pageState
  <2>8. QED BY <2>4, <2>5, <2>6, <2>7 DEF RestoresCome
<1>8. QED BY <1>2, <1>3, <1>5, <1>6, <1>7

LEMMA HearsStep ==
    ASSUME ScrubInv, NEW c \in Scrubs, Hears(c) PROVE ScrubInv'
<1>1. /\ UNCHANGED <<inbox, want, pageState>> /\ answer' = [answer EXCEPT ![c] = "none"]
      /\ spawned \subseteq spawned' /\ unrestored \subseteq unrestored'
  BY DEF Hears, callVars, pageVars, pageState
<1>2. /\ \A i \in 1..Len(inbox) : Preparing(i) => inbox[i].call # c
      /\ answer[c] = "refused" \/ Restoring(c) => scrub # c
  <2>1. answer[c] # "none" BY DEF Hears
  <2>2. answer[c] = "refused" => scrub # c
    BY PageAnimationsAssumption DEF ScrubInv, HeardOf, PageInv, PageSound,
       PageTypeOK, OneStands
  <2>3. QED BY <2>1, <2>2 DEF ScrubInv, HeardOf, RestoresCome
<1>3. PICK new \in Steps :
        /\ step' = [step EXCEPT ![c] = new]
        /\ new.at \in {"seek", "restore", "refuse", "ended"} /\ ~new.sent
        /\ new.at = "seek" => new.armed
        /\ new.at = "ended" => answer[c] = "refused" \/ Restoring(c)
  <2> DEFINE at(p, a) == [at |-> p, sent |-> FALSE, armed |-> a]
  <2>1. /\ at("seek", TRUE) \in Steps /\ at("restore", FALSE) \in Steps
        /\ at("refuse", TRUE) \in Steps /\ at("ended", FALSE) \in Steps
    BY DEF Steps
  <2>2. \/ step' = [step EXCEPT ![c] = at("seek", TRUE)]
        \/ step' = [step EXCEPT ![c] = at("restore", FALSE)]
        \/ step' = [step EXCEPT ![c] = at("refuse", TRUE)]
        \/ /\ step' = [step EXCEPT ![c] = at("ended", FALSE)]
           /\ answer[c] = "refused" \/ Restoring(c)
    BY DEF Hears, Awaits, Ended, Restoring
  <2>3. QED BY <2>1, <2>2
<1>4. QED BY <1>1, <1>2, <1>3, CallMoves

(* Whoever waits for its restore no longer counts on it. *)
LEMMA RestoringIsSent ==
    ASSUME ScrubInv, NEW c \in Scrubs, Restoring(c)
    PROVE  \/ c \in spawned \/ unrestored # {}
           \/ /\ scrub = c => RestoresAfter(0)
              /\ \A i \in 1..Len(inbox) : Preparing(i) /\ inbox[i].call = c => RestoresAfter(i)
BY PageAnimationsAssumption, InboxIsOfCalls DEF ScrubInv, RestoresCome, Owed,
   PageInv, PageSound, PageTypeOK, Restoring, Active

LEMMA EvalFailsStep ==
    ASSUME ScrubInv, NEW c \in Scrubs, EvalFails(c) PROVE ScrubInv'
<1>1. /\ UNCHANGED <<inbox, want, pageState>> /\ answer' = [answer EXCEPT ![c] = "none"]
      /\ spawned \subseteq spawned' /\ unrestored \subseteq unrestored'
  BY DEF EvalFails, callVars, pageVars, pageState
<1>2. Ended \in Steps /\ [at |-> "restore", sent |-> FALSE, armed |-> FALSE] \in Steps
  BY DEF Ended, Steps
<1>3. CASE step[c].at = "seek"
  <2>1. \A i \in 1..Len(inbox) : Preparing(i) => inbox[i].call # c
    BY <1>3 DEF ScrubInv, HeardOf
  <2>2. step' = [step EXCEPT ![c] = [at |-> "restore", sent |-> FALSE, armed |-> FALSE]]
    BY <1>3 DEF EvalFails, Awaits
  <2>3. QED BY <1>1, <1>2, <2>1, <2>2, CallMoves
<1>4. CASE step[c].at # "seek"
  <2>1. step' = [step EXCEPT ![c] = Ended] /\ Ended.at = "ended" /\ ~Ended.sent
    BY <1>4 DEF EvalFails, Ended
  <2>2. c \in spawned' \/ unrestored' # {} \/ Restoring(c)
    BY <1>4 DEF EvalFails, Restoring
  <2>3. \/ c \in spawned' \/ unrestored' # {}
        \/ /\ scrub = c => RestoresAfter(0)
           /\ \A i \in 1..Len(inbox) : Preparing(i) /\ inbox[i].call = c => RestoresAfter(i)
    BY <1>1, <2>2, RestoringIsSent
  <2>4. QED BY <1>1, <1>2, <2>1, <2>3, CallMoves
<1>5. QED BY <1>3, <1>4

LEMMA CancelStep ==
    ASSUME ScrubInv, NEW c \in Scrubs, Cancel(c) PROVE ScrubInv'
<1>1. /\ UNCHANGED <<inbox, want, pageState>> /\ answer' = [answer EXCEPT ![c] = "none"]
      /\ spawned \subseteq spawned' /\ unrestored \subseteq unrestored'
  BY DEF Cancel, callVars, pageVars, pageState
<1>2. Ended \in Steps /\ step' = [step EXCEPT ![c] = Ended] /\ Ended.at = "ended" /\ ~Ended.sent
  BY DEF Ended, Steps, Cancel
<1>3. c \in spawned' \/ unrestored' # {} \/ Restoring(c)
  BY DEF Cancel, Restoring, Active, ScrubInv, RestoresCome, CallsTypeOK, Steps
<1>4. \/ c \in spawned' \/ unrestored' # {}
      \/ /\ scrub = c => RestoresAfter(0)
         /\ \A i \in 1..Len(inbox) : Preparing(i) /\ inbox[i].call = c => RestoresAfter(i)
  BY <1>1, <1>3, RestoringIsSent
<1>5. QED BY <1>1, <1>2, <1>4, CallMoves

LEMMA GuardRestoresStep ==
    ASSUME ScrubInv, NEW c \in Scrubs, GuardRestores(c) PROVE ScrubInv'
<1> DEFINE m == [op |-> "restore", call |-> c]
<1> USE DEF ScrubInv, GuardRestores, callVars, pageVars, Active
<1>1. m \in Scripts BY DEF Scripts
<1>2. CASE inbox' = Append(inbox, m)
  <2>1. /\ inbox' \in Seq(Scripts) /\ Len(inbox) \in Nat /\ Len(inbox') = Len(inbox) + 1
        /\ \A i \in 1..Len(inbox) : inbox'[i] = inbox[i]
        /\ inbox'[Len(inbox) + 1] = m
    BY <1>1, <1>2, InboxGrows
  <2>2. CallsTypeOK' BY <2>1 DEF CallsTypeOK
  <2>3. PageInv' BY PageStands DEF pageState
  <2>4. PreparesOnce' BY <2>1, SMTT(30) DEF PreparesOnce, Fresh, Preparing
  <2>5. HeardOf' BY <2>1 DEF HeardOf, Preparing
  <2>6. RestoresCome'
    BY <2>1 DEF RestoresCome, Owed, Restoring, RestoresAfter, Preparing
  <2>7. QED BY <2>2, <2>3, <2>4, <2>5, <2>6
<1>3. CASE inbox' = inbox /\ unrestored' # {}
  <2>1. CallsTypeOK' BY <1>3 DEF CallsTypeOK
  <2>2. PageInv' BY PageStands DEF pageState
  <2>3. PreparesOnce' /\ HeardOf' BY <1>3 DEF PreparesOnce, Fresh, Preparing, HeardOf
  <2>4. RestoresCome'
    BY <1>3 DEF RestoresCome, Owed, Restoring, RestoresAfter, Preparing
  <2>5. QED BY <2>1, <2>2, <2>3, <2>4
<1>4. QED BY <1>2, <1>3

(* The hold of the prepared scrub is one. *)
LEMMA HoldIsOne ==
    ASSUME PageInv, scrub # NoScrub
    PROVE  /\ HoldOf(scrub) \in hold /\ HoldOf(scrub) \in Holds /\ HoldOf(scrub).of = scrub
           /\ \A k \in hold : k.of = scrub => k = HoldOf(scrub)
           /\ HoldOf(scrub).frames = 0 /\ ~HoldOf(scrub).keeps
           /\ anim[HoldOf(scrub).el] = "paused" /\ HoldOf(scrub).saved # "idle"
<1> USE DEF PageInv, PageSound, PageTypeOK, OneStands
<1>1. PICK h \in hold : h.of = scrub /\ anim[h.el] = "paused" /\ h.saved # "idle" OBVIOUS
<1>2. \A k \in hold : k.of = scrub => k = h BY <1>1
<1>3. HoldOf(scrub) = h BY <1>1, <1>2 DEF HoldOf
<1>4. h \in Holds BY <1>1
<1>5. h.frames = 0 /\ ~h.keeps BY <1>1
<1>6. QED BY <1>1, <1>2, <1>3, <1>4, <1>5

(* A restore leaves a sound page without a scrub, and the holds of the same calls. *)
LEMMA RestoredSound ==
    ASSUME PageInv, scrub # NoScrub, NEW resume \in BOOLEAN, AllResume => resume
    PROVE  /\ LET r == Restored(scrub, resume)
              IN  /\ PageSound(r.anim, r.onfinish, r.queued, r.hold, NoScrub, ends)
                  /\ \A k \in r.hold : \E g \in hold : g.of = k.of
                  /\ \A t \in Elements : /\ "real" \in r.queued[t] <=> "real" \in queued[t]
                                         /\ anim[t] # "idle" => r.anim[t] # "idle"
<1> DEFINE h == HoldOf(scrub)
           again == resume /\ h.saved = "finished"
           left == [h EXCEPT !.frames = 2, !.keeps = again /\ onfinish[h.el]]
           a == [anim EXCEPT ![h.el] = IF resume /\ h.saved \in {"running", "finished"}
                                       THEN h.saved ELSE @]
           f == [onfinish EXCEPT ![h.el] = @ /\ ~again]
           q == [queued EXCEPT ![h.el] = IF again THEN @ \cup {"scrub"} ELSE @]
           hs == (hold \ {h}) \cup {left}
<1>1. /\ Restored(scrub, resume).anim = a /\ Restored(scrub, resume).onfinish = f
      /\ Restored(scrub, resume).queued = q /\ Restored(scrub, resume).hold = hs
  BY DEF Restored
<1>2. /\ h \in hold /\ h \in Holds /\ h.of = scrub /\ h.frames = 0 /\ ~h.keeps
      /\ \A k \in hold : k.of = scrub => k = h
      /\ anim[h.el] = "paused" /\ h.saved # "idle"
  BY HoldIsOne
<1>3. /\ anim \in [Elements -> PlayStates] /\ own \in [Elements -> PlayStates]
      /\ onfinish \in [Elements -> BOOLEAN] /\ queued \in [Elements -> SUBSET {"real", "scrub"}]
      /\ hold \subseteq Holds /\ ends \in [Elements -> Counts]
      /\ h.el \in Elements /\ scrub \in Scrubs /\ h.saved \in PlayStates
  BY <1>2 DEF PageInv, PageSound, PageTypeOK, Holds
<1> HIDE DEF h
<1>4. /\ left \in Holds /\ left.of = h.of /\ left.el = h.el /\ left.saved = h.saved
      /\ left.frames = 2 /\ left.keeps = (again /\ onfinish[h.el])
  <2> DEFINE keep == again /\ onfinish[h.el]
  <2>1. keep \in BOOLEAN OBVIOUS
  <2>2. left = [h EXCEPT !.frames = 2, !.keeps = keep] OBVIOUS
  <2> HIDE DEF keep, left
  <2>3. left = [of |-> h.of, el |-> h.el, saved |-> h.saved, frames |-> 2, keeps |-> keep]
    BY <1>2, <2>2 DEF Holds
  <2>4. h.of \in Scrubs /\ h.el \in Elements /\ h.saved \in PlayStates
    BY <1>2 DEF Holds
  <2>5. left \in Holds BY <2>1, <2>3, <2>4 DEF Holds
  <2>6. left.keeps = keep BY <2>3, Zenon
  <2>7. QED BY <2>3, <2>5, <2>6 DEF keep
<1>5. /\ a \in [Elements -> PlayStates]
      /\ \A t \in Elements \ {h.el} : a[t] = anim[t]
      /\ a[h.el] = IF resume /\ h.saved \in {"running", "finished"} THEN h.saved ELSE "paused"
  BY <1>2, <1>3
<1>6. /\ f \in [Elements -> BOOLEAN]
      /\ \A t \in Elements \ {h.el} : f[t] = onfinish[t]
      /\ f[h.el] <=> onfinish[h.el] /\ ~again
  BY <1>2, <1>3
<1>7. /\ q \in [Elements -> SUBSET {"real", "scrub"}]
      /\ \A t \in Elements \ {h.el} : q[t] = queued[t]
      /\ again => q[h.el] = queued[h.el] \cup {"scrub"}
      /\ ~again => q[h.el] = queued[h.el]
  BY <1>2, <1>3
<1>8. /\ \A k \in hs : k = left \/ (k \in hold /\ k # h)
      /\ \A k \in hold : k = h \/ k \in hs
      /\ left \in hs
  OBVIOUS
<1> HIDE DEF a, f, q, hs, left
<1>9. \A t \in Elements : FoundFinished(hs, t) <=> FoundFinished(hold, t)
  BY <1>2, <1>4, <1>8 DEF FoundFinished
<1>10. PageTypeOK(a, f, q, hs, NoScrub, ends)
  BY <1>3, <1>4, <1>5, <1>6, <1>7, <1>8 DEF PageTypeOK
<1>11. OneStands(a, hs, NoScrub)
  <2>1. \A k \in hs : k.of # NoScrub /\ k.frames # 0
    BY <1>2, <1>3, <1>4, <1>8, PageAnimationsAssumption DEF PageInv, PageSound,
       OneStands, Holds
  <2>2. \A k, g \in hs : k.of = g.of => k = g
    BY <1>2, <1>4, <1>8 DEF PageInv, PageSound, OneStands
  <2>3. QED BY <2>1, <2>2 DEF OneStands
<1>12. AllResume => AsFound(a, hs, NoScrub)
  <2> SUFFICES ASSUME AllResume, NEW t \in Elements PROVE a[t] = own[t]
    BY <1>3, <1>4, <1>8, PageAnimationsAssumption DEF AsFound, Holds
  <2>1. CASE t = h.el
    BY <1>2, <1>3, <1>5, <2>1 DEF PageInv, PageSound, AsFound, PlayStates
  <2>2. CASE t # h.el
    BY <1>2, <1>3, <1>5, <2>2 DEF PageInv, PageSound, AsFound
  <2>3. QED BY <2>1, <2>2
<1>13. RunningHolds(a, hs, NoScrub)
  <2> SUFFICES ASSUME NEW k \in hs PROVE a[k.el] = "running" => k.saved = "running"
    BY <1>3, <1>4, <1>8, PageAnimationsAssumption DEF RunningHolds, Holds
  <2>1. PICK g \in hold : g.el = k.el /\ g.saved = k.saved BY <1>2, <1>4, <1>8
  <2>2. k.el \in Elements BY <1>3, <2>1 DEF Holds
  <2>3. QED BY <1>2, <1>5, <2>1, <2>2 DEF PageInv, PageSound, RunningHolds
<1>14. ScrubEvents(a, f, q, hs)
  <2> SUFFICES ASSUME NEW t \in Elements
               PROVE  /\ "scrub" \in q[t] => ~f[t] /\ FoundFinished(hs, t)
                      /\ ~f[t] => \E k \in hs : k.el = t /\ k.keeps /\ k.saved = "finished"
                      /\ "real" \in q[t] /\ ~FoundFinished(hs, t) => a[t] = "finished"
    BY DEF ScrubEvents
  <2>1. /\ "scrub" \in queued[t] => ~onfinish[t] /\ FoundFinished(hold, t)
        /\ ~onfinish[t] => \E k \in hold : k.el = t /\ k.keeps /\ k.saved = "finished"
        /\ "real" \in queued[t] /\ ~FoundFinished(hold, t) => anim[t] = "finished"
    BY DEF PageInv, PageSound, ScrubEvents
  <2>2. ~onfinish[t] => \E k \in hs : k.el = t /\ k.keeps /\ k.saved = "finished"
    BY <1>2, <1>8, <2>1
  <2>3. again => FoundFinished(hs, h.el) BY <1>4, <1>8 DEF FoundFinished
  <2>4. "scrub" \in q[t] => ~f[t] /\ FoundFinished(hs, t)
    BY <1>6, <1>7, <1>9, <2>1, <2>3
  <2>5. ~f[t] => \E k \in hs : k.el = t /\ k.keeps /\ k.saved = "finished"
    BY <1>4, <1>6, <1>8, <2>2
  <2>6. "real" \in q[t] /\ ~FoundFinished(hs, t) => a[t] = "finished"
    BY <1>2, <1>5, <1>7, <1>9, <2>1
  <2>7. QED BY <2>4, <2>5, <2>6
<1>15. \A t \in Elements : "real" \in q[t] <=> "real" \in queued[t]
  BY <1>7
<1>16. EndsCount(q, hs, ends)
  BY <1>9, <1>15 DEF EndsCount, PageInv, PageSound
<1>17. \A k \in hs : \E g \in hold : g.of = k.of BY <1>2, <1>4, <1>8
<1>18. \A t \in Elements : anim[t] # "idle" => a[t] # "idle" BY <1>5
<1>19. PageSound(a, f, q, hs, NoScrub, ends)
  BY <1>10, <1>11, <1>12, <1>13, <1>14, <1>16 DEF PageSound
<1>20. QED BY <1>1, <1>15, <1>17, <1>18, <1>19

(* A preparation makes a sound page of one without a scrub. *)
LEMMA PreparedSound ==
    ASSUME NEW b, PageSound(b.anim, b.onfinish, b.queued, b.hold, NoScrub, ends),
           NEW c \in Scrubs, want[c].el \in Elements, \A h \in b.hold : h.of # c,
           \A t \in Elements : "real" \in b.queued[t] <=> "real" \in queued[t],
           b.anim[want[c].el] # "idle", PreparesAfter(c, b), UNCHANGED <<own, want>>
    PROVE  /\ PageInv'
           /\ \A k \in hold' : k.of = c \/ \E g \in b.hold : g.of = k.of
<1> DEFINE t == want[c].el
           k == [of |-> c, el |-> t, saved |-> b.anim[t], frames |-> 0, keeps |-> FALSE]
<1>1. /\ anim' = [b.anim EXCEPT ![t] = "paused"] /\ hold' = b.hold \cup {k}
      /\ onfinish' = b.onfinish /\ queued' = b.queued /\ scrub' = c
      /\ ends' = [ends EXCEPT ![t].excused = IF "real" \in queued[t] THEN @ + 1 ELSE @]
  BY DEF PreparesAfter
<1>2. /\ b.anim \in [Elements -> PlayStates] /\ own \in [Elements -> PlayStates]
      /\ b.onfinish \in [Elements -> BOOLEAN]
      /\ b.queued \in [Elements -> SUBSET {"real", "scrub"}]
      /\ b.hold \subseteq Holds /\ ends \in [Elements -> Counts] /\ t \in Elements
  BY DEF PageSound, PageTypeOK
<1>3. /\ k \in Holds /\ k.of = c /\ k.el = t /\ k.saved = b.anim[t] /\ k.frames = 0 /\ ~k.keeps
  BY <1>2 DEF Holds
<1> HIDE DEF k, t
<1>4. /\ anim' \in [Elements -> PlayStates] /\ anim'[t] = "paused"
      /\ \A u \in Elements \ {t} : anim'[u] = b.anim[u]
  BY <1>1, <1>2 DEF PlayStates
<1>5. /\ ends' \in [Elements -> Counts]
      /\ \A u \in Elements :
           /\ ends'[u].real = ends[u].real /\ ends'[u].heard = ends[u].heard
           /\ ends'[u].noticed = ends[u].noticed
           /\ ends'[u].excused = IF u = t /\ "real" \in queued[t] THEN ends[u].excused + 1
                                 ELSE ends[u].excused
  BY <1>1, <1>2 DEF Counts
<1>6. /\ \A h \in hold' : h = k \/ h \in b.hold
      /\ k \in hold' /\ \A h \in b.hold : h \in hold'
  BY <1>1
<1>7. \A u \in Elements : /\ FoundFinished(b.hold, u) => FoundFinished(hold', u)
                          /\ FoundFinished(hold', u) => FoundFinished(b.hold, u) \/ u = t
  BY <1>3, <1>6 DEF FoundFinished
<1>8. b.anim[t] = "finished" => FoundFinished(hold', t)
  BY <1>3, <1>6 DEF FoundFinished
<1>9. PageTypeOK(anim, onfinish, queued, hold, scrub, ends)'
  BY <1>1, <1>2, <1>3, <1>4, <1>5, <1>6 DEF PageTypeOK
<1>10. OneStands(anim, hold, scrub)'
  <2>1. \A h \in b.hold : h.frames # 0
    BY <1>2, PageAnimationsAssumption DEF PageSound, OneStands, Holds
  <2>2. \A h, g \in hold' : h.of = g.of => h = g
    BY <1>3, <1>6 DEF PageSound, OneStands
  <2>3. \A h \in hold' : (h.frames = 0 <=> h.of = scrub') /\ (h.frames = 0 => ~h.keeps)
    BY <1>1, <1>3, <1>6, <2>1
  <2>4. \E h \in hold' : h.of = scrub' /\ anim'[h.el] = "paused" /\ h.saved # "idle"
    <3>1. b.anim[t] # "idle" BY DEF t
    <3>2. QED BY <1>1, <1>3, <1>4, <1>6, <3>1
  <2>5. QED BY <2>2, <2>3, <2>4 DEF OneStands
<1>11. AllResume' => AsFound(anim, hold, scrub)'
  <2> SUFFICES ASSUME AllResume, NEW u \in Elements
               PROVE  \/ anim'[u] = own[u] /\ \A h \in hold' : h.of = c => h.el # u
                      \/ \E h \in hold' : h.of = c /\ h.el = u /\ h.saved = own[u]
    BY <1>1 DEF AsFound, AllResume
  <2>1. b.anim[u] = own[u]
    BY <1>2, PageAnimationsAssumption DEF PageSound, AsFound, Holds
  <2>2. CASE u = t BY <1>3, <1>6, <2>1, <2>2
  <2>3. CASE u # t BY <1>3, <1>4, <1>6, <2>1, <2>3
  <2>4. QED BY <2>2, <2>3
<1>12. RunningHolds(anim, hold, scrub)'
  <2>1. \A h \in b.hold : b.anim[h.el] = "running" => h.saved = "running"
    BY DEF PageSound, RunningHolds
  <2>2. \A h \in hold' : h.el \in Elements BY <1>2, <1>3, <1>6 DEF Holds
  <2>3. \A h \in hold' : anim'[h.el] = "running" => h.saved = "running"
    BY <1>3, <1>4, <1>6, <2>1, <2>2
  <2>4. \A h \in hold' : h.of = scrub' => h = k BY <1>1, <1>6
  <2>5. k.saved = "running" => \A h \in hold' : h.el = k.el => h.saved = "running"
    BY <1>3, <1>6, <2>1
  <2>6. QED BY <2>3, <2>4, <2>5 DEF RunningHolds
<1>13. ScrubEvents(anim, onfinish, queued, hold)'
  <2> SUFFICES ASSUME NEW u \in Elements
               PROVE  /\ "scrub" \in queued'[u] => ~onfinish'[u] /\ FoundFinished(hold', u)
                      /\ ~onfinish'[u] =>
                           \E h \in hold' : h.el = u /\ h.keeps /\ h.saved = "finished"
                      /\ "real" \in queued'[u] /\ ~FoundFinished(hold', u) => anim'[u] = "finished"
    BY DEF ScrubEvents, FoundFinished
  <2>1. /\ "scrub" \in b.queued[u] => ~b.onfinish[u] /\ FoundFinished(b.hold, u)
        /\ ~b.onfinish[u] => \E h \in b.hold : h.el = u /\ h.keeps /\ h.saved = "finished"
        /\ "real" \in b.queued[u] /\ ~FoundFinished(b.hold, u) => b.anim[u] = "finished"
    BY DEF PageSound, ScrubEvents
  <2>2. "scrub" \in queued'[u] => ~onfinish'[u] /\ FoundFinished(hold', u)
    BY <1>1, <1>7, <2>1
  <2>3. ~onfinish'[u] => \E h \in hold' : h.el = u /\ h.keeps /\ h.saved = "finished"
    BY <1>1, <1>6, <2>1
  <2>4. "real" \in queued'[u] /\ ~FoundFinished(hold', u) => anim'[u] = "finished"
    BY <1>1, <1>4, <1>7, <1>8, <2>1
  <2>5. QED BY <2>2, <2>3, <2>4
<1>14. EndsCount(queued, hold, ends)'
  <2> SUFFICES ASSUME NEW u \in Elements
               PROVE  /\ ends'[u].heard + Waits("real" \in queued'[u]) <= ends'[u].real
                      /\ ends'[u].noticed + Waits("real" \in queued'[u]) <= ends'[u].real
                      /\ ends'[u].real <= ends'[u].excused + ends'[u].heard
                           + Waits("real" \in queued'[u] /\ ~FoundFinished(hold', u))
                      /\ ends'[u].real <= ends'[u].excused + ends'[u].noticed
                           + Waits("real" \in queued'[u] /\ ~FoundFinished(hold', u))
    BY DEF EndsCount, FoundFinished, Waits
  <2>1. /\ ends[u].heard + Waits("real" \in b.queued[u]) <= ends[u].real
        /\ ends[u].noticed + Waits("real" \in b.queued[u]) <= ends[u].real
        /\ ends[u].real <= ends[u].excused + ends[u].heard
             + Waits("real" \in b.queued[u] /\ ~FoundFinished(b.hold, u))
        /\ ends[u].real <= ends[u].excused + ends[u].noticed
             + Waits("real" \in b.queued[u] /\ ~FoundFinished(b.hold, u))
    BY DEF PageSound, EndsCount
  <2>2. /\ ends[u].real \in Nat /\ ends[u].heard \in Nat /\ ends[u].noticed \in Nat
        /\ ends[u].excused \in Nat
    BY <1>2 DEF Counts
  <2>3. "real" \in b.queued[u] <=> "real" \in queued[u] OBVIOUS
  <2>4. CASE "real" \notin queued[u]
    BY <1>1, <1>5, <2>1, <2>2, <2>3, <2>4 DEF Waits
  <2>5. CASE "real" \in queued[u] /\ u = t
    BY <1>1, <1>5, <2>1, <2>2, <2>3, <2>5 DEF Waits
  <2>6. CASE "real" \in queued[u] /\ u # t
    BY <1>1, <1>5, <1>7, <2>1, <2>2, <2>3, <2>6 DEF Waits
  <2>7. QED BY <2>4, <2>5, <2>6
<1>15. QED BY <1>3, <1>6, <1>9, <1>10, <1>11, <1>12, <1>13, <1>14 DEF PageInv,
              PageSound

(* What a script makes of the calls, once it is known to leave a sound page.  Only the  *)
(* call of the script may have an answer it did not have.                               *)
LEMMA ScriptRuns ==
    ASSUME ScrubInv, inbox # <<>>, inbox' = Tail(inbox), NEW s \in Scripts, s = inbox[1],
           NEW a \in {"none", "prepared", "refused", "sought", "restored"},
           Answers(s.call, s.op, a), UNCHANGED <<step, callVars>>, PageInv',
           \A k \in hold' : \/ \E g \in hold : g.of = k.of
                            \/ k.of = s.call /\ s.op = "prepare" /\ a # "refused",
           a = "refused" => s.op = "prepare" /\ scrub' = scrub,
           \/ scrub' = scrub /\ s.op # "restore"
           \/ scrub' = NoScrub
           \/ scrub' = s.call /\ s.op = "prepare"
    PROVE  ScrubInv'
<1> USE DEF ScrubInv
<1>1. /\ inbox' \in Seq(Scripts) /\ Len(inbox) \in Nat \ {0} /\ Len(inbox') = Len(inbox) - 1
      /\ \A i \in 1..Len(inbox') : inbox'[i] = inbox[i + 1] /\ i + 1 \in 1..Len(inbox)
  BY InboxAdvances
<1>2. s.call \in Scrubs /\ s.op \in {"prepare", "seek", "restore"} BY DEF Scripts
<1>3. \A i \in 1..Len(inbox) : inbox[i].call \in Scrubs BY InboxIsOfCalls
<1>4. /\ answer' \in [Scrubs -> {"none", "prepared", "refused", "sought", "restored"}]
      /\ \A d \in Scrubs :
           \/ answer'[d] = answer[d]
           \/ /\ d = s.call /\ answer'[d] = a /\ step[d].sent
              /\ s.op = step[d].at \/ (s.op = "restore" /\ step[d].at = "refuse")
  <2>1. CASE /\ step[s.call].sent
             /\ s.op \in {step[s.call].at, IF step[s.call].at = "refuse" THEN "restore" ELSE ""}
    <3>1. answer' = [answer EXCEPT ![s.call] = a] BY <2>1 DEF Answers
    <3>2. s.op = step[s.call].at \/ (s.op = "restore" /\ step[s.call].at = "refuse")
      BY <1>2, <2>1
    <3>3. QED BY <1>2, <2>1, <3>1, <3>2 DEF CallsTypeOK
  <2>2. CASE ~(/\ step[s.call].sent
               /\ s.op \in {step[s.call].at,
                            IF step[s.call].at = "refuse" THEN "restore" ELSE ""})
    BY <2>2 DEF Answers, CallsTypeOK
  <2>3. QED BY <2>1, <2>2
<1>5. CallsTypeOK' BY <1>1, <1>4 DEF CallsTypeOK, callVars
<1>6. /\ \A i \in 1..Len(inbox') : Preparing(i)' => Preparing(i + 1)
      /\ \A i \in 1..Len(inbox') : inbox'[i].call = inbox[i + 1].call
      /\ s.op = "prepare" => Preparing(1)
  BY <1>1 DEF Preparing
<1>7. s.op = "prepare" => /\ ~Fresh(s.call) /\ \A h \in hold : h.of # s.call
                          /\ \A i \in 1..Len(inbox') : Preparing(i)' => inbox'[i].call # s.call
  BY <1>1, <1>6 DEF PreparesOnce
<1>8. \A d \in Scrubs :
        /\ Fresh(d)' <=> Fresh(d)
        /\ Restoring(d)' <=> Restoring(d)
        /\ Owed(d)' <=> Owed(d)
        /\ step'[d] = step[d]
  <2>1. step' = step /\ spawned' = spawned /\ unrestored' = unrestored BY DEF callVars
  <2>2. \A d \in Scrubs : (Fresh(d)' <=> Fresh(d)) /\ (Restoring(d)' <=> Restoring(d))
    BY <2>1 DEF Fresh, Restoring
  <2>3. \A d \in Scrubs : Owed(d)' <=> Owed(d)
    BY <2>1, <2>2 DEF Owed, Active
  <2>4. QED BY <2>1, <2>2, <2>3
<1>9. PreparesOnce'
  <2>1. \A k \in hold' : ~Fresh(k.of)'
    BY <1>7 DEF PreparesOnce, Fresh, callVars
  <2>2. ASSUME NEW i \in 1..Len(inbox'), Preparing(i)'
        PROVE  /\ ~Fresh(inbox[i].call)'
               /\ \A k \in hold' : k.of # inbox'[i].call
               /\ \A j \in 1..Len(inbox') : Preparing(j)' /\ inbox'[j].call = inbox'[i].call => i = j
    <3>1. Preparing(i + 1) /\ inbox'[i].call = inbox[i + 1].call /\ i + 1 \in 1..Len(inbox)
      BY <1>1, <1>6, <2>2
    <3>2. ~Fresh(inbox[i].call)' BY <1>3, <1>8, <3>1 DEF PreparesOnce, Fresh, callVars
    <3>3. \A k \in hold' : k.of # inbox'[i].call
      BY <1>7, <2>2, <3>1 DEF PreparesOnce
    <3>4. \A j \in 1..Len(inbox') : Preparing(j)' /\ inbox'[j].call = inbox'[i].call => i = j
      <4> SUFFICES ASSUME NEW j \in 1..Len(inbox'), Preparing(j)', inbox'[j].call = inbox'[i].call
                   PROVE  i = j
        OBVIOUS
      <4>1. Preparing(j + 1) /\ inbox'[j].call = inbox[j + 1].call /\ j + 1 \in 1..Len(inbox)
        BY <1>1, <1>6
      <4>2. i + 1 = j + 1 BY <3>1, <4>1 DEF PreparesOnce
      <4>3. QED BY <1>1, <4>2
    <3>5. QED BY <3>2, <3>3, <3>4
  <2>3. QED BY <2>1, <2>2 DEF PreparesOnce
<1>10. \A d \in Scrubs : answer'[d] = "refused" =>
          (answer[d] = "refused" /\ answer'[d] = answer[d]) \/ (d = s.call /\ a = "refused")
  BY <1>4
<1>11. HeardOf'
  <2> SUFFICES ASSUME NEW d \in Scrubs
               PROVE  /\ step[d].at \in {"idle", "ended"} => ~step[d].sent
                      /\ answer'[d] # "none" => step[d].sent
                      /\ step[d].at \in {"seek", "restore", "refuse"} \/ answer'[d] # "none" =>
                           \A i \in 1..Len(inbox') : Preparing(i)' => inbox'[i].call # d
                      /\ answer'[d] = "refused" => \A h \in hold' : h.of # d
    BY <1>8 DEF HeardOf, Preparing
  <2>1. (step[d].at \in {"idle", "ended"} => ~step[d].sent) /\ (answer'[d] # "none" => step[d].sent)
    BY <1>4 DEF HeardOf
  <2>2. ASSUME step[d].at \in {"seek", "restore", "refuse"} \/ answer'[d] # "none",
               NEW i \in 1..Len(inbox'), Preparing(i)'
        PROVE  inbox'[i].call # d
    <3>1. Preparing(i + 1) /\ inbox'[i].call = inbox[i + 1].call /\ i + 1 \in 1..Len(inbox)
      BY <1>1, <1>6, <2>2
    <3>2. CASE step[d].at \in {"seek", "restore", "refuse"} \/ answer[d] # "none"
      BY <3>1, <3>2 DEF HeardOf
    <3>3. CASE ~(step[d].at \in {"seek", "restore", "refuse"} \/ answer[d] # "none")
      <4>1. d = s.call /\ s.op = "prepare" BY <1>2, <1>4, <2>2, <3>3
      <4>2. QED BY <1>7, <2>2, <4>1
    <3>4. QED BY <3>2, <3>3
  <2>3. ASSUME answer'[d] = "refused" PROVE \A h \in hold' : h.of # d
    <3>1. CASE d = s.call /\ a = "refused"
      BY <1>7, <3>1
    <3>2. CASE answer[d] = "refused" /\ ~(d = s.call /\ a = "refused")
      <4>1. \A h \in hold : h.of # d BY <3>2 DEF HeardOf
      <4>2. s.op = "prepare" => s.call # d
        BY <1>1, <1>2, <1>6, <3>2 DEF HeardOf
      <4>3. QED BY <4>1, <4>2
    <3>3. QED BY <1>10, <2>3, <3>1, <3>2
  <2>4. QED BY <2>1, <2>2, <2>3
<1>12. RestoresCome'
  <2>1. \A i \in 1..Len(inbox') : RestoresAfter(i + 1) => RestoresAfter(i)'
    <3> SUFFICES ASSUME NEW i \in 1..Len(inbox'), RestoresAfter(i + 1) PROVE RestoresAfter(i)'
      OBVIOUS
    <3>1. PICK j \in 1..Len(inbox) : j > i + 1 /\ inbox[j].op = "restore"
      BY DEF RestoresAfter
    <3>2. j - 1 \in 1..Len(inbox') /\ j - 1 > i BY <1>1, <3>1
    <3>3. inbox'[j - 1] = inbox[j] BY <1>1, <3>1, <3>2
    <3>4. QED BY <3>1, <3>2, <3>3 DEF RestoresAfter
  <2>2. ASSUME RestoresAfter(0), s.op # "restore" PROVE RestoresAfter(0)'
    <3>1. PICK j \in 1..Len(inbox) : j > 0 /\ inbox[j].op = "restore"
      BY <2>2 DEF RestoresAfter
    <3>2. j # 1 BY <2>2, <3>1
    <3>3. j - 1 \in 1..Len(inbox') /\ j - 1 > 0 BY <1>1, <3>1, <3>2
    <3>4. inbox'[j - 1] = inbox[j] BY <1>1, <3>1, <3>3
    <3>5. QED BY <3>1, <3>3, <3>4 DEF RestoresAfter
  <2>3. RestoresAfter(1) => RestoresAfter(0)'
    <3> SUFFICES ASSUME RestoresAfter(1) PROVE RestoresAfter(0)'
      OBVIOUS
    <3>1. PICK j \in 1..Len(inbox) : j > 1 /\ inbox[j].op = "restore"
      BY DEF RestoresAfter
    <3>2. j - 1 \in 1..Len(inbox') /\ j - 1 > 0 BY <1>1, <3>1
    <3>3. inbox'[j - 1] = inbox[j] BY <1>1, <3>1, <3>2
    <3>4. QED BY <3>1, <3>2, <3>3 DEF RestoresAfter
  <2>4. scrub' # NoScrub => Owed(scrub)' \/ RestoresAfter(0)'
    <3>1. CASE scrub' = scrub /\ s.op # "restore"
      <4>1. scrub # NoScrub => scrub \in Scrubs
        BY DEF PageInv, PageSound, PageTypeOK
      <4>2. QED BY <1>8, <2>2, <3>1, <4>1 DEF RestoresCome, Owed, Active, Restoring,
                   callVars
    <3>2. CASE scrub' = s.call /\ s.op = "prepare"
      <4>1. Owed(inbox[1].call) \/ RestoresAfter(1)
        BY <1>1, <1>6, <3>2 DEF RestoresCome
      <4>2. QED BY <2>3, <3>2, <4>1 DEF Owed, Active, Restoring, callVars
    <3>3. QED BY <3>1, <3>2
  <2>5. ASSUME NEW i \in 1..Len(inbox'), Preparing(i)'
        PROVE  (Owed(inbox[i].call) \/ RestoresAfter(i))'
    <3>1. Preparing(i + 1) /\ inbox'[i].call = inbox[i + 1].call /\ i + 1 \in 1..Len(inbox)
      BY <1>1, <1>6, <2>5
    <3>2. Owed(inbox[i + 1].call) \/ RestoresAfter(i + 1) BY <3>1 DEF RestoresCome
    <3>3. QED BY <2>1, <3>1, <3>2 DEF Owed, Active, Restoring, callVars
  <2>6. \A d \in Scrubs : Restoring(d) /\ answer'[d] # "none" => scrub' # d
    <3> SUFFICES ASSUME NEW d \in Scrubs, Restoring(d), answer'[d] # "none" PROVE scrub' # d
      OBVIOUS
    <3>1. s.op = "prepare" => s.call # d
      BY <1>1, <1>6 DEF HeardOf, Restoring
    <3>2. CASE s.op = "restore" BY <3>2, PageAnimationsAssumption
    <3>3. CASE s.op # "restore"
      <4>1. answer'[d] = answer[d]
        BY <1>2, <1>4, <3>1, <3>3 DEF Restoring
      <4>2. QED BY <3>1, <4>1, PageAnimationsAssumption DEF RestoresCome
    <3>4. QED BY <3>2, <3>3
  <2>7. \A d \in Scrubs : Restoring(d)' /\ answer'[d] # "none" => scrub' # d
    BY <1>8, <2>6
  <2>8. \A d \in Scrubs : step'[d].at \in {"prepare", "seek"} => step'[d].armed
    BY <1>8 DEF RestoresCome
  <2>9. QED BY <2>4, <2>5, <2>7, <2>8 DEF RestoresCome
<1>13. QED BY <1>5, <1>9, <1>11, <1>12

LEMMA RunScriptStep == ASSUME ScrubInv, RunScript PROVE ScrubInv'
<1> DEFINE s == inbox[1]
           t == want[s.call].el
<1>1. /\ inbox # <<>> /\ inbox' = Tail(inbox) /\ Head(inbox) = s /\ s \in Scripts
      /\ UNCHANGED <<step, callVars>> /\ want' = want
      /\ CallsTypeOK /\ PageInv
  BY InboxAdvances DEF RunScript, ScrubInv, callVars
<1>2. s.call \in Scrubs /\ t \in Elements /\ want[s.call].resume \in BOOLEAN
  BY <1>1 DEF CallsTypeOK, Scripts
<1>3. CASE UNCHANGED pageVars /\ \/ s.op = "prepare" /\ Answers(s.call, s.op, "refused")
                                 \/ s.op = "seek" /\ Answers(s.call, s.op, "sought")
  <2>1. PageInv' BY <1>1, <1>3, PageStands DEF pageState, pageVars
  <2>2. hold' = hold /\ scrub' = scrub BY <1>3 DEF pageVars
  <2>3. QED BY <1>1, <1>3, <2>1, <2>2, ScriptRuns
<1>4. CASE /\ s.op = "prepare" /\ anim[t] # "idle"
           /\ Answers(s.call, s.op, "prepared") /\ Prepares(s.call) /\ UNCHANGED own
  <2> DEFINE b == IF scrub = NoScrub THEN AsItIs ELSE Restored(scrub, TRUE)
  <2>1. /\ PageSound(b.anim, b.onfinish, b.queued, b.hold, NoScrub, ends)
        /\ \A k \in b.hold : \E g \in hold : g.of = k.of
        /\ \A u \in Elements : "real" \in b.queued[u] <=> "real" \in queued[u]
        /\ b.anim[t] # "idle"
    <3>1. CASE scrub = NoScrub
      <4>1. b = AsItIs BY <3>1
      <4> HIDE DEF b
      <4>2. /\ b.anim = anim /\ b.onfinish = onfinish /\ b.queued = queued /\ b.hold = hold
        BY <4>1 DEF AsItIs
      <4>3. QED BY <1>1, <1>4, <3>1, <4>2 DEF PageInv
    <3>2. CASE scrub # NoScrub
      <4>1. b = Restored(scrub, TRUE) BY <3>2
      <4> HIDE DEF b
      <4>2. QED BY <1>1, <1>2, <1>4, <3>2, <4>1, RestoredSound
    <3>3. QED BY <3>1, <3>2
  <2>2. PreparesAfter(s.call, b) BY <1>4 DEF Prepares
  <2> HIDE DEF b
  <2>3. \A h \in hold : h.of # s.call
    <3>1. Len(inbox) \in Nat \ {0} BY <1>1, InboxAdvances
    <3>2. Preparing(1) /\ 1 \in 1..Len(inbox) BY <1>4, <3>1 DEF Preparing
    <3>3. QED BY <3>2 DEF ScrubInv, PreparesOnce
  <2>4. /\ PageInv'
        /\ \A k \in hold' : k.of = s.call \/ \E g \in b.hold : g.of = k.of
    BY <1>1, <1>2, <1>4, <2>1, <2>2, <2>3, PreparedSound
  <2>5. \A k \in hold' : k.of = s.call \/ \E g \in hold : g.of = k.of
    BY <2>1, <2>4
  <2>6. scrub' = s.call BY <2>2 DEF PreparesAfter
  <2>7. QED BY <1>1, <1>4, <2>4, <2>5, <2>6, ScriptRuns
<1>5. CASE /\ s.op = "restore" /\ Answers(s.call, s.op, "restored")
           /\ ScrubRestore(want[s.call].resume)
  <2>1. CASE scrub = NoScrub
    <3>1. UNCHANGED pageVars BY <1>5, <2>1 DEF ScrubRestore
    <3>2. PageInv' BY <1>1, <3>1, PageStands DEF pageState, pageVars
    <3>3. hold' = hold /\ scrub' = NoScrub BY <2>1, <3>1 DEF pageVars
    <3>4. QED BY <1>1, <1>5, <3>2, <3>3, ScriptRuns
  <2>2. CASE scrub # NoScrub
    <3> DEFINE r == Restored(scrub, want[s.call].resume)
    <3>1. AllResume => want[s.call].resume BY <1>2 DEF AllResume
    <3>2. /\ PageSound(r.anim, r.onfinish, r.queued, r.hold, NoScrub, ends)
          /\ \A k \in r.hold : \E g \in hold : g.of = k.of
      BY <1>1, <1>2, <2>2, <3>1, RestoredSound
    <3>3. /\ anim' = r.anim /\ onfinish' = r.onfinish /\ queued' = r.queued /\ hold' = r.hold
          /\ scrub' = NoScrub /\ own' = own /\ ends' = ends
      BY <1>5, <2>2 DEF ScrubRestore
    <3> HIDE DEF r
    <3>4. PageInv'
      BY <1>1, <3>2, <3>3 DEF PageInv, PageSound, PageTypeOK, OneStands, AllResume,
         AsFound, RunningHolds, ScrubEvents, EndsCount, FoundFinished, Waits
    <3>5. QED BY <1>1, <1>5, <3>2, <3>3, <3>4, ScriptRuns
  <2>3. QED BY <2>1, <2>2
<1>6. QED BY <1>1, <1>3, <1>4, <1>5 DEF RunScript

(* The page goes on by itself. *)
LEMMA PageMoves ==
    ASSUME ScrubInv, UNCHANGED <<step, answer, inbox, callVars, scrub>>, PageInv',
           \A k \in hold' : \E g \in hold : g.of = k.of
    PROVE  ScrubInv'
<1> USE DEF ScrubInv, callVars
<1>1. CallsTypeOK' BY DEF CallsTypeOK
<1>2. PreparesOnce' BY DEF PreparesOnce, Preparing, Fresh
<1>3. HeardOf' BY DEF HeardOf, Preparing
<1>4. RestoresCome'
  BY DEF RestoresCome, Owed, Active, Restoring, RestoresAfter, Preparing
<1>5. QED BY <1>1, <1>2, <1>3, <1>4

(* What is over a running animation found it running, and does not scrub it. *)
LEMMA RunningIsFree ==
    ASSUME PageInv, NEW t \in Elements, anim[t] = "running"
    PROVE  ~FoundFinished(hold, t) /\ \A h \in hold : h.of = scrub => h.el # t
<1>1. ~FoundFinished(hold, t)
  BY DEF PageInv, PageSound, RunningHolds, FoundFinished
<1>2. \A h \in hold : h.of = scrub => h.el # t
  BY PageAnimationsAssumption DEF PageInv, PageSound, PageTypeOK, OneStands, Holds
<1>3. QED BY <1>1, <1>2

LEMMA NaturalEndStep ==
    ASSUME ScrubInv, NEW t \in Elements, NaturalEnd(t) PROVE ScrubInv'
<1>1. /\ PageInv /\ anim[t] = "running" /\ queued[t] = {}
      /\ UNCHANGED <<step, answer, inbox, callVars, scrub, hold, onfinish>> /\ want' = want
  BY DEF ScrubInv, NaturalEnd, callVars
<1>2. /\ anim \in [Elements -> PlayStates] /\ own \in [Elements -> PlayStates]
      /\ queued \in [Elements -> SUBSET {"real", "scrub"}] /\ ends \in [Elements -> Counts]
  BY <1>1 DEF PageInv, PageSound, PageTypeOK
<1>3. /\ anim' \in [Elements -> PlayStates] /\ own' \in [Elements -> PlayStates]
      /\ anim'[t] = "finished" /\ own'[t] = "finished"
      /\ \A u \in Elements \ {t} : anim'[u] = anim[u] /\ own'[u] = own[u]
  BY <1>2 DEF NaturalEnd, PlayStates
<1>4. /\ queued' \in [Elements -> SUBSET {"real", "scrub"}] /\ queued'[t] = {"real"}
      /\ \A u \in Elements \ {t} : queued'[u] = queued[u]
  BY <1>2 DEF NaturalEnd
<1>5. /\ ends' \in [Elements -> Counts]
      /\ \A u \in Elements \ {t} : ends'[u] = ends[u]
      /\ ends'[t].real = ends[t].real + 1 /\ ends'[t].heard = ends[t].heard
      /\ ends'[t].noticed = ends[t].noticed /\ ends'[t].excused = ends[t].excused
      /\ ends[t].real \in Nat /\ ends[t].heard \in Nat /\ ends[t].noticed \in Nat
      /\ ends[t].excused \in Nat
  BY <1>2 DEF NaturalEnd, Counts
<1>6. ~FoundFinished(hold, t) /\ \A h \in hold : h.of = scrub => h.el # t
  BY <1>1, RunningIsFree
<1>7. \A u \in Elements : FoundFinished(hold, u)' <=> FoundFinished(hold, u)
  BY <1>1 DEF FoundFinished
<1>8. PageTypeOK(anim, onfinish, queued, hold, scrub, ends)'
  BY <1>1, <1>3, <1>4, <1>5 DEF PageInv, PageSound, PageTypeOK
<1>9. \A h \in hold : h.el \in Elements
  BY <1>1 DEF PageInv, PageSound, PageTypeOK, Holds
<1>10. OneStands(anim, hold, scrub)'
  BY <1>1, <1>3, <1>9 DEF PageInv, PageSound, OneStands
<1>11. (AllResume => AsFound(anim, hold, scrub))'
  BY <1>1, <1>3, <1>6 DEF PageInv, PageSound, AllResume, AsFound
<1>12. RunningHolds(anim, hold, scrub)'
  BY <1>1, <1>3, <1>9 DEF PageInv, PageSound, RunningHolds
<1>13. ScrubEvents(anim, onfinish, queued, hold)'
  BY <1>1, <1>3, <1>4, <1>7 DEF PageInv, PageSound, ScrubEvents
<1>14. EndsCount(queued, hold, ends)'
  <2>1. \A u \in Elements \ {t} :
          /\ ends'[u].heard + Waits("real" \in queued'[u]) <= ends'[u].real
          /\ ends'[u].noticed + Waits("real" \in queued'[u]) <= ends'[u].real
          /\ ends'[u].real <= ends'[u].excused + ends'[u].heard
                           + Waits("real" \in queued'[u] /\ ~FoundFinished(hold, u)')
          /\ ends'[u].real <= ends'[u].excused + ends'[u].noticed
                           + Waits("real" \in queued'[u] /\ ~FoundFinished(hold, u)')
    BY <1>1, <1>4, <1>5, <1>7 DEF PageInv, PageSound, EndsCount, Waits
  <2>2. /\ ends[t].heard <= ends[t].real /\ ends[t].noticed <= ends[t].real
        /\ ends[t].real <= ends[t].excused + ends[t].heard
        /\ ends[t].real <= ends[t].excused + ends[t].noticed
    BY <1>1, <1>5 DEF PageInv, PageSound, EndsCount, Waits
  <2>3. /\ ends'[t].heard + Waits("real" \in queued'[t]) <= ends'[t].real
        /\ ends'[t].noticed + Waits("real" \in queued'[t]) <= ends'[t].real
        /\ ends'[t].real <= ends'[t].excused + ends'[t].heard
                           + Waits("real" \in queued'[t] /\ ~FoundFinished(hold, t)')
        /\ ends'[t].real <= ends'[t].excused + ends'[t].noticed
                           + Waits("real" \in queued'[t] /\ ~FoundFinished(hold, t)')
    BY <1>4, <1>5, <1>6, <1>7, <2>2 DEF Waits
  <2>4. QED BY <2>1, <2>3 DEF EndsCount, FoundFinished, Waits
<1>15. PageInv' BY <1>8, <1>10, <1>11, <1>12, <1>13, <1>14 DEF PageInv, PageSound
<1>16. QED BY <1>1, <1>15, PageMoves

LEMMA PagePlaysStep ==
    ASSUME ScrubInv, NEW t \in Elements, PagePlays(t) PROVE ScrubInv'
<1>1. /\ PageInv /\ \A h \in hold : h.el # t
      /\ queued[t] = {}
      /\ UNCHANGED <<step, answer, inbox, callVars, scrub, hold, onfinish, queued, ends>>
      /\ want' = want
  BY DEF ScrubInv, PagePlays, callVars
<1>2. anim \in [Elements -> PlayStates] /\ own \in [Elements -> PlayStates]
  BY <1>1 DEF PageInv, PageSound, PageTypeOK
<1>3. /\ anim' \in [Elements -> PlayStates] /\ own' \in [Elements -> PlayStates]
      /\ anim'[t] = "running" /\ own'[t] = "running"
      /\ \A u \in Elements \ {t} : anim'[u] = anim[u] /\ own'[u] = own[u]
  BY <1>2 DEF PagePlays, PlayStates
<1>4. \A h \in hold : h.el \in Elements
  BY <1>1 DEF PageInv, PageSound, PageTypeOK, Holds
<1>5. PageTypeOK(anim, onfinish, queued, hold, scrub, ends)'
  BY <1>1, <1>3 DEF PageInv, PageSound, PageTypeOK
<1>6. OneStands(anim, hold, scrub)'
  BY <1>1, <1>3, <1>4 DEF PageInv, PageSound, OneStands
<1>7. (AllResume => AsFound(anim, hold, scrub))'
  BY <1>1, <1>3 DEF PageInv, PageSound, AllResume, AsFound
<1>8. RunningHolds(anim, hold, scrub)'
  BY <1>1, <1>3, <1>4 DEF PageInv, PageSound, RunningHolds
<1>9. ScrubEvents(anim, onfinish, queued, hold)' /\ EndsCount(queued, hold, ends)'
  BY <1>1, <1>3 DEF PageInv, PageSound, ScrubEvents, EndsCount, FoundFinished, Waits
<1>10. PageInv' BY <1>5, <1>6, <1>7, <1>8, <1>9 DEF PageInv, PageSound
<1>11. QED BY <1>1, <1>10, PageMoves

LEMMA QueueCounts ==
    ASSUME NEW q \in SUBSET {"real", "scrub"}
    PROVE  /\ Cardinality(q) \in Nat
           /\ "scrub" \notin q => Cardinality(q) = Waits("real" \in q)
<1>1. IsFiniteSet({"real", "scrub"})
  <2>1. IsFiniteSet({"real"}) BY FS_Singleton
  <2>2. IsFiniteSet({"real"} \cup {"scrub"}) BY <2>1, FS_AddElement
  <2>3. {"real"} \cup {"scrub"} = {"real", "scrub"} OBVIOUS
  <2>4. QED BY <2>2, <2>3
<1>2. IsFiniteSet(q) BY <1>1, FS_Subset
<1>3. Cardinality(q) \in Nat BY <1>2, FS_CardinalityType
<1>4. CASE q = {} BY <1>4, FS_EmptySet, SMTT(30) DEF Waits
<1>5. CASE q = {"real"} BY <1>5, FS_Singleton, SMTT(30) DEF Waits
<1>6. "scrub" \notin q => q = {} \/ q = {"real"} OBVIOUS
<1>7. QED BY <1>3, <1>4, <1>5, <1>6

LEMMA DrawFrameStep == ASSUME ScrubInv, DrawFrame PROVE ScrubInv'
<1> DEFINE stops(t) == \E h \in hold : h.el = t /\ scrubCaused(h)
           released == {h \in hold : h.frames = 1}
           next(h) == IF h.frames = 2 THEN [h EXCEPT !.frames = 1] ELSE h
<1>1. /\ PageInv /\ UNCHANGED <<step, answer, inbox, callVars, anim, own, scrub>> /\ want' = want
      /\ ends' = [t \in Elements |->
              [ends[t] EXCEPT
                 !.heard = @ + IF stops(t) THEN 0 ELSE Cardinality(queued[t]),
                 !.noticed = @ + IF onfinish[t] THEN Cardinality(queued[t]) ELSE 0]]
      /\ queued' = [t \in Elements |-> {}]
      /\ hold' = {next(h) : h \in hold \ released}
      /\ onfinish' = [t \in Elements |-> onfinish[t] \/ \E h \in released : h.el = t /\ h.keeps]
  BY DEF ScrubInv, DrawFrame, callVars
<1>2. /\ anim \in [Elements -> PlayStates] /\ own \in [Elements -> PlayStates]
      /\ onfinish \in [Elements -> BOOLEAN] /\ queued \in [Elements -> SUBSET {"real", "scrub"}]
      /\ hold \subseteq Holds /\ ends \in [Elements -> Counts] /\ scrub \in Scrubs \cup {NoScrub}
  BY <1>1 DEF PageInv, PageSound, PageTypeOK
<1>3. \A h \in hold : /\ next(h) \in Holds /\ next(h).of = h.of /\ next(h).el = h.el
                      /\ next(h).saved = h.saved
                      /\ next(h).frames = 0 <=> h.frames = 0
  BY <1>2 DEF Holds
<1>4. \A h \in hold : next(h).keeps = h.keeps
  BY <1>2 DEF Holds
<1> HIDE DEF next
<1>5. \A k \in hold' : \E h \in hold : k = next(h) /\ h.frames # 1
  BY <1>1
<1>6. \A h \in hold : h.frames = 1 \/ next(h) \in hold'
  BY <1>1
<1>7. \A t \in Elements : FoundFinished(hold', t) => FoundFinished(hold, t)
  BY <1>3, <1>5 DEF FoundFinished
<1>8. /\ onfinish' \in [Elements -> BOOLEAN]
      /\ \A t \in Elements : ~onfinish'[t] <=>
           ~onfinish[t] /\ \A h \in hold : h.frames = 1 /\ h.el = t => ~h.keeps
  BY <1>1, <1>2
<1>9. PageTypeOK(anim, onfinish, queued, hold, scrub, ends)'
  <2>1. hold' \subseteq Holds BY <1>3, <1>5
  <2>2. ends' \in [Elements -> Counts]
    <3>1. \A t \in Elements : Cardinality(queued[t]) \in Nat BY <1>2, QueueCounts
    <3>2. ASSUME NEW t \in Elements PROVE ends'[t] \in Counts
      <4>1. /\ ends'[t].heard = ends[t].heard + (IF stops(t) THEN 0 ELSE Cardinality(queued[t]))
            /\ ends'[t].noticed = ends[t].noticed + (IF onfinish[t] THEN Cardinality(queued[t]) ELSE 0)
            /\ ends'[t] = [ends[t] EXCEPT !.heard = ends'[t].heard, !.noticed = ends'[t].noticed]
        BY <1>1, <1>2 DEF Counts
      <4>2. ends'[t].heard \in Nat /\ ends'[t].noticed \in Nat
        BY <1>2, <3>1, <4>1 DEF Counts
      <4>3. QED BY <1>2, <4>1, <4>2 DEF Counts
    <3>3. ends' = [t \in Elements |-> ends'[t]] BY <1>1
    <3>4. QED BY <3>2, <3>3
  <2>3. queued' \in [Elements -> SUBSET {"real", "scrub"}] BY <1>1
  <2>4. QED BY <1>1, <1>2, <1>8, <2>1, <2>2, <2>3 DEF PageTypeOK
<1>10. OneStands(anim, hold, scrub)'
  <2>1. /\ \A h, g \in hold : h.of = g.of => h = g
        /\ \A h \in hold : (h.frames = 0 <=> h.of = scrub) /\ (h.frames = 0 => ~h.keeps)
    BY <1>1 DEF PageInv, PageSound, OneStands
  <2>2. ASSUME NEW k \in hold', NEW g \in hold', k.of = g.of PROVE k = g
    <3>1. PICK h \in hold : k = next(h) BY <1>5
    <3>2. PICK l \in hold : g = next(l) BY <1>5
    <3>3. h = l BY <1>3, <2>1, <2>2, <3>1, <3>2
    <3>4. QED BY <3>1, <3>2, <3>3
  <2>3. ASSUME NEW k \in hold'
        PROVE  (k.frames = 0 <=> k.of = scrub) /\ (k.frames = 0 => ~k.keeps)
    <3>1. PICK h \in hold : k = next(h) BY <1>5
    <3>2. QED BY <1>3, <1>4, <2>1, <3>1
  <2>4. scrub # NoScrub => \E k \in hold' : k.of = scrub /\ anim[k.el] = "paused" /\ k.saved # "idle"
    <3> SUFFICES ASSUME scrub # NoScrub
                 PROVE  \E k \in hold' : k.of = scrub /\ anim[k.el] = "paused" /\ k.saved # "idle"
      OBVIOUS
    <3>1. PICK h \in hold : h.of = scrub /\ anim[h.el] = "paused" /\ h.saved # "idle"
      BY <1>1 DEF PageInv, PageSound, OneStands
    <3>2. h.frames = 0 BY <1>1, <3>1 DEF PageInv, PageSound, OneStands
    <3>3. next(h) \in hold' BY <1>6, <3>2
    <3>4. QED BY <1>3, <3>1, <3>3
  <2>5. QED BY <1>1, <2>2, <2>3, <2>4 DEF OneStands
<1>11. (AllResume => AsFound(anim, hold, scrub))'
  <2> SUFFICES ASSUME AllResume, NEW t \in Elements
               PROVE  \/ anim[t] = own[t] /\ \A k \in hold' : k.of = scrub => k.el # t
                      \/ \E k \in hold' : k.of = scrub /\ k.el = t /\ k.saved = own[t]
    BY <1>1 DEF AsFound, AllResume
  <2>1. CASE anim[t] = own[t] /\ \A h \in hold : h.of = scrub => h.el # t
    BY <1>3, <1>5, <2>1
  <2>2. CASE \E h \in hold : h.of = scrub /\ h.el = t /\ h.saved = own[t]
    <3>1. PICK h \in hold : h.of = scrub /\ h.el = t /\ h.saved = own[t] BY <2>2
    <3>2. h.frames = 0 BY <1>1, <3>1 DEF PageInv, PageSound, OneStands
    <3>3. next(h) \in hold' BY <1>6, <3>2
    <3>4. QED BY <1>3, <3>1, <3>3
  <2>3. QED BY <1>1, <2>1, <2>2 DEF PageInv, PageSound, AsFound
<1>12. RunningHolds(anim, hold, scrub)'
  <2>1. \A h \in hold :
          /\ anim[h.el] = "running" => h.saved = "running"
          /\ h.of = scrub /\ h.saved = "running" => \A g \in hold : g.el = h.el => g.saved = "running"
    BY <1>1 DEF PageInv, PageSound, RunningHolds
  <2>2. \A k \in hold' : \E h \in hold : k.of = h.of /\ k.el = h.el /\ k.saved = h.saved
    BY <1>3, <1>5
  <2>3. \A k \in hold' : anim[k.el] = "running" => k.saved = "running" BY <2>1, <2>2
  <2>4. \A k \in hold' : k.of = scrub /\ k.saved = "running" =>
          \A g \in hold' : g.el = k.el => g.saved = "running"
    BY <2>1, <2>2
  <2>5. QED BY <1>1, <2>3, <2>4 DEF RunningHolds
<1>13. ScrubEvents(anim, onfinish, queued, hold)'
  <2>1. \A t \in Elements : queued'[t] = {} BY <1>1
  <2>2. ASSUME NEW t \in Elements, ~onfinish'[t]
        PROVE  \E k \in hold' : k.el = t /\ k.keeps /\ k.saved = "finished"
    <3>1. PICK h \in hold : h.el = t /\ h.keeps /\ h.saved = "finished"
      BY <1>1, <1>8, <2>2 DEF PageInv, PageSound, ScrubEvents
    <3>2. next(h) \in hold' BY <1>6, <1>8, <2>2, <3>1
    <3>3. QED BY <1>3, <1>4, <3>1, <3>2
  <2>3. QED BY <2>1, <2>2 DEF ScrubEvents
<1>14. EndsCount(queued, hold, ends)'
  <2> SUFFICES ASSUME NEW t \in Elements
               PROVE  /\ ends'[t].heard <= ends'[t].real /\ ends'[t].noticed <= ends'[t].real
                      /\ ends'[t].real <= ends'[t].excused + ends'[t].heard
                      /\ ends'[t].real <= ends'[t].excused + ends'[t].noticed
    <3>1. \A t \in Elements : queued'[t] = {} BY <1>1
    <3>2. \A t \in Elements : ends'[t].real \in Nat /\ ends'[t].heard \in Nat
                              /\ ends'[t].noticed \in Nat /\ ends'[t].excused \in Nat
      BY <1>9 DEF PageTypeOK, Counts
    <3>3. QED BY <3>1, <3>2 DEF EndsCount, Waits
  <2>1. /\ ends'[t].heard = ends[t].heard + (IF stops(t) THEN 0 ELSE Cardinality(queued[t]))
        /\ ends'[t].noticed = ends[t].noticed + (IF onfinish[t] THEN Cardinality(queued[t]) ELSE 0)
        /\ ends'[t].real = ends[t].real /\ ends'[t].excused = ends[t].excused
    BY <1>1, <1>2 DEF Counts
  <2>2. /\ ends[t].real \in Nat /\ ends[t].heard \in Nat /\ ends[t].noticed \in Nat
        /\ ends[t].excused \in Nat
    BY <1>2 DEF Counts
  <2>3. /\ Cardinality(queued[t]) \in Nat
        /\ "scrub" \notin queued[t] => Cardinality(queued[t]) = Waits("real" \in queued[t])
    BY <1>2, QueueCounts
  <2>4. /\ ends[t].heard + Waits("real" \in queued[t]) <= ends[t].real
        /\ ends[t].noticed + Waits("real" \in queued[t]) <= ends[t].real
        /\ ends[t].real <= ends[t].excused + ends[t].heard
             + Waits("real" \in queued[t] /\ ~FoundFinished(hold, t))
        /\ ends[t].real <= ends[t].excused + ends[t].noticed
             + Waits("real" \in queued[t] /\ ~FoundFinished(hold, t))
    BY <1>1 DEF PageInv, PageSound, EndsCount
  <2>5. /\ "scrub" \in queued[t] => ~onfinish[t] /\ FoundFinished(hold, t)
        /\ ~onfinish[t] => FoundFinished(hold, t)
        /\ "real" \in queued[t] /\ ~FoundFinished(hold, t) => anim[t] = "finished"
    BY <1>1 DEF PageInv, PageSound, ScrubEvents, FoundFinished
  <2>6. FoundFinished(hold, t) /\ "scrub" \in queued[t] => stops(t)
    BY DEF FoundFinished, scrubCaused
  <2>7. "real" \in queued[t] /\ ~FoundFinished(hold, t) => ~stops(t)
    BY <2>5 DEF FoundFinished, scrubCaused
  <2> HIDE DEF stops
  <2>8. CASE FoundFinished(hold, t)
    BY <2>1, <2>2, <2>3, <2>4, <2>5, <2>6, <2>8 DEF Waits
  <2>9. CASE ~FoundFinished(hold, t)
    BY <2>1, <2>2, <2>3, <2>4, <2>5, <2>7, <2>9 DEF Waits
  <2>10. QED BY <2>8, <2>9
<1>15. PageInv' BY <1>9, <1>10, <1>11, <1>12, <1>13, <1>14 DEF PageInv, PageSound
<1>16. \A k \in hold' : \E g \in hold : g.of = k.of BY <1>3, <1>5
<1>17. QED BY <1>1, <1>15, <1>16, PageMoves
-----------------------------------------------------------------------------
LEMMA SweepStep ==
    ASSUME SweepInv, SweepNext PROVE SweepInv'
<1> USE DEF SweepInv, NoSweep, ArmedIsRunning
<1>1. CASE installSweepRecorder BY <1>1 DEF installSweepRecorder
<1>2. CASE \E g \in loops : Tick(g)
  <2>1. PICK g \in loops : Tick(g) BY <1>2
  <2>2. QED BY <2>1 DEF Tick
<1>3. CASE IdlesOut BY <1>3 DEF IdlesOut
<1>4. CASE disarmSweep BY <1>4 DEF disarmSweep
<1>5. CASE readSweep BY <1>5 DEF readSweep
<1>6. QED BY <1>1, <1>2, <1>3, <1>4, <1>5 DEF SweepNext

AnimInv == ScrubInv /\ SweepInv

(* The whole machine. *)
LEMMA AnimStart == ASSUME AnimInit PROVE AnimInv
<1> USE PageAnimationsAssumption DEF AnimInit
<1>1. CallsTypeOK BY DEF CallsTypeOK, NotBegun, Steps
<1>2. PageTypeOK(anim, onfinish, queued, hold, scrub, ends)
  BY DEF PageTypeOK, PlayStates, Counts
<1>3. OneStands(anim, hold, scrub) /\ AsFound(anim, hold, scrub) /\ RunningHolds(anim, hold, scrub)
  BY DEF OneStands, AsFound, RunningHolds
<1>4. ScrubEvents(anim, onfinish, queued, hold) BY DEF ScrubEvents
<1>5. EndsCount(queued, hold, ends) BY DEF EndsCount, Waits
<1>6. PageInv BY <1>2, <1>3, <1>4, <1>5 DEF PageInv, PageSound
<1>7. PreparesOnce /\ HeardOf /\ RestoresCome
  BY DEF PreparesOnce, HeardOf, RestoresCome, NotBegun, Restoring
<1>8. SweepInv BY DEF SweepInv, NoSweep, ArmedIsRunning
<1>9. QED BY <1>1, <1>6, <1>7, <1>8 DEF AnimInv, ScrubInv

LEMMA AnimStep == ASSUME AnimInv, [ScrubNext \/ SweepNext]_animVars PROVE AnimInv'
<1>1. CASE ScrubNext
  <2>1. ScrubInv'
    BY <1>1, StartScrubStep, SendStep, HearsStep, EvalFailsStep, CancelStep,
       GuardRestoresStep, RunScriptStep, DrawFrameStep, NaturalEndStep,
       PagePlaysStep DEF ScrubNext, AnimInv
  <2>2. UNCHANGED sweepVars
    BY <1>1 DEF ScrubNext, Start, Send, Hears, EvalFails, Cancel, GuardRestores,
       RunScript, DrawFrame, NaturalEnd, PagePlays
  <2>3. SweepInv' BY <2>2 DEF AnimInv, SweepInv, sweepVars, ArmedIsRunning
  <2>4. QED BY <2>1, <2>3 DEF AnimInv
<1>2. CASE SweepNext
  <2>1. SweepInv' BY <1>2, SweepStep DEF AnimInv
  <2>2. UNCHANGED <<step, answer, inbox, callVars, scrub, pageState>> /\ want' = want
    BY <1>2 DEF SweepNext, pageVars, pageState, callVars
  <2>3. PageInv' BY <2>2, PageStands DEF AnimInv, ScrubInv
  <2>4. hold' = hold BY <2>2 DEF pageState
  <2>5. ScrubInv' BY <2>2, <2>3, <2>4, PageMoves DEF AnimInv
  <2>6. QED BY <2>1, <2>5 DEF AnimInv
<1>3. CASE UNCHANGED animVars
  <2>1. UNCHANGED <<step, answer, inbox, callVars, scrub, pageState>> /\ want' = want
    BY <1>3 DEF animVars, pageState, callVars
  <2>2. PageInv' BY <2>1, PageStands DEF AnimInv, ScrubInv
  <2>3. hold' = hold BY <2>1 DEF pageState
  <2>4. ScrubInv' BY <2>1, <2>2, <2>3, PageMoves DEF AnimInv
  <2>5. SweepInv' BY <1>3 DEF AnimInv, SweepInv, animVars, ArmedIsRunning
  <2>6. QED BY <2>4, <2>5 DEF AnimInv
<1>4. QED BY <1>1, <1>2, <1>3

(* However many calls scrub whatever elements, and wherever they fail, time  *)
(* out or are cancelled: once they are over each animation is as the page   *)
(* has it, its ends are told when they are real and never for a scrub, and  *)
(* a recorder that says it is armed is being run.                           *)
THEOREM AnimationsAreTheirsAlways == AnimSpec => []AnimationsAreTheirs
<1>1. ASSUME AnimInv PROVE AnimationsAreTheirs
  <2> USE <1>1 DEF AnimInv, ScrubInv
  <2>1. PutBackAsFound
    <3> SUFFICES ASSUME AllOver, unrestored = {}, AllResume PROVE anim = own
      BY DEF PutBackAsFound, AllResume
    <3>1. ~RestoresAfter(0) BY DEF AllOver, RestoresAfter
    <3>2. scrub = NoScrub
      BY <3>1 DEF RestoresCome, Owed, AllOver, PageInv, PageSound, PageTypeOK
    <3>3. \A t \in Elements : anim[t] = own[t]
      BY <3>2, PageAnimationsAssumption DEF PageInv, PageSound, PageTypeOK, AsFound,
         Holds
    <3>4. QED BY <3>3 DEF PageInv, PageSound, PageTypeOK
  <2>2. EndsAreTrue
    BY DEF EndsAreTrue, PageInv, PageSound, PageTypeOK, Counts, EndsCount, Waits
  <2>3. ArmedIsRunning BY DEF SweepInv
  <2>4. QED BY <2>1, <2>2, <2>3 DEF AnimationsAreTheirs
<1>2. AnimInit => AnimInv BY AnimStart
<1>3. AnimInv /\ [ScrubNext \/ SweepNext]_animVars => AnimInv' BY AnimStep
<1>4. QED BY <1>1, <1>2, <1>3, PTL DEF AnimSpec

-----------------------------------------------------------------------------

(***************************************************************************)
(* PendingIsOnItsWay for any handlers but those that send again without    *)
(* open() or open and send inside open(): for these the run shows what     *)
(* happens. What the native object carries is the current request          *)
(* (Carries), and only that one can be pending (OnePending). While it is,  *)
(* something that settles it can be named (BeingSettled): the network, a   *)
(* timer of a mock or of a delay, the rest of open(), or what goes on      *)
(* after an event and finds the object as it has to. A step either leaves  *)
(* such a thing (StillPends) or ends the entry (EndsPending). That a       *)
(* native abort() which returns does not take away the end of another      *)
(* request needs the order of the stack (Covered): what it finds done is   *)
(* what it aborted itself.                                                 *)
(***************************************************************************)

MockAborts == {"aborts", "mockAbort", "ends", "mockEnd", "reset"}
NativeAborts == {"nativeAbort", "nativeEnd", "unsent"}
Afters == Hooks \cup MockAborts \cup NativeAborts \cup
  {"open", "goOut", "loads", "armAnswer", "armTimeout", "uploaded", "headers", "loading", "answered"}
Statuses == {"pending", "blocked", "mocked", "error", "timeout", "aborted", "ok"}
LogEntries == [status : Statuses, how : {"network", "blocked", "mock"}]
Frames == [of : Nat, after : Afters]
Natives == [state : {"unsent", "opened", "starting", "sent", "done"}, of : Nat]
Mocks == [of : Nat, state : 0..4, timer : {"none", "answer", "timeout"}]

XhrTypeOK ==
  /\ netLog \in Seq(LogEntries)
  /\ entry \in 0..Len(netLog)
  /\ native \in Natives
  /\ mock \in Mocks
  /\ delayTimer \in Nat
  /\ xhrStack \in Seq(Frames)

(* The native object carries the current request, or it was just opened. *)
Carries ==
  /\ native.state \in {"starting", "sent", "done"} => native.of = entry /\ entry # 0
  /\ InOpen => native.state = "opened"

(* So does the mock, and it has ended once it is being aborted. *)
MockIs ==
  /\ mock # NoMock => mock.of = entry /\ entry # 0
  /\ \A f \in OnStack :
       /\ f.of <= Len(netLog)
       /\ f.after \in MockAborts /\ f.of = mock.of => mock.state \in {0, 4}

(* Above what goes on for the abort of an earlier request, there is the abort of this one. *)
Covered(s, e) ==
  \A k \in 1..Len(s) : s[k].after \in NativeAborts =>
    \E j \in 1..k : s[j].after \in NativeAborts /\ s[j].of = e

BeingSettled ==
  /\ OnItsWay
  /\ mock # NoMock => mock.state \in 1..3
  /\ native.state = "done" => Covered(xhrStack, entry)

OnePending == \A i \in 1..Len(netLog) : Pending(i) => i = entry

XhrInv == XhrTypeOK /\ Carries /\ MockIs /\ OnePending /\ (Pending(entry) => BeingSettled)
-----------------------------------------------------------------------------
(* The stack of what goes on: a frame is put on it, taken off, or goes on. *)
LEMMA Pushed ==
    ASSUME XhrTypeOK, NEW f \in Frames, xhrStack' = <<f>> \o xhrStack
    PROVE  /\ xhrStack' \in Seq(Frames) /\ OnStack' = {f} \cup OnStack
           /\ \A e : Covered(xhrStack, e) /\ (f.after \in NativeAborts => f.of = e)
                => Covered(xhrStack', e)
<1>1. /\ xhrStack' \in Seq(Frames) /\ Len(xhrStack') = Len(xhrStack) + 1 /\ xhrStack'[1] = f
      /\ \A k \in 1..Len(xhrStack) : xhrStack'[k + 1] = xhrStack[k]
      /\ \A k \in 1..Len(xhrStack') : k = 1 \/ k - 1 \in 1..Len(xhrStack)
  BY DEF XhrTypeOK
<1>2. OnStack' = {f} \cup OnStack
  <2>1. DOMAIN xhrStack = 1..Len(xhrStack) /\ DOMAIN xhrStack' = 1..Len(xhrStack')
    BY <1>1 DEF XhrTypeOK
  <2>2. Len(xhrStack) \in Nat BY DEF XhrTypeOK
  <2>3. \A k \in DOMAIN xhrStack' : xhrStack'[k] \in {f} \cup OnStack
    <3> SUFFICES ASSUME NEW k \in DOMAIN xhrStack' PROVE xhrStack'[k] \in {f} \cup OnStack
      OBVIOUS
    <3>1. CASE k = 1 BY <1>1, <3>1
    <3>2. CASE k # 1
      <4>1. k - 1 \in 1..Len(xhrStack) /\ (k - 1) + 1 = k BY <1>1, <2>1, <3>2
      <4>2. xhrStack'[k] = xhrStack[k - 1] BY <1>1, <4>1
      <4>3. QED BY <2>1, <4>1, <4>2 DEF OnStack
    <3>3. QED BY <3>1, <3>2
  <2>4. \A k \in DOMAIN xhrStack : xhrStack[k] \in OnStack'
    <3> SUFFICES ASSUME NEW k \in 1..Len(xhrStack) PROVE xhrStack[k] \in OnStack' BY <2>1
    <3>1. k + 1 \in DOMAIN xhrStack' /\ xhrStack'[k + 1] = xhrStack[k] BY <1>1, <2>1, <2>2
    <3>2. QED BY <3>1 DEF OnStack
  <2>5. f \in OnStack'
    <3>1. 1 \in DOMAIN xhrStack' BY <1>1, <2>1, <2>2
    <3>2. QED BY <1>1, <3>1 DEF OnStack
  <2>6. QED BY <2>3, <2>4, <2>5 DEF OnStack
<1>3. ASSUME NEW e, Covered(xhrStack, e), f.after \in NativeAborts => f.of = e
      PROVE  Covered(xhrStack', e)
  <2> SUFFICES ASSUME NEW k \in 1..Len(xhrStack'), xhrStack'[k].after \in NativeAborts
               PROVE  \E j \in 1..k : xhrStack'[j].after \in NativeAborts /\ xhrStack'[j].of = e
    BY DEF Covered
  <2>1. CASE k = 1 BY <1>1, <1>3, <2>1
  <2>2. CASE k # 1
    <3>1. k - 1 \in 1..Len(xhrStack) /\ (k - 1) + 1 = k BY <1>1, <2>2
    <3>2. xhrStack[k - 1].after \in NativeAborts BY <1>1, <3>1
    <3>3. PICK j \in 1..(k - 1) : xhrStack[j].after \in NativeAborts /\ xhrStack[j].of = e
      BY <1>3, <3>1, <3>2 DEF Covered
    <3>4. j \in 1..Len(xhrStack) /\ j + 1 \in 1..k BY <3>1, <3>3
    <3>5. xhrStack'[j + 1] = xhrStack[j] BY <1>1, <3>4
    <3>6. QED BY <3>3, <3>4, <3>5
  <2>3. QED BY <2>1, <2>2
<1>4. QED BY <1>1, <1>2, <1>3

LEMMA Popped ==
    ASSUME XhrTypeOK, xhrStack # <<>>, xhrStack' = Tail(xhrStack)
    PROVE  /\ xhrStack' \in Seq(Frames) /\ OnStack = {Frame} \cup OnStack' /\ Frame \in Frames
           /\ \A e : Covered(xhrStack, e) /\ Frame.after \notin NativeAborts
                => Covered(xhrStack', e)
<1>1. /\ xhrStack' \in Seq(Frames) /\ Len(xhrStack) = Len(xhrStack') + 1 /\ Len(xhrStack') \in Nat
      /\ Frame = xhrStack[1] /\ Frame \in Frames
      /\ \A k \in 1..Len(xhrStack') : xhrStack'[k] = xhrStack[k + 1]
  BY DEF XhrTypeOK, Frame
<1>2. OnStack = {Frame} \cup OnStack'
  <2>1. DOMAIN xhrStack = 1..Len(xhrStack) /\ DOMAIN xhrStack' = 1..Len(xhrStack')
    BY <1>1 DEF XhrTypeOK
  <2>2. \A k \in DOMAIN xhrStack : xhrStack[k] \in {Frame} \cup OnStack'
    <3> SUFFICES ASSUME NEW k \in DOMAIN xhrStack PROVE xhrStack[k] \in {Frame} \cup OnStack'
      OBVIOUS
    <3>1. CASE k = 1 BY <1>1, <3>1
    <3>2. CASE k # 1
      <4>1. k - 1 \in 1..Len(xhrStack') /\ (k - 1) + 1 = k BY <1>1, <2>1, <3>2
      <4>2. xhrStack[k] = xhrStack'[k - 1] BY <1>1, <4>1
      <4>3. QED BY <2>1, <4>1, <4>2 DEF OnStack
    <3>3. QED BY <3>1, <3>2
  <2>3. \A k \in DOMAIN xhrStack' : xhrStack'[k] \in OnStack
    <3> SUFFICES ASSUME NEW k \in 1..Len(xhrStack') PROVE xhrStack'[k] \in OnStack BY <2>1
    <3>1. k + 1 \in DOMAIN xhrStack /\ xhrStack'[k] = xhrStack[k + 1] BY <1>1, <2>1
    <3>2. QED BY <3>1 DEF OnStack
  <2>4. Frame \in OnStack
    <3>1. 1 \in DOMAIN xhrStack BY <1>1, <2>1
    <3>2. QED BY <1>1, <3>1 DEF OnStack
  <2>5. QED BY <2>2, <2>3, <2>4 DEF OnStack
<1>3. ASSUME NEW e, Covered(xhrStack, e), Frame.after \notin NativeAborts
      PROVE  Covered(xhrStack', e)
  <2> SUFFICES ASSUME NEW k \in 1..Len(xhrStack'), xhrStack'[k].after \in NativeAborts
               PROVE  \E j \in 1..k : xhrStack'[j].after \in NativeAborts /\ xhrStack'[j].of = e
    BY DEF Covered
  <2>1. k + 1 \in 1..Len(xhrStack) /\ xhrStack[k + 1].after \in NativeAborts BY <1>1
  <2>2. PICK j \in 1..(k + 1) : xhrStack[j].after \in NativeAborts /\ xhrStack[j].of = e
    BY <1>3, <2>1 DEF Covered
  <2>3. j # 1 BY <1>1, <1>3, <2>2
  <2>4. j - 1 \in 1..k /\ j - 1 \in 1..Len(xhrStack') /\ (j - 1) + 1 = j BY <2>2, <2>3
  <2>5. xhrStack'[j - 1] = xhrStack[j] BY <1>1, <2>4
  <2>6. QED BY <2>2, <2>4, <2>5
<1>4. QED BY <1>1, <1>2, <1>3

LEMMA FrameGoesOn ==
    ASSUME XhrTypeOK, NEW after \in Afters, xhrStack # <<>>, Continue(after)
    PROVE  LET f == [Frame EXCEPT !.after = after]
           IN  /\ xhrStack' \in Seq(Frames) /\ f = [of |-> Frame.of, after |-> after]
               /\ \E rest : OnStack = {Frame} \cup rest /\ OnStack' = {f} \cup rest
               /\ Frame \in Frames
               /\ \A e : /\ Covered(xhrStack, e)
                         /\ Frame.after \notin NativeAborts /\ after \notin NativeAborts
                         => Covered(xhrStack', e)
<1> DEFINE f == [Frame EXCEPT !.after = after]
<1>1. /\ Tail(xhrStack) \in Seq(Frames) /\ Len(xhrStack) = Len(Tail(xhrStack)) + 1
      /\ Len(Tail(xhrStack)) \in Nat /\ Frame = xhrStack[1] /\ Frame \in Frames
      /\ \A k \in 1..Len(Tail(xhrStack)) : Tail(xhrStack)[k] = xhrStack[k + 1]
  BY DEF XhrTypeOK, Frame
<1>2. f \in Frames /\ f = [of |-> Frame.of, after |-> after] /\ xhrStack' = <<f>> \o Tail(xhrStack)
  BY <1>1 DEF Frames, Continue
<1>3. f.after = after BY <1>2
<1> HIDE DEF f
<1>4. /\ xhrStack' \in Seq(Frames) /\ Len(xhrStack') = Len(xhrStack) /\ xhrStack'[1] = f
      /\ \A k \in 1..Len(xhrStack) : k # 1 => xhrStack'[k] = xhrStack[k]
  <2>1. /\ xhrStack' \in Seq(Frames) /\ Len(xhrStack') = Len(Tail(xhrStack)) + 1
        /\ xhrStack'[1] = f
        /\ \A k \in 1..Len(Tail(xhrStack)) : xhrStack'[k + 1] = Tail(xhrStack)[k]
    BY <1>1, <1>2
  <2>2. ASSUME NEW k \in 1..Len(xhrStack), k # 1 PROVE xhrStack'[k] = xhrStack[k]
    <3>1. k - 1 \in 1..Len(Tail(xhrStack)) /\ (k - 1) + 1 = k BY <1>1, <2>2
    <3>2. QED BY <1>1, <2>1, <3>1
  <2>3. QED BY <1>1, <2>1, <2>2
<1>5. \E rest : OnStack = {Frame} \cup rest /\ OnStack' = {f} \cup rest
  <2> DEFINE rest == {xhrStack[k] : k \in 2..Len(xhrStack)}
  <2>1. DOMAIN xhrStack = 1..Len(xhrStack) /\ DOMAIN xhrStack' = 1..Len(xhrStack)
    BY <1>4 DEF XhrTypeOK
  <2>2. 1..Len(xhrStack) = {1} \cup 2..Len(xhrStack) BY <1>1
  <2>3. \A k \in 2..Len(xhrStack) : xhrStack'[k] = xhrStack[k] BY <1>4
  <2>4. OnStack = {Frame} \cup rest
    BY <1>1, <2>1, <2>2 DEF OnStack
  <2>5. OnStack' = {f} \cup rest
    BY <1>4, <2>1, <2>2, <2>3 DEF OnStack
  <2>6. QED BY <2>4, <2>5
<1>6. ASSUME NEW e, Covered(xhrStack, e), Frame.after \notin NativeAborts,
             after \notin NativeAborts
      PROVE  Covered(xhrStack', e)
  <2> SUFFICES ASSUME NEW k \in 1..Len(xhrStack'), xhrStack'[k].after \in NativeAborts
               PROVE  \E j \in 1..k : xhrStack'[j].after \in NativeAborts /\ xhrStack'[j].of = e
    BY DEF Covered
  <2>1. k # 1 BY <1>3, <1>4, <1>6
  <2>2. k \in 1..Len(xhrStack) /\ xhrStack[k].after \in NativeAborts BY <1>4, <2>1
  <2>3. PICK j \in 1..k : xhrStack[j].after \in NativeAborts /\ xhrStack[j].of = e
    BY <1>6, <2>2 DEF Covered
  <2>4. j # 1 BY <1>1, <1>6, <2>3
  <2>5. xhrStack'[j] = xhrStack[j] BY <1>4, <2>2, <2>3, <2>4
  <2>6. QED BY <2>3, <2>5
<1>7. QED BY <1>1, <1>2, <1>4, <1>5, <1>6 DEF f

LEMMA FramesAre == ASSUME XhrTypeOK, NEW f \in OnStack PROVE f \in Frames
BY DEF OnStack, XhrTypeOK

LEMMA Taken == ASSUME XhrTypeOK, xhrStack # <<>> PROVE Frame \in OnStack /\ Frame \in Frames
<1>1. DOMAIN xhrStack = 1..Len(xhrStack) /\ 1 \in 1..Len(xhrStack) BY DEF XhrTypeOK
<1>2. Frame = xhrStack[1] BY DEF Frame, XhrTypeOK
<1>3. QED BY <1>1, <1>2, FramesAre DEF OnStack

(* An entry of the log gets its outcome. *)
LEMMA FinishedAt ==
    ASSUME XhrTypeOK, NEW status \in Statuses \ {"pending"}, NEW i \in 1..Len(netLog)
    PROVE  LET log == xhrFinish(netLog, i, status)
           IN  /\ log \in Seq(LogEntries) /\ Len(log) = Len(netLog)
               /\ \A j \in 1..Len(netLog) : j # i => log[j] = netLog[j]
               /\ log[i].status # "pending"
<1> USE DEF XhrTypeOK
<1> DEFINE log == xhrFinish(netLog, i, status)
           new == [netLog[i] EXCEPT !.status = status]
<1>1. netLog[i] \in LogEntries OBVIOUS
<1>2. new \in LogEntries /\ new.status = status BY <1>1 DEF LogEntries
<1>3. log = [netLog EXCEPT ![i] = new] BY DEF xhrFinish
<1> HIDE DEF new
<1>4. /\ log \in Seq(LogEntries) /\ Len(log) = Len(netLog)
      /\ \A j \in 1..Len(netLog) : j # i => log[j] = netLog[j]
      /\ log[i] = new
  BY <1>2, <1>3
<1> HIDE DEF log
<1>5. log[i].status # "pending" BY <1>2, <1>4
<1>6. QED BY <1>4, <1>5 DEF log

LEMMA Finished ==
    ASSUME XhrTypeOK, NEW status \in Statuses \ {"pending"}
    PROVE  LET log == FinishIfPending(netLog, entry, status)
           IN  /\ log \in Seq(LogEntries) /\ Len(log) = Len(netLog)
               /\ \A i \in 1..Len(netLog) : i # entry => log[i] = netLog[i]
               /\ entry # 0 => log[entry].status # "pending"
<1>1. CASE entry # 0 /\ netLog[entry].status = "pending"
  <2>1. entry \in 1..Len(netLog) BY <1>1 DEF XhrTypeOK
  <2>2. FinishIfPending(netLog, entry, status) = xhrFinish(netLog, entry, status)
    BY <1>1 DEF FinishIfPending
  <2>3. QED BY <2>1, <2>2, FinishedAt
<1>2. CASE ~(entry # 0 /\ netLog[entry].status = "pending")
  <2>1. FinishIfPending(netLog, entry, status) = netLog BY <1>2 DEF FinishIfPending
  <2>2. QED BY <1>2, <2>1 DEF XhrTypeOK
<1>3. QED BY <1>1, <1>2

(* The request under way is left as it is, and something that settles it is there. *)
LEMMA StillPends ==
    ASSUME XhrInv, XhrTypeOK', UNCHANGED <<netLog, entry>>, Carries', MockIs',
           Pending(entry) => BeingSettled'
    PROVE  XhrInv'
BY DEF XhrInv, OnePending, Pending

(* Somebody ends the request under way, and then nothing pends. *)
LEMMA EndsPending ==
    ASSUME XhrInv, NEW status \in Statuses \ {"pending"},
           \/ netLog' = FinishIfPending(netLog, entry, status)
           \/ entry # 0 /\ netLog' = xhrFinish(netLog, entry, status),
           entry' \in {entry, 0}, native' \in Natives, mock' \in Mocks, delayTimer' \in Nat,
           xhrStack' \in Seq(Frames), Carries', Len(netLog') = Len(netLog) => MockIs'
    PROVE  XhrInv'
<1>1. /\ netLog' \in Seq(LogEntries) /\ Len(netLog') = Len(netLog)
      /\ \A j \in 1..Len(netLog) : j # entry => netLog'[j] = netLog[j]
      /\ entry # 0 => netLog'[entry].status # "pending"
  <2>1. XhrTypeOK /\ (entry # 0 => entry \in 1..Len(netLog)) BY DEF XhrInv, XhrTypeOK
  <2>2. CASE netLog' = FinishIfPending(netLog, entry, status) BY <2>1, <2>2, Finished
  <2>3. CASE entry # 0 /\ netLog' = xhrFinish(netLog, entry, status)
    BY <2>1, <2>3, FinishedAt
  <2>4. QED BY <2>2, <2>3
<1>2. XhrTypeOK' BY <1>1 DEF XhrInv, XhrTypeOK
<1>3. \A j \in 1..Len(netLog') : ~Pending(j)' BY <1>1 DEF XhrInv, OnePending, Pending
<1>4. ~Pending(entry)' BY <1>2, <1>3 DEF XhrTypeOK, Pending
<1>5. QED BY <1>1, <1>2, <1>3, <1>4 DEF XhrInv, OnePending

(* What the steps of the stack leave alone. *)
LEMMA SameNative ==
    ASSUME XhrInv, UNCHANGED <<native, entry>>,
           \A f \in OnStack' : f \in OnStack \/ f.after # "open"
    PROVE  Carries'
BY DEF XhrInv, Carries, InOpen

LEMMA SameMock ==
    ASSUME XhrInv, UNCHANGED <<entry, mock>>, Len(netLog') = Len(netLog),
           \A f \in OnStack' :
             \/ f \in OnStack
             \/ /\ f.of <= Len(netLog)
                /\ f.after \in MockAborts => f.of # mock.of \/ mock.state \in {0, 4}
    PROVE  MockIs'
BY DEF XhrInv, MockIs

(* A mock moves on: it was not being aborted, or that is what it is. *)
LEMMA MockMoves ==
    ASSUME XhrInv, UNCHANGED <<entry, netLog>>, mock # NoMock, mock'.of = mock.of,
           mock.state \in 1..3 \/ mock'.state \in {0, 4},
           \A f \in OnStack' :
             \/ f \in OnStack
             \/ f.of <= Len(netLog) /\ (f.after \in MockAborts => mock'.state \in {0, 4})
    PROVE  MockIs'
BY DEF XhrInv, MockIs

LEMMA Awaited == ASSUME XhrInv, Pending(entry) PROVE entry \in 1..Len(netLog) /\ BeingSettled
BY DEF XhrInv, XhrTypeOK, Pending

(* A handler has returned, and what follows changes nothing for the request. *)
LEMMA PopKeeps ==
    ASSUME XhrInv, xhrStack # <<>>, Return,
           UNCHANGED <<netLog, entry, native, mock, delayed, delayTimer>>,
           Frame.after \notin NativeAborts \cup {"open"}, ~Settles(Frame)
    PROVE  XhrInv'
<1>1. /\ xhrStack' \in Seq(Frames) /\ OnStack = {Frame} \cup OnStack'
      /\ \A e : Covered(xhrStack, e) => Covered(xhrStack', e)
  BY Popped DEF Return, XhrInv
<1>2. XhrTypeOK' BY <1>1 DEF XhrInv, XhrTypeOK
<1>3. Carries' BY <1>1, SameNative
<1>4. MockIs' BY <1>1, SameMock
<1>5. ASSUME Pending(entry) PROVE BeingSettled'
  <2>1. BeingSettled BY <1>5, Awaited
  <2>2. InOpen => InOpen' BY <1>1 DEF InOpen
  <2>3. \A f \in OnStack : Settles(f) => f \in OnStack' /\ Settles(f)'
    <3> SUFFICES ASSUME NEW f \in OnStack, Settles(f) PROVE f \in OnStack' /\ Settles(f)'
      OBVIOUS
    <3>1. f \in OnStack' BY <1>1
    <3>2. Settles(f)' BY DEF Settles, Moved
    <3>3. QED BY <3>1, <3>2
  <2>4. OnItsWay' BY <2>1, <2>2, <2>3 DEF BeingSettled, OnItsWay, Moved
  <2>5. QED BY <1>1, <2>1, <2>4 DEF BeingSettled
<1>6. QED BY <1>2, <1>3, <1>4, <1>5, StillPends

(* Something is put on the stack, or goes on, that settles the request under way. *)
LEMMA SettlesNow ==
    ASSUME NEW f \in OnStack', f.of = entry',
           \/ f.after \in {"load", "error", "nativeAbort"}
           \/ f.after = "goOut" /\ native' = [state |-> "starting", of |-> entry']
           \/ f.after = "loads" /\ native'.state = "done"
           \/ f.after \in {"armAnswer", "armTimeout", "uploaded"} /\ ~Moved(entry, 1)'
           \/ f.after = "headers" /\ ~Moved(entry, 2)'
           \/ f.after = "loading" /\ ~Moved(entry, 3)'
    PROVE  OnItsWay'
<1>1. Settles(f)' BY DEF Settles
<1>2. QED BY <1>1 DEF OnItsWay

LEMMA ArmStep == ASSUME XhrInv, NEW timer \in {"answer", "timeout"}, Arm(timer) PROVE XhrInv'
<1>1. /\ xhrStack # <<>> /\ Return /\ UNCHANGED <<netLog, entry, native, delayed, delayTimer>>
      /\ Frame.after \in {"armAnswer", "armTimeout"}
      /\ mock' = IF Moved(Frame.of, 1) THEN mock ELSE [mock EXCEPT !.timer = timer]
  BY DEF Arm, Goes
<1>2. CASE Moved(Frame.of, 1)
  <2>1. ~Settles(Frame) BY <1>1, <1>2 DEF Settles, Moved
  <2>2. Frame.after \notin NativeAborts \cup {"open"} BY <1>1 DEF NativeAborts
  <2>3. QED BY <1>1, <1>2, <2>1, <2>2, PopKeeps
<1>3. CASE ~Moved(Frame.of, 1)
  <2>1. mock # NoMock /\ mock.state = 1 BY <1>3 DEF Moved, NoMock
  <2>2. mock.of = entry BY <2>1 DEF XhrInv, MockIs
  <2>3. mock' \in Mocks /\ mock'.of = mock.of /\ mock'.state = 1 /\ mock'.timer = timer
    BY <1>1, <1>3, <2>1 DEF XhrInv, XhrTypeOK, Mocks
  <2>4. /\ xhrStack' \in Seq(Frames) /\ OnStack = {Frame} \cup OnStack'
        /\ \A e : Covered(xhrStack, e) => Covered(xhrStack', e)
    BY <1>1, Popped DEF Return, XhrInv, NativeAborts
  <2>5. XhrTypeOK' BY <1>1, <2>3, <2>4 DEF XhrInv, XhrTypeOK
  <2>6. Carries' BY <1>1, <2>4, SameNative
  <2>7. MockIs' BY <1>1, <2>1, <2>3, <2>4, MockMoves
  <2>8. ASSUME Pending(entry) PROVE BeingSettled'
    <3>1. OnItsWay' BY <1>1, <2>2, <2>3 DEF OnItsWay, Moved
    <3>2. QED BY <1>1, <2>3, <2>4, <2>8, <3>1, Awaited DEF BeingSettled
  <2>9. QED BY <1>1, <2>5, <2>6, <2>7, <2>8, StillPends
<1>4. QED BY <1>2, <1>3

LEMMA AbandonStep ==
    ASSUME XhrInv, NEW after, NEW state, Abandon(after, state),
           <<after, state>> \in {<<"uploaded", 1>>, <<"headers", 2>>, <<"loading", 3>>,
                                 <<"answered", 4>>, <<"aborts", 4>>, <<"ends", 4>>}
    PROVE  XhrInv'
<1>1. /\ xhrStack # <<>> /\ Return /\ UNCHANGED <<netLog, entry, native, mock, delayed, delayTimer>>
      /\ Frame.after = after /\ Moved(Frame.of, state)
  BY DEF Abandon, Goes
<1>2. ~Settles(Frame) BY <1>1 DEF Settles
<1>3. Frame.after \notin NativeAborts \cup {"open"} BY <1>1 DEF NativeAborts
<1>4. QED BY <1>1, <1>2, <1>3, PopKeeps

LEMMA GoOutStep == ASSUME XhrInv, GoOut PROVE XhrInv'
<1>1. /\ xhrStack # <<>> /\ Return /\ Frame.after = "goOut"
      /\ UNCHANGED <<netLog, entry, mock, delayed, delayTimer>>
  BY DEF GoOut, Goes
<1>2. CASE native.state = "starting" /\ native.of = Frame.of
  <2>1. native' = [native EXCEPT !.state = "sent"] BY <1>2 DEF GoOut
  <2>2. native \in Natives BY DEF XhrInv, XhrTypeOK
  <2>3. native' \in Natives /\ native' = [state |-> "sent", of |-> native.of]
    BY <2>1, <2>2 DEF Natives
  <2>4. native.of = entry /\ entry # 0 /\ ~InOpen BY <1>2 DEF XhrInv, Carries
  <2>5. xhrStack' \in Seq(Frames) /\ OnStack = {Frame} \cup OnStack'
    BY <1>1, Popped DEF Return, XhrInv
  <2>6. XhrTypeOK' BY <1>1, <2>3, <2>5 DEF XhrInv, XhrTypeOK
  <2>7. Carries'
    <3>1. ~InOpen' BY <2>4, <2>5 DEF InOpen
    <3>2. QED BY <1>1, <2>3, <2>4, <3>1 DEF Carries
  <2>8. MockIs' BY <1>1, <2>5, SameMock
  <2>9. ASSUME Pending(entry) PROVE BeingSettled'
    <3>1. OnItsWay' BY <1>1, <2>3, <2>4 DEF OnItsWay
    <3>2. QED BY <1>1, <2>3, <2>9, <3>1, Awaited DEF BeingSettled
  <2>10. QED BY <1>1, <2>6, <2>7, <2>8, <2>9, StillPends
<1>3. CASE ~(native.state = "starting" /\ native.of = Frame.of)
  <2>1. native' = native BY <1>3 DEF GoOut
  <2>2. ~Settles(Frame) BY <1>1, <1>3 DEF Settles
  <2>3. Frame.after \notin NativeAborts \cup {"open"} BY <1>1 DEF NativeAborts
  <2>4. QED BY <1>1, <2>1, <2>2, <2>3, PopKeeps
<1>4. QED BY <1>2, <1>3

(* The object is done for this mock, and so its entry is closed. *)
LEMMA StillDoneStep ==
    ASSUME XhrInv, NEW after, NEW hook, StillDone(after, hook),
           <<after, hook>> \in {<<"answered", "load">>, <<"aborts", "mockAbort">>,
                                <<"ends", "mockEnd">>}
    PROVE  XhrInv'
<1> DEFINE f == [Frame EXCEPT !.after = hook]
<1>1. /\ xhrStack # <<>> /\ Continue(hook) /\ Frame.after = after /\ hook \in Afters
      /\ UNCHANGED <<netLog, entry, native, mock, delayed, delayTimer>>
      /\ mock.of = Frame.of /\ mock.state = 4 /\ hook \notin NativeAborts /\ hook # "open"
  BY DEF StillDone, Goes, Moved, Afters, Hooks, NativeAborts
<1>2. /\ xhrStack' \in Seq(Frames) /\ f = [of |-> Frame.of, after |-> hook]
      /\ \E rest : OnStack = {Frame} \cup rest /\ OnStack' = {f} \cup rest
  BY <1>1, FrameGoesOn DEF XhrInv
<1>3. f.of = mock.of /\ f.after = hook BY <1>1, <1>2
<1> HIDE DEF f
<1>4. XhrTypeOK' BY <1>1, <1>2 DEF XhrInv, XhrTypeOK
<1>5. Carries' BY <1>1, <1>2, <1>3, SameNative
<1>6. mock # NoMock BY <1>1 DEF NoMock
<1>7. mock.of <= Len(netLog) BY <1>6 DEF XhrInv, XhrTypeOK, MockIs
<1>8. MockIs' BY <1>1, <1>2, <1>3, <1>7, SameMock
<1>9. ~Pending(entry) BY <1>1, <1>6, Awaited DEF BeingSettled
<1>10. QED BY <1>1, <1>4, <1>5, <1>8, <1>9, StillPends

LEMMA AdvanceStep ==
    ASSUME XhrInv, NEW after, NEW state \in {1, 2}, NEW next, Advance(after, state, next),
           <<after, state, next>> \in {<<"uploaded", 1, "headers">>, <<"headers", 2, "loading">>}
    PROVE  XhrInv'
<1> DEFINE f == [Frame EXCEPT !.after = next]
<1>1. /\ xhrStack # <<>> /\ Continue(next) /\ Frame.after = after /\ next \in Afters
      /\ UNCHANGED <<netLog, entry, native, delayed, delayTimer>>
      /\ mock.of = Frame.of /\ mock.state = state /\ next \notin NativeAborts \cup MockAborts
      /\ mock' = [mock EXCEPT !.state = state + 1] /\ next # "open" /\ after \notin NativeAborts
  BY DEF Advance, Goes, Moved, Afters, Hooks, NativeAborts, MockAborts
<1>2. /\ xhrStack' \in Seq(Frames) /\ f = [of |-> Frame.of, after |-> next]
      /\ \E rest : OnStack = {Frame} \cup rest /\ OnStack' = {f} \cup rest
      /\ \A e : Covered(xhrStack, e) => Covered(xhrStack', e)
  BY <1>1, FrameGoesOn DEF XhrInv
<1>3. f.of = mock.of /\ f.after = next /\ f \in OnStack' BY <1>1, <1>2
<1> HIDE DEF f
<1>4. mock # NoMock BY <1>1 DEF NoMock
<1>5. mock.of = entry /\ mock.of <= Len(netLog)
  BY <1>4 DEF XhrInv, XhrTypeOK, MockIs
<1>6. mock' \in Mocks /\ mock'.of = mock.of /\ mock'.state = state + 1
  BY <1>1 DEF XhrInv, XhrTypeOK, Mocks
<1>7. XhrTypeOK' BY <1>1, <1>2, <1>6 DEF XhrInv, XhrTypeOK
<1>8. Carries' BY <1>1, <1>2, <1>3, SameNative
<1>9. MockIs'
  <2>1. mock.state \in 1..3 BY <1>1
  <2>2. QED BY <1>1, <1>2, <1>3, <1>4, <1>5, <1>6, <2>1, MockMoves
<1>10. ASSUME Pending(entry) PROVE BeingSettled'
  <2>1. f.of = entry' /\ mock'.of = entry' /\ mock'.state = state + 1
    BY <1>1, <1>3, <1>5, <1>6
  <2>2. OnItsWay' BY <1>1, <1>3, <2>1, SettlesNow DEF Moved
  <2>3. mock'.state \in 1..3 BY <1>6
  <2>4. QED BY <1>1, <1>2, <1>10, <2>2, <2>3, Awaited DEF BeingSettled
<1>11. QED BY <1>1, <1>7, <1>8, <1>9, <1>10, StillPends

LEMMA MockEndStep == ASSUME XhrInv, xhrMockEnd PROVE XhrInv'
<1> DEFINE f == [Frame EXCEPT !.after = "answered"]
<1>1. /\ xhrStack # <<>> /\ Continue("answered") /\ Frame.after \in {"headers", "loading"}
      /\ UNCHANGED <<entry, native, delayTimer>>
      /\ mock.of = Frame.of /\ mock.state \in {2, 3} /\ mock' = [mock EXCEPT !.state = 4]
      /\ netLog' = xhrFinish(netLog, Frame.of, "mocked")
  BY DEF xhrMockEnd, Goes, Moved
<1>2. /\ xhrStack' \in Seq(Frames) /\ f = [of |-> Frame.of, after |-> "answered"]
      /\ \E rest : OnStack = {Frame} \cup rest /\ OnStack' = {f} \cup rest
  BY <1>1, FrameGoesOn DEF XhrInv, Afters, NativeAborts
<1>3. f.of = mock.of /\ f.after = "answered" BY <1>1, <1>2
<1> HIDE DEF f
<1>4. mock # NoMock BY <1>1 DEF NoMock
<1>5. mock.of = entry /\ entry # 0 /\ mock.of <= Len(netLog)
  BY <1>4 DEF XhrInv, XhrTypeOK, MockIs
<1>6. mock' \in Mocks /\ mock'.of = mock.of /\ mock'.state = 4 /\ mock' # NoMock
  BY <1>1 DEF XhrInv, XhrTypeOK, Mocks, NoMock
<1>7. Carries' BY <1>1, <1>2, <1>3, SameNative
<1>8. ASSUME Len(netLog') = Len(netLog) PROVE MockIs'
  BY <1>1, <1>2, <1>3, <1>4, <1>5, <1>6, <1>8 DEF XhrInv, MockIs
<1>9. netLog' = xhrFinish(netLog, entry, "mocked") /\ "mocked" \in Statuses \ {"pending"}
  BY <1>1, <1>5 DEF Statuses
<1>10. native' \in Natives /\ delayTimer' \in Nat BY <1>1 DEF XhrInv, XhrTypeOK
<1>11. QED BY <1>1, <1>2, <1>5, <1>6, <1>7, <1>8, <1>9, <1>10, EndsPending

LEMMA HookStep == ASSUME XhrInv, NEW hook \in Hooks, xhrHook(hook) PROVE XhrInv'
<1> DEFINE f == [Frame EXCEPT !.after = AfterHook(hook)]
<1>1. /\ xhrStack # <<>> /\ Frame.after = hook /\ UNCHANGED <<entry, native, mock, delayTimer>>
      /\ netLog' = FinishIfPending(netLog, entry, HookStatus(hook))
      /\ HookStatus(hook) \in Statuses \ {"pending"}
  BY DEF xhrHook, Goes, HookStatus, Statuses
<1>2. Frame \in OnStack /\ Frame \in Frames BY <1>1, Taken DEF XhrInv
<1>3. /\ xhrStack' \in Seq(Frames)
      /\ \A g \in OnStack' :
           \/ g \in OnStack
           \/ /\ g.of = Frame.of /\ g.after # "open"
              /\ g.after \in MockAborts => hook \in MockAborts
  <2>1. CASE hook = "loadend"
    <3>1. xhrStack' = Tail(xhrStack) BY <2>1 DEF xhrHook, Return
    <3>2. QED BY <1>1, <3>1, Popped DEF XhrInv
  <2>2. CASE hook # "loadend"
    <3>1. Continue(AfterHook(hook)) BY <2>2 DEF xhrHook
    <3>2. AfterHook(hook) \in Afters /\ AfterHook(hook) # "open"
          /\ (AfterHook(hook) \in MockAborts => hook \in MockAborts)
      BY DEF AfterHook, Afters, Hooks, MockAborts, NativeAborts
    <3>3. /\ xhrStack' \in Seq(Frames) /\ f = [of |-> Frame.of, after |-> AfterHook(hook)]
          /\ \E rest : OnStack = {Frame} \cup rest /\ OnStack' = {f} \cup rest
      BY <1>1, <3>1, <3>2, FrameGoesOn DEF XhrInv
    <3>4. f.of = Frame.of /\ f.after = AfterHook(hook) BY <3>3
    <3> HIDE DEF f
    <3>5. QED BY <3>2, <3>3, <3>4
  <2>3. QED BY <2>1, <2>2
<1>4. Carries' BY <1>1, <1>3, SameNative
<1>5. ASSUME Len(netLog') = Len(netLog) PROVE MockIs'
  BY <1>1, <1>2, <1>3, <1>5 DEF XhrInv, MockIs
<1>6. native' \in Natives /\ delayTimer' \in Nat /\ mock' \in Mocks
  BY <1>1 DEF XhrInv, XhrTypeOK
<1>7. QED BY <1>1, <1>3, <1>4, <1>5, <1>6, EndsPending

LEMMA Fires ==
    ASSUME XhrTypeOK, NEW i \in Nat, NEW after \in Afters, xhrFire(i, after)
    PROVE  /\ xhrStack' \in Seq(Frames)
           /\ \E f : f.of = i /\ f.after = after /\ OnStack' = {f} \cup OnStack
           /\ \A e : Covered(xhrStack, e) /\ (after \in NativeAborts => i = e)
                => Covered(xhrStack', e)
<1> DEFINE f == [of |-> i, after |-> after]
<1>1. f \in Frames /\ f.of = i /\ f.after = after BY DEF Frames
<1>2. xhrStack' = <<f>> \o xhrStack BY DEF xhrFire
<1> HIDE DEF f
<1>3. /\ xhrStack' \in Seq(Frames) /\ OnStack' = {f} \cup OnStack
      /\ \A e : Covered(xhrStack, e) /\ (f.after \in NativeAborts => f.of = e)
           => Covered(xhrStack', e)
  BY <1>1, <1>2, Pushed
<1>4. QED BY <1>1, <1>3

LEMMA ReopenStep ==
    ASSUME XhrInv, Reopen, native' \in Natives, native'.state \notin {"starting", "sent", "done"},
           InOpen' => native'.state = "opened", xhrStack' \in Seq(Frames), OnStack' \subseteq OnStack
    PROVE  XhrInv'
<1>1. netLog' = FinishIfPending(netLog, entry, "aborted") /\ entry' = 0 /\ mock' = NoMock
      /\ delayTimer' = 0
  BY DEF Reopen
<1>2. NoMock \in Mocks /\ NoMock.state = 0 BY DEF NoMock, Mocks
<1>3. Carries' BY DEF Carries
<1>4. ASSUME Len(netLog') = Len(netLog) PROVE MockIs'
  BY <1>1, <1>2, <1>4 DEF XhrInv, MockIs
<1>5. "aborted" \in Statuses \ {"pending"} BY DEF Statuses
<1>6. QED BY <1>1, <1>2, <1>3, <1>4, <1>5, EndsPending

LEMMA OpenStep == ASSUME XhrInv, Careless = {}, Open PROVE XhrInv'
<1>1. native' = [state |-> "opened", of |-> 0] /\ ~InOpen BY DEF Open
<1>2. native' \in Natives /\ native'.state = "opened" BY <1>1 DEF Natives
<1>3. CASE Reopen /\ UNCHANGED xhrStack
  <2>1. xhrStack' \in Seq(Frames) /\ OnStack' \subseteq OnStack
    BY <1>3 DEF XhrInv, XhrTypeOK, OnStack
  <2>2. QED BY <1>2, <1>3, <2>1, ReopenStep
<1>4. CASE /\ xhrFire(0, "open")
           /\ UNCHANGED <<net, entry, netLog, wire, mock, delayed, delayTimer, refused, tangled>>
  <2>1. xhrStack' \in Seq(Frames) BY <1>4, Fires DEF XhrInv, Afters
  <2>2. PICK f : f.of = 0 /\ f.after = "open" /\ OnStack' = {f} \cup OnStack
    BY <1>4, Fires DEF XhrInv, Afters
  <2>3. XhrTypeOK' BY <1>2, <1>4, <2>1 DEF XhrInv, XhrTypeOK
  <2>4. Carries' BY <1>2 DEF Carries
  <2>5. Len(netLog) \in Nat BY DEF XhrInv, XhrTypeOK
  <2>6. MockIs' BY <1>4, <2>2, <2>5, SameMock DEF MockAborts
  <2>7. ASSUME Pending(entry) PROVE BeingSettled'
    <3>1. InOpen' BY <2>2 DEF InOpen
    <3>2. OnItsWay' BY <3>1 DEF OnItsWay
    <3>3. QED BY <1>2, <1>4, <2>7, <3>2, Awaited DEF BeingSettled
  <2>8. QED BY <1>4, <2>3, <2>4, <2>6, <2>7, StillPends
<1>5. QED BY <1>3, <1>4 DEF Open

LEMMA OpenedStep == ASSUME XhrInv, Opened PROVE XhrInv'
<1>1. Reopen /\ xhrStack # <<>> /\ Return /\ native' = native /\ Frame.after = "open"
  BY DEF Opened, Goes
<1>2. xhrStack' \in Seq(Frames) /\ OnStack = {Frame} \cup OnStack'
  BY <1>1, Popped DEF Return, XhrInv
<1>3. InOpen BY <1>1, <1>2 DEF InOpen
<1>4. native \in Natives /\ native.state = "opened" BY <1>3 DEF XhrInv, XhrTypeOK, Carries
<1>5. QED BY <1>1, <1>2, <1>4, ReopenStep

(* The page sends: nothing is under way, and the new entry is the current one. *)
LEMMA SendFacts ==
    ASSUME XhrInv, Careless = {}, CanSend, NotTwice, NEW status \in Statuses,
           NEW how \in {"network", "blocked", "mock"}, xhrLog(how, status)
    PROVE  /\ entry = 0 /\ mock = NoMock /\ ~InOpen
           /\ native \in Natives /\ native.state \notin {"starting", "sent", "done"}
           /\ Len(netLog) \in Nat /\ entry' = Len(netLog) + 1 /\ Len(netLog') = Len(netLog) + 1
           /\ netLog' \in Seq(LogEntries) /\ netLog'[entry'].status = status
           /\ \A i \in 1..Len(netLog) : netLog'[i] = netLog[i] /\ ~Pending(i)
<1>1. entry = 0 /\ mock = NoMock /\ ~InOpen BY DEF CanSend, NotTwice
<1>2. native \in Natives /\ native.state \notin {"starting", "sent", "done"}
  BY <1>1 DEF XhrInv, XhrTypeOK, Carries
<1>3. \A i \in 1..Len(netLog) : ~Pending(i) BY <1>1 DEF XhrInv, OnePending
<1> DEFINE new == [status |-> status, how |-> how]
<1>4. new \in LogEntries /\ new.status = status BY DEF LogEntries
<1>5. netLog' = Append(netLog, new) /\ entry' = Len(netLog) + 1 /\ netLog \in Seq(LogEntries)
  BY DEF xhrLog, XhrInv, XhrTypeOK
<1> HIDE DEF new
<1>6. QED BY <1>1, <1>2, <1>3, <1>4, <1>5

LEMMA NewEntry ==
    ASSUME XhrInv, Careless = {}, CanSend, NotTwice, NEW status \in Statuses,
           NEW how \in {"network", "blocked", "mock"}, xhrLog(how, status),
           native' \in Natives, mock' \in Mocks, delayTimer' \in Nat, xhrStack' \in Seq(Frames),
           Carries', MockIs', status = "pending" => BeingSettled'
    PROVE  XhrInv'
<1>1. XhrTypeOK' BY SendFacts DEF XhrTypeOK
<1>2. \A i \in 1..Len(netLog') : Pending(i)' => i = entry'
  <2> SUFFICES ASSUME NEW i \in 1..Len(netLog'), Pending(i)' PROVE i = entry' OBVIOUS
  <2>1. i \in 1..Len(netLog) \/ i = entry' BY SendFacts
  <2>2. ASSUME i \in 1..Len(netLog) PROVE FALSE BY <2>2, SendFacts DEF Pending
  <2>3. QED BY <2>1, <2>2
<1>3. Pending(entry)' => status = "pending" BY SendFacts DEF Pending
<1>4. QED BY <1>1, <1>2, <1>3 DEF XhrInv, OnePending

LEMMA SendRealStep == ASSUME XhrInv, Careless = {}, SendReal PROVE XhrInv'
<1>1. CanSend /\ NotTwice /\ xhrLog("network", "pending") /\ UNCHANGED <<mock, delayTimer>>
      /\ native' = [state |-> "starting", of |-> entry'] /\ xhrFire(entry', "goOut")
      /\ "pending" \in Statuses
  BY DEF SendReal, NativeSend, Statuses
<1>2. /\ entry = 0 /\ mock = NoMock /\ ~InOpen /\ Len(netLog) \in Nat
      /\ entry' = Len(netLog) + 1 /\ Len(netLog') = Len(netLog) + 1
  BY <1>1, SendFacts
<1>3. entry' \in Nat /\ entry' # 0 BY <1>2
<1>4. xhrStack' \in Seq(Frames) BY <1>1, <1>3, Fires DEF XhrInv, Afters
<1>5. PICK f : f.of = entry' /\ f.after = "goOut" /\ OnStack' = {f} \cup OnStack
  BY <1>1, <1>3, Fires DEF XhrInv, Afters
<1>6. native' \in Natives /\ native'.of = entry' /\ native'.state = "starting"
  BY <1>1, <1>3 DEF Natives
<1>7. mock' \in Mocks /\ delayTimer' \in Nat BY <1>1 DEF XhrInv, XhrTypeOK
<1>8. Carries'
  <2>1. ~InOpen' BY <1>2, <1>5 DEF InOpen
  <2>2. QED BY <1>3, <1>6, <2>1 DEF Carries
<1>9. MockIs'
  <2>1. \A g \in OnStack : g.of <= Len(netLog) /\ g.of \in Nat
    BY FramesAre DEF XhrInv, MockIs, Frames
  <2>2. mock.state = 0 BY <1>2 DEF NoMock
  <2>3. \A g \in OnStack' : g.of <= Len(netLog')
    BY <1>2, <1>5, <2>1
  <2>4. QED BY <1>1, <1>2, <2>2, <2>3 DEF MockIs
<1>10. BeingSettled'
  <2>1. OnItsWay' BY <1>1, <1>5, SettlesNow
  <2>2. QED BY <1>1, <1>2, <1>6, <2>1 DEF BeingSettled
<1>11. QED BY <1>1, <1>4, <1>6, <1>7, <1>8, <1>9, <1>10, NewEntry

(* The rules: nothing is sent, and the native object stays as it is. *)
LEMMA NotSent ==
    ASSUME XhrInv, Careless = {}, CanSend, NotTwice, NEW status \in Statuses,
           NEW how \in {"network", "blocked", "mock"}, xhrLog(how, status), native' = native,
           \A f \in OnStack' :
             \/ f \in OnStack
             \/ f.of = entry' /\ f.after # "open" /\ f.after \notin MockAborts,
           mock' = NoMock \/ mock'.of = entry'
    PROVE  Carries' /\ MockIs'
<1>1. /\ ~InOpen /\ Len(netLog) \in Nat /\ entry' = Len(netLog) + 1
      /\ native.state \notin {"starting", "sent", "done"} /\ Len(netLog') = Len(netLog) + 1
  BY SendFacts
<1>2. ~InOpen' BY <1>1 DEF InOpen
<1>3. Carries' BY <1>1, <1>2 DEF Carries
<1>4. \A g \in OnStack : g.of <= Len(netLog) /\ g.of \in Nat
  BY FramesAre DEF XhrInv, MockIs, Frames
<1>5. \A g \in OnStack' : g.of <= Len(netLog') BY <1>1, <1>4
<1>6. ASSUME NEW g \in OnStack', g.after \in MockAborts, g.of = mock'.of
      PROVE  mock'.state \in {0, 4}
  <2>1. g \in OnStack /\ g.of # entry' BY <1>1, <1>4, <1>6
  <2>2. mock' = NoMock BY <1>6, <2>1
  <2>3. QED BY <2>2 DEF NoMock
<1>7. MockIs' BY <1>1, <1>5, <1>6 DEF MockIs
<1>8. QED BY <1>3, <1>7

LEMMA SendBlockedStep == ASSUME XhrInv, Careless = {}, SendBlocked PROVE XhrInv'
<1>1. CanSend /\ NotTwice /\ xhrLog("blocked", "blocked")
      /\ UNCHANGED <<native, mock, delayTimer, xhrStack>> /\ "blocked" \in Statuses
  BY DEF SendBlocked, Statuses
<1>2. mock' = NoMock /\ OnStack' = OnStack BY <1>1, SendFacts DEF OnStack
<1>3. native' \in Natives /\ mock' \in Mocks /\ delayTimer' \in Nat /\ xhrStack' \in Seq(Frames)
  BY <1>1 DEF XhrInv, XhrTypeOK
<1>4. Carries' /\ MockIs' BY <1>1, <1>2, NotSent
<1>5. QED BY <1>1, <1>3, <1>4, NewEntry

LEMMA SendDelayedStep == ASSUME XhrInv, Careless = {}, SendDelayed PROVE XhrInv'
<1>1. CanSend /\ NotTwice /\ xhrLog("network", "pending")
      /\ UNCHANGED <<native, mock, xhrStack>> /\ "pending" \in Statuses
      /\ delayTimer' = entry' /\ entry' \in delayed'
  BY DEF SendDelayed, Statuses
<1>2. /\ mock' = NoMock /\ OnStack' = OnStack /\ entry' \in Nat
      /\ native.state \notin {"starting", "sent", "done"}
  <2>1. Len(netLog) \in Nat /\ entry' = Len(netLog) + 1 BY <1>1, SendFacts
  <2>2. QED BY <1>1, <2>1, SendFacts DEF OnStack
<1>3. native' \in Natives /\ mock' \in Mocks /\ delayTimer' \in Nat /\ xhrStack' \in Seq(Frames)
  BY <1>1, <1>2 DEF XhrInv, XhrTypeOK
<1>4. Carries' /\ MockIs' BY <1>1, <1>2, NotSent
<1>5. OnItsWay' BY <1>1 DEF OnItsWay
<1>6. BeingSettled' BY <1>1, <1>2, <1>5 DEF BeingSettled
<1>7. QED BY <1>1, <1>3, <1>4, <1>6, NewEntry

LEMMA SendMockedStep ==
    ASSUME XhrInv, Careless = {}, NEW timer \in {"answer", "timeout"}, SendMocked(timer)
    PROVE  XhrInv'
<1> DEFINE after == IF timer = "answer" THEN "armAnswer" ELSE "armTimeout"
<1>1. CanSend /\ NotTwice /\ xhrLog("mock", "pending") /\ UNCHANGED <<native, delayTimer>>
      /\ mock' = [of |-> entry', state |-> 1, timer |-> "none"] /\ xhrFire(entry', after)
      /\ "pending" \in Statuses
  BY DEF SendMocked, Statuses
<1>2. after \in {"armAnswer", "armTimeout"} OBVIOUS
<1> HIDE DEF after
<1>3. entry' \in Nat /\ native.state \notin {"starting", "sent", "done"}
  <2>1. Len(netLog) \in Nat /\ entry' = Len(netLog) + 1 BY <1>1, SendFacts
  <2>2. QED BY <1>1, <2>1, SendFacts
<1>4. after \in Afters /\ after # "open" /\ after \notin MockAborts BY <1>2 DEF Afters, MockAborts
<1>5. xhrStack' \in Seq(Frames) BY <1>1, <1>3, <1>4, Fires DEF XhrInv
<1>6. PICK f : f.of = entry' /\ f.after = after /\ OnStack' = {f} \cup OnStack
  BY <1>1, <1>3, <1>4, Fires DEF XhrInv
<1>7. mock' \in Mocks /\ mock'.of = entry' /\ mock'.state = 1 BY <1>1, <1>3 DEF Mocks
<1>8. Carries' /\ MockIs' BY <1>1, <1>4, <1>6, <1>7, NotSent
<1>9. BeingSettled'
  <2>1. OnItsWay' BY <1>2, <1>6, <1>7, SettlesNow DEF Moved
  <2>2. QED BY <1>1, <1>3, <1>7, <2>1 DEF BeingSettled
<1>10. native' \in Natives /\ delayTimer' \in Nat BY <1>1 DEF XhrInv, XhrTypeOK
<1>11. QED BY <1>1, <1>5, <1>7, <1>8, <1>9, <1>10, NewEntry

LEMMA SendMockedSyncStep == ASSUME XhrInv, Careless = {}, SendMockedSync PROVE XhrInv'
<1>1. CanSend /\ NotTwice /\ xhrLog("mock", "mocked") /\ UNCHANGED <<native, delayTimer>>
      /\ mock' = [of |-> entry', state |-> 4, timer |-> "none"] /\ xhrFire(entry', "answered")
      /\ "mocked" \in Statuses
  BY DEF SendMockedSync, Statuses
<1>2. entry' \in Nat
  <2>1. Len(netLog) \in Nat /\ entry' = Len(netLog) + 1 BY <1>1, SendFacts
  <2>2. QED BY <2>1
<1>3. xhrStack' \in Seq(Frames) BY <1>1, <1>2, Fires DEF XhrInv, Afters
<1>4. PICK f : f.of = entry' /\ f.after = "answered" /\ OnStack' = {f} \cup OnStack
  BY <1>1, <1>2, Fires DEF XhrInv, Afters
<1>5. mock' \in Mocks /\ mock'.of = entry' BY <1>1, <1>2 DEF Mocks
<1>6. "answered" # "open" /\ "answered" \notin MockAborts BY DEF MockAborts
<1>7. Carries' /\ MockIs' BY <1>1, <1>4, <1>5, <1>6, NotSent
<1>8. native' \in Natives /\ delayTimer' \in Nat BY <1>1 DEF XhrInv, XhrTypeOK
<1>9. QED BY <1>1, <1>3, <1>5, <1>7, <1>8, NewEntry

(* Tasks of their own: nothing is on the stack. *)
LEMMA Empty == ASSUME xhrStack = <<>> PROVE OnStack = {} /\ ~InOpen
BY DEF OnStack, InOpen

LEMMA BlockedEndsStep == ASSUME XhrInv, NEW i \in refused, BlockedEnds(i) PROVE XhrInv'
<1>1. UNCHANGED <<native, entry, netLog, mock, delayed, delayTimer>> BY DEF BlockedEnds
<1>2. CASE i = entry
  <2>1. xhrFire(entry, "error") /\ entry \in Nat BY <1>2 DEF BlockedEnds, XhrInv, XhrTypeOK
  <2>2. /\ xhrStack' \in Seq(Frames)
        /\ \A e : Covered(xhrStack, e) => Covered(xhrStack', e)
    BY <2>1, Fires DEF XhrInv, Afters, Hooks, NativeAborts
  <2>3. PICK f : f.of = entry /\ f.after = "error" /\ OnStack' = {f} \cup OnStack
    BY <2>1, Fires DEF XhrInv, Afters, Hooks
  <2>4. XhrTypeOK' BY <1>1, <2>2 DEF XhrInv, XhrTypeOK
  <2>5. Carries' BY <1>1, <2>3, SameNative
  <2>6. MockIs'
    <3>1. entry <= Len(netLog) BY DEF XhrInv, XhrTypeOK
    <3>2. QED BY <1>1, <2>3, <3>1, SameMock DEF MockAborts
  <2>7. ASSUME Pending(entry) PROVE BeingSettled'
    <3>1. OnItsWay' BY <1>1, <2>3, SettlesNow
    <3>2. QED BY <1>1, <2>2, <2>7, <3>1, Awaited DEF BeingSettled
  <2>8. QED BY <1>1, <2>4, <2>5, <2>6, <2>7, StillPends
<1>3. CASE i # entry
  <2>1. UNCHANGED xhrStack BY <1>3 DEF BlockedEnds
  <2>2. QED BY <1>1, <2>1 DEF XhrInv, XhrTypeOK, Carries, MockIs, OnePending, Pending,
             BeingSettled, OnItsWay, OnStack, InOpen, Settles, Moved
<1>4. QED BY <1>2, <1>3

LEMMA DelayOverStep == ASSUME XhrInv, NEW i \in delayed, DelayOver(i) PROVE XhrInv'
<1>1. /\ xhrStack = <<>> /\ delayed' = delayed \ {i} /\ UNCHANGED <<entry, mock>>
      /\ delayTimer' = IF delayTimer = i THEN 0 ELSE delayTimer
  BY DEF DelayOver
<1>2. delayTimer' \in Nat BY <1>1 DEF XhrInv, XhrTypeOK
<1>3. ~InOpen /\ OnStack = {} BY <1>1, Empty
<1>4. CASE i = entry /\ Pending(i) /\ native.state = "opened"
  <2>1. entry \in Nat /\ entry # 0 /\ entry <= Len(netLog) BY <1>4 DEF XhrInv, XhrTypeOK, Pending
  <2>2. native' = [state |-> "starting", of |-> entry] /\ xhrFire(entry, "goOut")
        /\ UNCHANGED netLog
    BY <1>4 DEF DelayOver, NativeSend
  <2>3. native' \in Natives /\ native'.state = "starting" /\ native'.of = entry
    BY <2>1, <2>2 DEF Natives
  <2>4. xhrStack' \in Seq(Frames) BY <2>1, <2>2, Fires DEF XhrInv, Afters
  <2>5. PICK f : f.of = entry /\ f.after = "goOut" /\ OnStack' = {f} \cup OnStack
    BY <2>1, <2>2, Fires DEF XhrInv, Afters
  <2>6. XhrTypeOK' BY <1>1, <1>2, <2>2, <2>3, <2>4 DEF XhrInv, XhrTypeOK
  <2>7. Carries'
    <3>1. ~InOpen' BY <1>3, <2>5 DEF InOpen
    <3>2. QED BY <1>1, <2>1, <2>3, <3>1 DEF Carries
  <2>8. MockIs' BY <1>1, <2>1, <2>2, <2>5, SameMock DEF MockAborts
  <2>9. BeingSettled'
    <3>1. OnItsWay' BY <1>1, <2>2, <2>5, SettlesNow
    <3>2. mock # NoMock => mock.state \in 1..3 BY <1>4, Awaited DEF BeingSettled
    <3>3. QED BY <1>1, <2>3, <3>1, <3>2 DEF BeingSettled
  <2>10. QED BY <1>1, <2>2, <2>6, <2>7, <2>8, <2>9, StillPends
<1>5. CASE i = entry /\ Pending(i) /\ native.state # "opened"
  <2>1. /\ netLog' = xhrFinish(netLog, entry, "error") /\ UNCHANGED <<native, xhrStack>>
        /\ entry # 0 /\ "error" \in Statuses \ {"pending"}
    BY <1>5 DEF DelayOver, Pending, Statuses
  <2>2. OnStack' = OnStack BY <2>1 DEF OnStack
  <2>3. Carries' BY <1>1, <2>1, <2>2, SameNative
  <2>4. ASSUME Len(netLog') = Len(netLog) PROVE MockIs' BY <1>1, <2>2, <2>4, SameMock
  <2>5. native' \in Natives /\ mock' \in Mocks /\ xhrStack' \in Seq(Frames)
    BY <1>1, <2>1 DEF XhrInv, XhrTypeOK
  <2>6. QED BY <1>1, <1>2, <2>1, <2>3, <2>4, <2>5, EndsPending
<1>6. CASE ~(i = entry /\ Pending(i))
  <2>1. UNCHANGED <<native, netLog, xhrStack>> BY <1>6 DEF DelayOver
  <2>2. OnStack' = OnStack BY <2>1 DEF OnStack
  <2>3. Carries' BY <1>1, <2>1, <2>2, SameNative
  <2>4. MockIs' BY <1>1, <2>1, <2>2, SameMock
  <2>5. XhrTypeOK' BY <1>1, <1>2, <2>1 DEF XhrInv, XhrTypeOK
  <2>6. ASSUME Pending(entry) PROVE BeingSettled'
    <3>1. i # entry BY <1>6, <2>6
    <3>2. entry \in delayed => entry' \in delayed' BY <1>1, <3>1
    <3>3. OnItsWay'
      BY <1>1, <1>3, <2>1, <2>2, <2>6, <3>2, Awaited DEF BeingSettled, OnItsWay, Moved
    <3>4. QED BY <1>1, <2>1, <2>6, <3>3, Awaited DEF BeingSettled
  <2>7. QED BY <1>1, <2>1, <2>3, <2>4, <2>5, <2>6, StillPends
<1>7. QED BY <1>4, <1>5, <1>6

LEMMA TimerStep == ASSUME XhrInv, TimerFires PROVE XhrInv'
<1>1. /\ xhrStack = <<>> /\ mock.timer # "none" /\ UNCHANGED <<native, entry, delayed, delayTimer>>
      /\ mock \in Mocks /\ mock # NoMock
  BY DEF TimerFires, XhrInv, XhrTypeOK, NoMock
<1>2. mock.of = entry /\ entry # 0 /\ entry \in Nat /\ entry <= Len(netLog)
  BY <1>1 DEF XhrInv, XhrTypeOK, MockIs
<1>3. ~InOpen /\ OnStack = {} BY <1>1, Empty
<1>4. \A state \in 0..4 :
        Disarmed(state) \in Mocks /\ Disarmed(state).of = entry /\ Disarmed(state).state = state
  BY <1>2 DEF Mocks, Disarmed
<1>5. CASE mock.state = 1 /\ mock.timer = "answer"
  <2>1. mock' = Disarmed(1) /\ xhrFire(entry, "uploaded") /\ UNCHANGED netLog
    BY <1>2, <1>5 DEF TimerFires
  <2>2. /\ xhrStack' \in Seq(Frames)
        /\ \A e : Covered(xhrStack, e) => Covered(xhrStack', e)
    BY <1>2, <2>1, Fires DEF XhrInv, Afters, NativeAborts
  <2>3. PICK f : f.of = entry /\ f.after = "uploaded" /\ OnStack' = {f} \cup OnStack
    BY <1>2, <2>1, Fires DEF XhrInv, Afters
  <2>4. XhrTypeOK' BY <1>1, <1>4, <2>1, <2>2 DEF XhrInv, XhrTypeOK
  <2>5. Carries' BY <1>1, <2>3, SameNative
  <2>6. MockIs' BY <1>1, <1>2, <1>4, <1>5, <2>1, <2>3, MockMoves DEF MockAborts
  <2>7. ASSUME Pending(entry) PROVE BeingSettled'
    <3>1. OnItsWay' BY <1>1, <1>4, <1>5, <2>1, <2>3, SettlesNow DEF Moved
    <3>2. QED BY <1>1, <1>4, <1>5, <2>1, <2>2, <2>7, <3>1, Awaited DEF BeingSettled
  <2>8. QED BY <1>1, <2>1, <2>4, <2>5, <2>6, <2>7, StillPends
<1>6. CASE mock.state = 1 /\ mock.timer # "answer"
  <2>1. /\ mock' = Disarmed(4) /\ netLog' = xhrFinish(netLog, entry, "timeout")
        /\ xhrFire(entry, "error")
    BY <1>2, <1>6 DEF TimerFires
  <2>2. mock' \in Mocks /\ mock'.of = entry /\ mock'.state = 4 BY <1>4, <2>1
  <2>3. xhrStack' \in Seq(Frames) BY <1>2, <2>1, Fires DEF XhrInv, Afters, Hooks
  <2>4. PICK f : f.of = entry /\ f.after = "error" /\ OnStack' = {f} \cup OnStack
    BY <1>2, <2>1, Fires DEF XhrInv, Afters, Hooks
  <2>5. Carries' BY <1>1, <2>4, SameNative
  <2>6. ASSUME Len(netLog') = Len(netLog) PROVE MockIs'
    BY <1>1, <1>2, <1>3, <2>2, <2>4, <2>6 DEF MockIs
  <2>7. native' \in Natives /\ delayTimer' \in Nat BY <1>1 DEF XhrInv, XhrTypeOK
  <2>8. "timeout" \in Statuses \ {"pending"} BY DEF Statuses
  <2>9. QED BY <1>1, <1>2, <2>1, <2>2, <2>3, <2>5, <2>6, <2>7, <2>8, EndsPending
<1>7. CASE mock.state # 1
  <2>1. mock' = Disarmed(mock.state) /\ UNCHANGED <<netLog, xhrStack>> /\ mock.state \in 0..4
    BY <1>1, <1>7 DEF TimerFires, Mocks
  <2>2. OnStack' = OnStack BY <2>1 DEF OnStack
  <2>3. Carries' BY <1>1, <2>1, <2>2, SameNative
  <2>4. MockIs' BY <1>1, <1>2, <1>3, <1>4, <2>1, <2>2 DEF MockIs
  <2>5. XhrTypeOK' BY <1>1, <1>4, <2>1 DEF XhrInv, XhrTypeOK
  <2>6. ASSUME Pending(entry) PROVE BeingSettled'
    <3>1. OnItsWay'
      BY <1>1, <1>3, <1>7, <2>1, <2>2, <2>6, Awaited DEF BeingSettled, OnItsWay, Moved
    <3>2. QED BY <1>1, <1>4, <2>1, <2>6, <3>1, Awaited DEF BeingSettled
  <2>7. QED BY <1>1, <2>1, <2>3, <2>4, <2>5, <2>6, StillPends
<1>8. QED BY <1>5, <1>6, <1>7

LEMMA RearmStep == ASSUME XhrInv, NEW timer \in {"answer", "timeout"}, Rearm(timer) PROVE XhrInv'
<1>1. /\ mock.timer # "none" /\ mock' = [mock EXCEPT !.timer = timer]
      /\ UNCHANGED <<native, entry, netLog, delayed, delayTimer, xhrStack>>
      /\ mock \in Mocks
  BY DEF Rearm, XhrInv, XhrTypeOK
<1>2. mock' \in Mocks /\ mock'.of = mock.of /\ mock'.state = mock.state /\ mock'.timer = timer
  BY <1>1 DEF Mocks
<1>3. mock # NoMock BY <1>1 DEF NoMock
<1>4. OnStack' = OnStack BY <1>1 DEF OnStack
<1>5. Carries' BY <1>1, <1>4, SameNative
<1>6. MockIs' BY <1>1, <1>2, <1>3, <1>4 DEF XhrInv, MockIs
<1>7. XhrTypeOK' BY <1>1, <1>2 DEF XhrInv, XhrTypeOK
<1>8. ASSUME Pending(entry) PROVE BeingSettled'
  <2>1. OnItsWay /\ mock.state \in 1..3 /\ (native.state = "done" => Covered(xhrStack, entry))
    BY <1>3, <1>8, Awaited DEF BeingSettled
  <2>2. \A i, state : Moved(i, state)' <=> Moved(i, state) BY <1>2 DEF Moved
  <2>3. \A f \in OnStack : Settles(f) => Settles(f)'
    BY <1>1, <1>2 DEF Settles, Moved
  <2>4. InOpen => InOpen' BY <1>4 DEF InOpen
  <2>5. OnItsWay' BY <1>1, <1>2, <1>4, <2>1, <2>3, <2>4 DEF OnItsWay, Moved
  <2>6. QED BY <1>1, <1>2, <2>1, <2>5 DEF BeingSettled
<1>9. QED BY <1>1, <1>5, <1>6, <1>7, <1>8, StillPends

(* abort(): the entry is closed, or the events that close it are fired. *)
LEMMA MockAbortStep == ASSUME XhrInv, xhrMockAbort PROVE XhrInv'
<1>1. mock # NoMock /\ UNCHANGED <<native, entry, delayed, delayTimer>> /\ mock \in Mocks
  BY DEF xhrMockAbort, XhrInv, XhrTypeOK
<1>2. mock.of = entry /\ entry # 0 /\ entry \in Nat /\ entry <= Len(netLog)
  BY <1>1 DEF XhrInv, XhrTypeOK, MockIs
<1>3. CASE mock.state \in 1..3
  <2>1. /\ mock' = Disarmed(4)
        /\ netLog' = FinishIfPending(netLog, entry, "aborted") /\ xhrFire(entry, "aborts")
    BY <1>2, <1>3 DEF xhrMockAbort
  <2>2. mock' \in Mocks /\ mock'.of = entry /\ mock'.state = 4
    BY <1>2, <2>1 DEF Mocks, Disarmed
  <2>3. xhrStack' \in Seq(Frames) BY <1>2, <2>1, Fires DEF XhrInv, Afters, MockAborts
  <2>4. PICK f : f.of = entry /\ f.after = "aborts" /\ OnStack' = {f} \cup OnStack
    BY <1>2, <2>1, Fires DEF XhrInv, Afters, MockAborts
  <2>5. Carries' BY <1>1, <2>4, SameNative
  <2>6. ASSUME Len(netLog') = Len(netLog) PROVE MockIs'
    BY <1>1, <1>2, <2>2, <2>4, <2>6 DEF XhrInv, MockIs
  <2>7. native' \in Natives /\ delayTimer' \in Nat BY <1>1 DEF XhrInv, XhrTypeOK
  <2>8. "aborted" \in Statuses \ {"pending"} BY DEF Statuses
  <2>9. QED BY <1>1, <2>1, <2>2, <2>3, <2>5, <2>6, <2>7, <2>8, EndsPending
<1>4. CASE mock.state \notin 1..3
  <2>1. mock' = Disarmed(0) /\ UNCHANGED <<netLog, xhrStack>>
    BY <1>4 DEF xhrMockAbort
  <2>2. mock' \in Mocks /\ mock'.of = entry /\ mock'.state = 0
    BY <1>2, <2>1 DEF Mocks, Disarmed
  <2>3. OnStack' = OnStack BY <2>1 DEF OnStack
  <2>4. Carries' BY <1>1, <2>3, SameNative
  <2>5. MockIs' BY <1>1, <1>2, <2>1, <2>2, <2>3 DEF XhrInv, MockIs
  <2>6. XhrTypeOK' BY <1>1, <2>1, <2>2 DEF XhrInv, XhrTypeOK
  <2>7. ~Pending(entry) BY <1>1, <1>4, Awaited DEF BeingSettled
  <2>8. QED BY <1>1, <2>1, <2>4, <2>5, <2>6, <2>7, StillPends
<1>5. QED BY <1>3, <1>4

LEMMA MockResetStep == ASSUME XhrInv, MockReset PROVE XhrInv'
<1>1. /\ xhrStack # <<>> /\ Return /\ Frame.after = "reset"
      /\ UNCHANGED <<native, entry, netLog, delayed, delayTimer>>
      /\ mock' = IF mock.of = Frame.of THEN [mock EXCEPT !.state = 0] ELSE mock
  BY DEF MockReset, Goes
<1>2. Frame \in OnStack /\ Frame.after \in MockAborts /\ ~Settles(Frame)
      /\ Frame.after \notin NativeAborts \cup {"open"}
  BY <1>1, Taken DEF XhrInv, MockAborts, NativeAborts, Settles
<1>3. CASE mock.of = Frame.of /\ mock # NoMock
  <2>1. mock.state \in {0, 4} BY <1>2, <1>3 DEF XhrInv, MockIs
  <2>2. ~Pending(entry) BY <1>3, <2>1, Awaited DEF BeingSettled
  <2>3. mock' \in Mocks /\ mock'.of = mock.of /\ mock'.state = 0
    BY <1>1, <1>3 DEF XhrInv, XhrTypeOK, Mocks
  <2>4. xhrStack' \in Seq(Frames) /\ OnStack = {Frame} \cup OnStack'
    BY <1>1, Popped DEF Return, XhrInv
  <2>5. XhrTypeOK' BY <1>1, <2>3, <2>4 DEF XhrInv, XhrTypeOK
  <2>6. Carries' BY <1>1, <2>4, SameNative
  <2>7. MockIs' BY <1>1, <1>3, <2>3, <2>4, MockMoves
  <2>8. QED BY <1>1, <2>2, <2>5, <2>6, <2>7, StillPends
<1>4. CASE ~(mock.of = Frame.of /\ mock # NoMock)
  <2>1. mock' = mock
    <3>1. CASE mock = NoMock BY <1>1, <3>1 DEF NoMock
    <3>2. QED BY <1>1, <1>4, <3>1
  <2>2. QED BY <1>1, <1>2, <2>1, PopKeeps
<1>5. QED BY <1>3, <1>4

LEMMA AbortDelayedStep == ASSUME XhrInv, AbortDelayed PROVE XhrInv'
<1>1. /\ UNCHANGED <<native, entry, mock>> /\ delayTimer' = 0 /\ entry \in Nat
      /\ netLog' = FinishIfPending(netLog, entry, "aborted") /\ xhrFire(entry, "abort")
      /\ entry <= Len(netLog)
  BY DEF AbortDelayed, XhrInv, XhrTypeOK
<1>2. xhrStack' \in Seq(Frames) BY <1>1, Fires DEF XhrInv, Afters, Hooks
<1>3. PICK f : f.of = entry /\ f.after = "abort" /\ OnStack' = {f} \cup OnStack
  BY <1>1, Fires DEF XhrInv, Afters, Hooks
<1>4. Carries' BY <1>1, <1>3, SameNative
<1>5. ASSUME Len(netLog') = Len(netLog) PROVE MockIs'
  BY <1>1, <1>3, <1>5, SameMock DEF MockAborts
<1>6. native' \in Natives /\ mock' \in Mocks /\ delayTimer' \in Nat
  BY <1>1 DEF XhrInv, XhrTypeOK
<1>7. "aborted" \in Statuses \ {"pending"} BY DEF Statuses
<1>8. QED BY <1>1, <1>2, <1>4, <1>5, <1>6, <1>7, EndsPending

LEMMA AbortRealStep == ASSUME XhrInv, AbortReal PROVE XhrInv'
<1>1. UNCHANGED <<entry, mock, delayed, delayTimer>> /\ native \in Natives
      /\ entry \in Nat /\ entry <= Len(netLog)
  BY DEF AbortReal, XhrInv, XhrTypeOK
<1>2. CASE AbortInFlight
  <2>1. /\ native' = [native EXCEPT !.state = "done"] /\ xhrFire(entry, "nativeAbort")
        /\ UNCHANGED netLog /\ native.state \in {"starting", "sent"}
    BY <1>2 DEF AbortInFlight
  <2>2. native' \in Natives /\ native'.state = "done" /\ native'.of = native.of
    BY <1>1, <2>1 DEF Natives
  <2>3. native.of = entry /\ entry # 0 /\ ~InOpen BY <2>1 DEF XhrInv, Carries
  <2>4. xhrStack' \in Seq(Frames) BY <1>1, <2>1, Fires DEF XhrInv, Afters, Hooks
  <2>5. PICK f : f.of = entry /\ f.after = "nativeAbort" /\ OnStack' = {f} \cup OnStack
    BY <1>1, <2>1, Fires DEF XhrInv, Afters, Hooks
  <2>6. XhrTypeOK' BY <1>1, <2>1, <2>2, <2>4 DEF XhrInv, XhrTypeOK
  <2>7. Carries'
    <3>1. ~InOpen' BY <2>3, <2>5 DEF InOpen
    <3>2. QED BY <1>1, <2>2, <2>3, <3>1 DEF Carries
  <2>8. MockIs' BY <1>1, <2>1, <2>5, SameMock DEF MockAborts
  <2>9. ASSUME Pending(entry) PROVE BeingSettled'
    <3>1. OnItsWay' BY <1>1, <2>5, SettlesNow
    <3>2. Covered(xhrStack', entry)
      <4> SUFFICES ASSUME NEW k \in 1..Len(xhrStack')
                   PROVE  \E j \in 1..k : xhrStack'[j].after \in NativeAborts
                                          /\ xhrStack'[j].of = entry
        BY DEF Covered
      <4>1. xhrStack'[1] = [of |-> entry, after |-> "nativeAbort"] /\ 1 \in 1..k
        BY <2>1 DEF xhrFire, XhrInv, XhrTypeOK
      <4>2. xhrStack'[1].of = entry /\ xhrStack'[1].after \in NativeAborts
        BY <4>1 DEF NativeAborts
      <4>3. QED BY <4>1, <4>2
    <3>3. QED BY <1>1, <2>9, <3>1, <3>2, Awaited DEF BeingSettled
  <2>10. QED BY <1>1, <2>1, <2>6, <2>7, <2>8, <2>9, StillPends
<1>3. CASE /\ native.state \notin {"starting", "sent"}
           /\ NativeUnsent /\ UNCHANGED xhrStack
           /\ netLog' = FinishIfPending(netLog, entry, "aborted")
  <2>1. native' \in Natives /\ (native' = native \/ native'.state = "unsent")
    BY <1>1, <1>3 DEF NativeUnsent, Natives
  <2>2. OnStack' = OnStack BY <1>3 DEF OnStack
  <2>3. Carries'
    <3>1. CASE native' = native BY <1>1, <2>2, <3>1, SameNative
    <3>2. CASE native' # native
      <4>1. native.state = "done" /\ native'.state = "unsent" BY <1>3, <2>1, <3>2 DEF NativeUnsent
      <4>2. ~InOpen BY <4>1 DEF XhrInv, Carries
      <4>3. QED BY <2>2, <4>1, <4>2 DEF Carries, InOpen
    <3>3. QED BY <3>1, <3>2
  <2>4. ASSUME Len(netLog') = Len(netLog) PROVE MockIs' BY <1>1, <2>2, <2>4, SameMock
  <2>5. mock' \in Mocks /\ delayTimer' \in Nat /\ xhrStack' \in Seq(Frames)
    BY <1>1, <1>3 DEF XhrInv, XhrTypeOK
  <2>6. "aborted" \in Statuses \ {"pending"} BY DEF Statuses
  <2>7. QED BY <1>1, <1>3, <2>1, <2>3, <2>4, <2>5, <2>6, EndsPending
<1>4. QED BY <1>2, <1>3 DEF AbortReal

LEMMA AbortReturnsStep == ASSUME XhrInv, AbortReturns PROVE XhrInv'
<1>1. /\ xhrStack # <<>> /\ Return /\ Frame.after = "unsent" /\ NativeUnsent
      /\ UNCHANGED <<entry, mock, delayed, delayTimer>>
      /\ netLog' = FinishIfPending(netLog, Frame.of, "aborted")
      /\ native \in Natives
  BY DEF AbortReturns, Goes, XhrInv, XhrTypeOK
<1>2. xhrStack' \in Seq(Frames) /\ OnStack = {Frame} \cup OnStack' /\ Frame \in Frames
  BY <1>1, Popped DEF Return, XhrInv
<1>3. native' \in Natives /\ (native' # native => native'.state = "unsent" /\ native.state = "done")
  BY <1>1 DEF NativeUnsent, Natives
<1>4. Carries'
  <2>1. CASE native' = native BY <1>1, <1>2, <2>1, SameNative
  <2>2. CASE native' # native
    <3>1. ~InOpen BY <1>3, <2>2 DEF XhrInv, Carries
    <3>2. ~InOpen' BY <1>2, <3>1 DEF InOpen
    <3>3. QED BY <1>3, <2>2, <3>2 DEF Carries
  <2>3. QED BY <2>1, <2>2
<1>5. ASSUME Len(netLog') = Len(netLog) PROVE MockIs' BY <1>1, <1>2, <1>5, SameMock
<1>6. CASE Frame.of = entry
  <2>1. mock' \in Mocks /\ delayTimer' \in Nat /\ "aborted" \in Statuses \ {"pending"}
    BY <1>1 DEF XhrInv, XhrTypeOK, Statuses
  <2>2. QED BY <1>1, <1>2, <1>3, <1>4, <1>5, <1>6, <2>1, EndsPending
<1>7. CASE Frame.of # entry
  <2>1. ~(Frame.of # 0 /\ netLog[Frame.of].status = "pending")
    <3>1. Frame \in OnStack BY <1>2
    <3>2. Frame.of \in Nat /\ Frame.of <= Len(netLog)
      BY <1>2, <3>1 DEF XhrInv, MockIs, Frames
    <3>3. Frame.of # 0 => Frame.of \in 1..Len(netLog) BY <3>2 DEF XhrInv, XhrTypeOK
    <3>4. QED BY <1>7, <3>3 DEF XhrInv, OnePending, Pending
  <2>2. netLog' = netLog BY <1>1, <2>1 DEF FinishIfPending
  <2>3. MockIs' BY <1>5, <2>2
  <2>4. XhrTypeOK' BY <1>1, <1>2, <1>3, <2>2 DEF XhrInv, XhrTypeOK
  <2>5. ASSUME Pending(entry) PROVE BeingSettled'
    <3>1. BeingSettled BY <2>5, Awaited
    <3>2. native.state # "done"
      <4> SUFFICES ASSUME native.state = "done" PROVE FALSE OBVIOUS
      <4>1. 1 \in 1..Len(xhrStack) /\ xhrStack[1] = Frame
        BY <1>1 DEF XhrInv, XhrTypeOK, Frame
      <4>2. xhrStack[1].after \in NativeAborts BY <1>1, <4>1 DEF NativeAborts
      <4>3. \E j \in 1..1 : xhrStack[j].of = entry BY <3>1, <4>1, <4>2 DEF BeingSettled, Covered
      <4>4. QED BY <1>7, <4>1, <4>3
    <3>3. native' = native BY <1>3, <3>2
    <3>4. \A f \in OnStack : Settles(f) => f \in OnStack' /\ Settles(f)'
      <4> SUFFICES ASSUME NEW f \in OnStack, Settles(f) PROVE f \in OnStack' /\ Settles(f)'
        OBVIOUS
      <4>1. f # Frame BY <1>7 DEF Settles
      <4>2. Settles(f)' BY <1>1, <3>3 DEF Settles, Moved
      <4>3. QED BY <1>2, <4>1, <4>2
    <3>5. InOpen => InOpen' BY <1>1, <1>2 DEF InOpen
    <3>6. OnItsWay' BY <1>1, <3>1, <3>3, <3>4, <3>5 DEF BeingSettled, OnItsWay, Moved
    <3>7. QED BY <1>1, <3>1, <3>2, <3>3, <3>6 DEF BeingSettled
  <2>6. QED BY <1>1, <1>4, <2>2, <2>3, <2>4, <2>5, StillPends
<1>8. QED BY <1>6, <1>7

(* The network answers. *)
LEMMA NativeDoneStep ==
    ASSUME XhrInv, NEW event \in {"loads", "error"}, NativeDone(event) PROVE XhrInv'
<1>1. /\ xhrStack = <<>> /\ native.state = "sent" /\ native' = [native EXCEPT !.state = "done"]
      /\ xhrFire(native.of, event) /\ UNCHANGED <<entry, netLog, mock, delayed, delayTimer>>
      /\ native \in Natives /\ entry \in Nat /\ entry <= Len(netLog)
  BY DEF NativeDone, XhrInv, XhrTypeOK
<1>2. native.of = entry /\ entry # 0 BY <1>1 DEF XhrInv, Carries
<1>3. native' \in Natives /\ native'.state = "done" /\ native'.of = entry
  BY <1>1, <1>2 DEF Natives
<1>4. event \in Afters /\ event # "open" /\ event \notin MockAborts \cup NativeAborts
  BY DEF Afters, Hooks, MockAborts, NativeAborts
<1>5. /\ xhrStack' \in Seq(Frames)
      /\ \A e : Covered(xhrStack, e) => Covered(xhrStack', e)
  BY <1>1, <1>2, <1>4, Fires DEF XhrInv
<1>6. PICK f : f.of = entry /\ f.after = event /\ OnStack' = {f} \cup OnStack
  BY <1>1, <1>2, <1>4, Fires DEF XhrInv
<1>7. XhrTypeOK' BY <1>1, <1>3, <1>5 DEF XhrInv, XhrTypeOK
<1>8. Carries'
  <2>1. ~InOpen' BY <1>1, <1>4, <1>6, Empty DEF InOpen
  <2>2. QED BY <1>1, <1>2, <1>3, <2>1 DEF Carries
<1>9. MockIs' BY <1>1, <1>4, <1>6, SameMock
<1>10. ASSUME Pending(entry) PROVE BeingSettled'
  <2>1. OnItsWay' BY <1>1, <1>3, <1>6, SettlesNow
  <2>2. Covered(xhrStack, entry) BY <1>1 DEF Covered
  <2>3. QED BY <1>1, <1>5, <1>10, <2>1, <2>2, Awaited DEF BeingSettled
<1>11. QED BY <1>1, <1>7, <1>8, <1>9, <1>10, StillPends

LEMMA NativeLoadsStep == ASSUME XhrInv, NativeLoads PROVE XhrInv'
<1> DEFINE f == [Frame EXCEPT !.after = "load"]
<1>1. /\ xhrStack # <<>> /\ Frame.after = "loads" /\ Frame \in OnStack
      /\ UNCHANGED <<native, entry, netLog, mock, delayed, delayTimer>>
      /\ Frame.after \notin NativeAborts \cup {"open"} /\ "load" \notin NativeAborts \cup MockAborts
  BY Taken DEF NativeLoads, Goes, XhrInv, NativeAborts, MockAborts
<1>2. CASE native.state = "done"
  <2>1. Continue("load") /\ "load" \in Afters BY <1>2 DEF NativeLoads, Afters, Hooks
  <2>2. /\ xhrStack' \in Seq(Frames) /\ f = [of |-> Frame.of, after |-> "load"]
        /\ \E rest : OnStack = {Frame} \cup rest /\ OnStack' = {f} \cup rest
        /\ \A e : Covered(xhrStack, e) => Covered(xhrStack', e)
    BY <1>1, <2>1, FrameGoesOn DEF XhrInv
  <2>3. f.of = Frame.of /\ f.after = "load" /\ f \in OnStack' BY <2>2
  <2> HIDE DEF f
  <2>4. XhrTypeOK' BY <1>1, <2>2 DEF XhrInv, XhrTypeOK
  <2>5. Carries' BY <1>1, <2>2, <2>3, SameNative
  <2>6. MockIs'
    <3>1. Frame.of <= Len(netLog) BY <1>1 DEF XhrInv, MockIs
    <3>2. QED BY <1>1, <2>2, <2>3, <3>1, SameMock
  <2>7. ASSUME Pending(entry) PROVE BeingSettled'
    <3>1. BeingSettled BY <2>7, Awaited
    <3>2. \A g \in OnStack : Settles(g) => Settles(g)' BY <1>1 DEF Settles, Moved
    <3>3. InOpen => InOpen' BY <1>1, <2>2 DEF InOpen
    <3>4. CASE Frame.of = entry
      <4>1. f.of = entry' BY <1>1, <2>3, <3>4
      <4>2. OnItsWay' BY <2>3, <4>1, SettlesNow
      <4>3. QED BY <1>1, <2>2, <3>1, <4>2 DEF BeingSettled
    <3>5. CASE Frame.of # entry
      <4>1. ~Settles(Frame) BY <3>5 DEF Settles
      <4>2. \A g \in OnStack : Settles(g) => g \in OnStack' BY <2>2, <4>1
      <4>3. OnItsWay'
        BY <1>1, <3>1, <3>2, <3>3, <4>2 DEF BeingSettled, OnItsWay, Moved
      <4>4. QED BY <1>1, <2>2, <3>1, <4>3 DEF BeingSettled
    <3>6. QED BY <3>4, <3>5
  <2>8. QED BY <1>1, <2>4, <2>5, <2>6, <2>7, StillPends
<1>3. CASE native.state # "done"
  <2>1. Return BY <1>3 DEF NativeLoads
  <2>2. ~Settles(Frame) BY <1>1, <1>3 DEF Settles
  <2>3. QED BY <1>1, <2>1, <2>2, PopKeeps
<1>4. QED BY <1>2, <1>3

(* One XMLHttpRequest, as long as page handlers neither send again without  *)
(* open() nor open and send inside open(): however many requests the page   *)
(* sends, and however deep its handlers nest, an entry is pending only      *)
(* while it is the current one and something will still settle it.          *)
THEOREM PendingIsOnItsWayAlways ==
    ASSUME Careless = {} PROVE XhrSpec => []PendingIsOnItsWay
<1>1. XhrInit => XhrInv
  <2> SUFFICES ASSUME XhrInit PROVE XhrInv OBVIOUS
  <2>1. netLog = <<>> /\ entry = 0 /\ xhrStack = <<>> /\ native = [state |-> "unsent", of |-> 0]
        /\ mock = NoMock /\ delayTimer = 0
    BY DEF XhrInit
  <2>2. OnStack = {} /\ ~InOpen BY <2>1, Empty
  <2>3. native \in Natives /\ mock \in Mocks /\ native.state = "unsent"
    BY <2>1 DEF Natives, Mocks, NoMock
  <2>4. XhrTypeOK BY <2>1, <2>3 DEF XhrTypeOK
  <2>5. QED BY <2>1, <2>2, <2>3, <2>4 DEF XhrInv, Carries, MockIs, OnePending, Pending
<1>2. XhrInv /\ [XhrNext]_xhrVars => XhrInv'
  <2> SUFFICES ASSUME XhrInv, [XhrNext]_xhrVars PROVE XhrInv' OBVIOUS
  <2>1. CASE UNCHANGED xhrVars
    BY <2>1 DEF xhrVars, XhrInv, XhrTypeOK, Carries, MockIs, OnePending, Pending,
       BeingSettled, OnItsWay, OnStack, InOpen, Settles, Moved
  <2>2. SendThrows => UNCHANGED xhrVars BY DEF SendThrows
  <2>3. \A timer \in {"answer", "timeout"} :
          SendMocked(timer) \/ Rearm(timer) \/ Arm(timer) => XhrInv'
    BY SendMockedStep, RearmStep, ArmStep
  <2>4. Advance("uploaded", 1, "headers") \/ Advance("headers", 2, "loading") => XhrInv'
    BY AdvanceStep
  <2>5. StillDone("answered", "load") \/ StillDone("aborts", "mockAbort")
          \/ StillDone("ends", "mockEnd") => XhrInv'
    BY StillDoneStep
  <2>6. /\ Abandon("uploaded", 1) \/ Abandon("headers", 2) \/ Abandon("loading", 3) => XhrInv'
        /\ Abandon("answered", 4) \/ Abandon("aborts", 4) \/ Abandon("ends", 4) => XhrInv'
    BY AbandonStep
  <2>7. CASE XhrNext
    BY <2>1, <2>2, <2>3, <2>4, <2>5, <2>6, <2>7, OpenStep, OpenedStep, SendRealStep,
       GoOutStep, SendBlockedStep, SendDelayedStep, SendMockedSyncStep, DelayOverStep,
       BlockedEndsStep, TimerStep, MockEndStep, MockAbortStep, MockResetStep,
       AbortDelayedStep, AbortRealStep, AbortReturnsStep, NativeDoneStep,
       NativeLoadsStep, HookStep DEF XhrNext
  <2>8. QED BY <2>1, <2>7
<1>3. XhrInv => PendingIsOnItsWay
  <2> SUFFICES ASSUME XhrInv, NEW i \in DOMAIN netLog, Pending(i) PROVE i = entry /\ OnItsWay
    BY DEF PendingIsOnItsWay
  <2>1. i = entry BY DEF XhrInv, XhrTypeOK, OnePending
  <2>2. Pending(entry) BY <2>1 DEF Pending
  <2>3. QED BY <2>1, <2>2, Awaited DEF BeingSettled
<1>4. QED BY <1>1, <1>2, <1>3, PTL DEF XhrSpec

-----------------------------------------------------------------------------

(***************************************************************************)
(* CallsAreTold for any calls, waiters and ring. What an entry tells       *)
(* follows from where its call is on its way (TellsOf), and every call     *)
(* that is neither lost nor unseen has one entry that was not superseded   *)
(* (ShowsOnce, ShowsAll); a full ring keeps both, because what it drops is *)
(* counted as lost (LogGrows). That a message over postMessage is that of  *)
(* its call needs that a call goes there only after its fetch has failed,  *)
(* and so does that page code which imitates a call is seen to: a call     *)
(* under way is always shown, by a message or by a fetch that has not      *)
(* failed (LookAlikeKeeps).                                                *)
(***************************************************************************)

States == {"none", "done"} \cup Under
Entries == [call : Calls \cup {"other"}, via : {"fetch", "post"},
            status : {"blocked", "pending", "answered", "error", "unobserved"},
            mocked : BOOLEAN, superseded : BOOLEAN, body : BOOLEAN, contested : BOOLEAN,
            staged : BOOLEAN]
Rules == [action : Actions \cup {"none"}, once : BOOLEAN]
Captures == [fetch : BOOLEAN, post : BOOLEAN, responses : {"untried", "yes", "no"},
             fallback : BOOLEAN]
Waitings == [state : {"none", "waiting", "true", "false"}, began : SUBSET Calls]

IpcTypeOK ==
  /\ call \in [Calls -> States] /\ ran \subseteq Calls /\ ipcLog \in Seq(Entries)
  /\ lost \subseteq Calls /\ unseen \subseteq Calls
  /\ rule \in Rules /\ ruled \in BOOLEAN /\ tauriPosts \in BOOLEAN
  /\ capture \in Captures /\ hooked \in BOOLEAN /\ mapped \in BOOLEAN
  /\ waiter \in [Waiters -> Waitings] /\ others \in Nat

(* What an entry of a call tells, by where the call is on its way. *)
AsPosted == IF mapped THEN "pending" ELSE "unobserved"
TellsOf(e, at) ==
  /\ at # "none" /\ ~e.staged
  /\ at \in {"held", "mocking", "real"} => e.via = "fetch" /\ ~e.superseded /\ e.status = "pending"
  /\ at = "reading" => e.via = "fetch" /\ ~e.superseded /\ e.status = "answered"
  /\ at = "failed" => e.via = "fetch" /\ ~e.superseded /\ fetchWasRetriable(e)
  /\ at = "posted" => \/ e.via = "post" /\ e.status = AsPosted
                      \/ e.via = "fetch" /\ (e.superseded \/ e.call \in unseen)
OutcomeTrue(e, at) ==
  /\ e.mocked => e.call \notin ran /\ at = "done"
  /\ ~e.mocked /\ e.status = "answered" => e.call \in ran
PostSeen(e) == e.via = "post" => capture.post /\ capture.responses = IF mapped THEN "yes" ELSE "no"
Tells(log) ==
  \A i \in 1..Len(log) : log[i].call \in Calls =>
    TellsOf(log[i], call[log[i].call]) /\ OutcomeTrue(log[i], call[log[i].call]) /\ PostSeen(log[i])

(* Every call that can be seen is shown, by one entry. *)
ShowsOnce(log) ==
  \A i, j \in 1..Len(log) :
    log[i].call \in Calls /\ log[j].call = log[i].call /\ ~log[i].superseded /\ ~log[j].superseded
      => i = j
ShowsAll(log) ==
  \A c \in Calls : call[c] # "none" /\ c \notin lost \cup unseen =>
    \E i \in 1..Len(log) : log[i].call = c /\ ~log[i].superseded

(* What ran, and what is not seen. *)
RanIsKnown ==
  \A c \in Calls : /\ call[c] \in {"none", "held", "mocking"} => c \notin ran
                   /\ call[c] = "reading" => c \in ran
UnseenIsKnown ==
  /\ unseen # {} => ~hooked /\ tauriPosts
  /\ capture.fetch /\ tauriPosts => capture.fallback

IpcInv ==
  /\ IpcTypeOK /\ Tells(ipcLog) /\ ShowsOnce(ipcLog) /\ ShowsAll(ipcLog)
  /\ RanIsKnown /\ UnseenIsKnown /\ CompletionWakes
-----------------------------------------------------------------------------
(* The ring and its entries. *)
Appends(new, log, e) == new = appendCapped(log, e)

LEMMA AppendedRoom ==
    ASSUME NEW log \in Seq(Entries), NEW e \in Entries, NEW new, Appends(new, log, e)
    PROVE  Len(log) < CapNetwork =>
             /\ new \in Seq(Entries) /\ Len(new) = Len(log) + 1 /\ new[Len(new)] = e
             /\ \A i \in 1..(Len(new) - 1) : new[i] = log[i] /\ i \in 1..Len(log)
<1> SUFFICES ASSUME Len(log) < CapNetwork
             PROVE  /\ new \in Seq(Entries) /\ Len(new) = Len(log) + 1 /\ new[Len(new)] = e
                    /\ \A i \in 1..(Len(new) - 1) : new[i] = log[i] /\ i \in 1..Len(log)
  OBVIOUS
<1>1. new = Append(log, e) BY DEF Appends, appendCapped
<1>2. QED BY <1>1

LEMMA AppendedFull ==
    ASSUME NEW log \in Seq(Entries), NEW e \in Entries, NEW new, Appends(new, log, e)
    PROVE  ~(Len(log) < CapNetwork) =>
             /\ new \in Seq(Entries) /\ Len(new) = Len(log) /\ Len(log) >= 1 /\ new[Len(new)] = e
             /\ \A i \in 1..(Len(new) - 1) : new[i] = log[i + 1] /\ i + 1 \in 1..Len(log)
<1> SUFFICES ASSUME ~(Len(log) < CapNetwork)
             PROVE  /\ new \in Seq(Entries) /\ Len(new) = Len(log) /\ Len(log) >= 1
                    /\ new[Len(new)] = e
                    /\ \A i \in 1..(Len(new) - 1) : new[i] = log[i + 1] /\ i + 1 \in 1..Len(log)
  OBVIOUS
<1>1. new = Append(Tail(log), e) BY DEF Appends, appendCapped
<1>2. Len(log) \in Nat /\ Len(log) >= 1 /\ log # <<>> BY PageIpcAssumption
<1>3. /\ Tail(log) \in Seq(Entries) /\ Len(Tail(log)) = Len(log) - 1
      /\ \A i \in 1..Len(Tail(log)) : Tail(log)[i] = log[i + 1]
  BY <1>2
<1> DEFINE t == Tail(log)
<1>4. t \in Seq(Entries) /\ Len(t) = Len(log) - 1 BY <1>3
<1>5. \A i \in 1..Len(t) : t[i] = log[i + 1] BY <1>3
<1>6. new = Append(t, e) BY <1>1
<1> HIDE DEF t
<1>7. /\ new \in Seq(Entries) /\ Len(new) = Len(t) + 1 /\ new[Len(t) + 1] = e
      /\ \A i \in 1..Len(t) : new[i] = t[i]
  BY <1>4, <1>6
<1>8. QED BY <1>2, <1>4, <1>5, <1>7

LEMMA EvictsHead ==
    ASSUME NEW log \in Seq(Entries), ~(Len(log) < CapNetwork), NEW c \in Calls,
           c \notin Evicts(log)
    PROVE  log[1].call = c => log[1].superseded
BY DEF Evicts

LEMMA EvictsCalls == ASSUME NEW log PROVE Evicts(log) \subseteq Calls
BY DEF Evicts

LEMMA SettledFacts ==
    ASSUME IpcTypeOK, NEW c \in Calls, NEW via \in {"fetch", "post"}, NEW mocked \in BOOLEAN,
           NEW body \in BOOLEAN,
           NEW status \in {"answered", "error"}
    PROVE  LET new == Settled(c, via, status, mocked, body)
           IN  /\ new \in Seq(Entries) /\ Len(new) = Len(ipcLog)
               /\ \A i \in 1..Len(ipcLog) :
                    /\ new[i].call = ipcLog[i].call /\ new[i].via = ipcLog[i].via
                    /\ new[i].superseded = ipcLog[i].superseded /\ new[i].staged = ipcLog[i].staged
                    /\ i \notin Of(c, via) => new[i] = ipcLog[i]
                    /\ i \in Of(c, via) => new[i].status = status /\ new[i].mocked = mocked
<1> DEFINE new == Settled(c, via, status, mocked, body)
<1>1. DOMAIN ipcLog = 1..Len(ipcLog) /\ Len(ipcLog) \in Nat BY DEF IpcTypeOK
<1>2. ASSUME NEW i \in 1..Len(ipcLog)
      PROVE  /\ new[i] \in Entries
             /\ new[i].call = ipcLog[i].call /\ new[i].via = ipcLog[i].via
             /\ new[i].superseded = ipcLog[i].superseded /\ new[i].staged = ipcLog[i].staged
             /\ i \notin Of(c, via) => new[i] = ipcLog[i]
             /\ i \in Of(c, via) => new[i].status = status /\ new[i].mocked = mocked
  <2> DEFINE e == ipcLog[i]
             f == [e EXCEPT !.status = status, !.mocked = mocked, !.body = body]
  <2>1. e \in Entries BY DEF IpcTypeOK
  <2>2. new[i] = IF i \in Of(c, via) THEN f ELSE e BY <1>1 DEF Settled
  <2> HIDE DEF e
  <2>3. f \in Entries BY <2>1, Zenon DEF Entries
  <2>4. f.call = e.call /\ f.via = e.via /\ f.superseded = e.superseded /\ f.staged = e.staged
    BY <2>1 DEF Entries
  <2>5. f.status = status /\ f.mocked = mocked BY <2>1 DEF Entries
  <2> HIDE DEF f, new
  <2>6. QED BY <2>1, <2>2, <2>3, <2>4, <2>5 DEF e
<1>3. new \in [1..Len(ipcLog) -> Entries]
  <2>1. new = [i \in 1..Len(ipcLog) |-> new[i]] BY <1>1 DEF Settled
  <2> HIDE DEF new
  <2>2. QED BY <1>2, <2>1
<1> HIDE DEF new
<1>4. new \in Seq(Entries) /\ Len(new) = Len(ipcLog) BY <1>1, <1>3
<1>5. QED BY <1>2, <1>4 DEF new

LEMMA SupersededFacts ==
    ASSUME IpcTypeOK, NEW c \in Calls
    PROVE  /\ Superseded(c) \in Seq(Entries) /\ Len(Superseded(c)) = Len(ipcLog)
           /\ \A i \in 1..Len(ipcLog) :
                LET e == Superseded(c)[i]
                IN  /\ e.call = ipcLog[i].call /\ e.via = ipcLog[i].via
                    /\ i \notin Of(c, "fetch") => e = ipcLog[i]
                    /\ i \in Of(c, "fetch") =>
                         /\ e.superseded /\ e.staged = ipcLog[i].staged
                         /\ e.mocked = ipcLog[i].mocked /\ e.status = ipcLog[i].status
<1> DEFINE new == Superseded(c)
<1>1. DOMAIN ipcLog = 1..Len(ipcLog) /\ Len(ipcLog) \in Nat BY DEF IpcTypeOK
<1>2. ASSUME NEW i \in 1..Len(ipcLog)
      PROVE  /\ new[i] \in Entries
             /\ new[i].call = ipcLog[i].call /\ new[i].via = ipcLog[i].via
             /\ i \notin Of(c, "fetch") => new[i] = ipcLog[i]
             /\ i \in Of(c, "fetch") =>
                  /\ new[i].superseded /\ new[i].staged = ipcLog[i].staged
                  /\ new[i].mocked = ipcLog[i].mocked /\ new[i].status = ipcLog[i].status
  <2> DEFINE e == ipcLog[i]
             f == [e EXCEPT !.superseded = TRUE]
  <2>1. e \in Entries BY DEF IpcTypeOK
  <2>2. new[i] = IF i \in Of(c, "fetch") THEN f ELSE e BY <1>1 DEF Superseded
  <2> HIDE DEF e
  <2>3. f \in Entries BY <2>1, Zenon DEF Entries
  <2>4. f.call = e.call /\ f.via = e.via /\ f.staged = e.staged /\ f.mocked = e.mocked
        /\ f.status = e.status /\ f.superseded
    BY <2>1 DEF Entries
  <2> HIDE DEF f, new
  <2>5. QED BY <2>1, <2>2, <2>3, <2>4 DEF e
<1>3. new \in [1..Len(ipcLog) -> Entries]
  <2>1. new = [i \in 1..Len(ipcLog) |-> new[i]] BY <1>1 DEF Superseded
  <2> HIDE DEF new
  <2>2. QED BY <1>2, <2>1
<1> HIDE DEF new
<1>4. new \in Seq(Entries) /\ Len(new) = Len(ipcLog) BY <1>1, <1>3
<1>5. QED BY <1>2, <1>4 DEF new

LEMMA EntryFacts ==
    ASSUME NEW c \in Calls \cup {"other"}, NEW via \in {"fetch", "post"},
           NEW status \in {"blocked", "pending", "answered", "error", "unobserved"}
    PROVE  LET e == Entry(c, via, status)
           IN  /\ e \in Entries /\ e.call = c /\ e.via = via /\ e.status = status
               /\ ~e.mocked /\ ~e.superseded /\ ~e.staged
BY DEF Entry, Entries

LEMMA LogIsOfCalls ==
    ASSUME IpcTypeOK
    PROVE  /\ Len(ipcLog) \in Nat /\ DOMAIN ipcLog = 1..Len(ipcLog)
           /\ \A i \in 1..Len(ipcLog) : ipcLog[i] \in Entries /\ ipcLog[i].via \in {"fetch", "post"}
<1>1. \A e \in Entries : e.via \in {"fetch", "post"} BY DEF Entries
<1>2. QED BY <1>1 DEF IpcTypeOK

EntryTells(e) ==
  e.call \in Calls => TellsOf(e, call[e.call]) /\ OutcomeTrue(e, call[e.call]) /\ PostSeen(e)

LEMMA TellsIs == ASSUME NEW log PROVE Tells(log) <=> \A i \in 1..Len(log) : EntryTells(log[i])
BY DEF Tells, EntryTells

(* The log takes in an entry, of a call it does not show or of other traffic. *)
LEMMA LogGrows ==
    ASSUME NEW log \in Seq(Entries), NEW e \in Entries,
           ipcLog' = appendCapped(log, e), lost' = lost \cup Evicts(log),
           \A i \in 1..Len(log) : EntryTells(log[i])', EntryTells(e)',
           ShowsOnce(log), ~e.superseded,
           e.call \in Calls => \A i \in 1..Len(log) : log[i].call = e.call => log[i].superseded,
           \A d \in Calls : call'[d] # "none" /\ d \notin lost \cup unseen' =>
             d = e.call \/ \E i \in 1..Len(log) : log[i].call = d /\ ~log[i].superseded
    PROVE  /\ ipcLog' \in Seq(Entries)
           /\ Tells(ipcLog)' /\ ShowsOnce(ipcLog)' /\ ShowsAll(ipcLog)'
<1>1. /\ ipcLog' \in Seq(Entries) /\ Len(ipcLog') >= 1 /\ ipcLog'[Len(ipcLog')] = e
      /\ Len(log) < CapNetwork =>
           /\ Len(ipcLog') = Len(log) + 1
           /\ \A i \in 1..(Len(ipcLog') - 1) : ipcLog'[i] = log[i] /\ i \in 1..Len(log)
      /\ ~(Len(log) < CapNetwork) =>
           /\ Len(ipcLog') = Len(log) /\ Len(log) >= 1
           /\ \A i \in 1..(Len(ipcLog') - 1) : ipcLog'[i] = log[i + 1] /\ i + 1 \in 1..Len(log)
  <2>1. Appends(ipcLog', log, e) BY DEF Appends
  <2>2. Len(log) < CapNetwork =>
          /\ ipcLog' \in Seq(Entries) /\ Len(ipcLog') = Len(log) + 1 /\ ipcLog'[Len(ipcLog')] = e
          /\ \A i \in 1..(Len(ipcLog') - 1) : ipcLog'[i] = log[i] /\ i \in 1..Len(log)
    BY <2>1, AppendedRoom
  <2>3. ~(Len(log) < CapNetwork) =>
          /\ ipcLog' \in Seq(Entries) /\ Len(ipcLog') = Len(log) /\ Len(log) >= 1
          /\ ipcLog'[Len(ipcLog')] = e
          /\ \A i \in 1..(Len(ipcLog') - 1) : ipcLog'[i] = log[i + 1] /\ i + 1 \in 1..Len(log)
    BY <2>1, AppendedFull
  <2>4. QED BY <2>2, <2>3
<1>2. PICK d \in {0, 1} :
        /\ Len(ipcLog') = Len(log) + 1 - d
        /\ \A i \in 1..(Len(ipcLog') - 1) : ipcLog'[i] = log[i + d] /\ i + d \in 1..Len(log)
        /\ d = 1 => ~(Len(log) < CapNetwork)
  <2>1. CASE Len(log) < CapNetwork
    <3>1. \A i \in 1..(Len(ipcLog') - 1) : i + 0 = i OBVIOUS
    <3>2. Len(ipcLog') = Len(log) + 1 - 0 BY <1>1, <2>1
    <3>3. QED BY <1>1, <2>1, <3>1, <3>2
  <2>2. CASE ~(Len(log) < CapNetwork)
    <3>1. Len(ipcLog') = Len(log) + 1 - 1 BY <1>1, <2>2
    <3>2. QED BY <1>1, <2>2, <3>1
  <2>3. QED BY <2>1, <2>2
<1>3. Len(ipcLog') \in Nat /\ Len(log) \in Nat /\ Len(ipcLog') >= 1 BY <1>1
<1>4. Tells(ipcLog)'
  <2>1. \A i \in 1..Len(ipcLog') : EntryTells(ipcLog[i])'
    <3> SUFFICES ASSUME NEW i \in 1..Len(ipcLog') PROVE EntryTells(ipcLog[i])' OBVIOUS
    <3>1. CASE i = Len(ipcLog')
      BY <1>1, <3>1 DEF EntryTells, TellsOf, OutcomeTrue, PostSeen
    <3>2. CASE i \in 1..(Len(ipcLog') - 1)
      <4>1. i + d \in 1..Len(log) /\ ipcLog'[i] = log[i + d] BY <1>2, <3>2
      <4>2. EntryTells(log[i + d])' BY <4>1
      <4>3. QED BY <4>1, <4>2 DEF EntryTells, TellsOf, OutcomeTrue, PostSeen
    <3>3. QED BY <1>1, <3>1, <3>2
  <2>2. QED BY <2>1 DEF Tells, EntryTells
<1>5. ShowsOnce(ipcLog)'
  <2> SUFFICES ASSUME NEW i \in 1..Len(ipcLog'), NEW j \in 1..Len(ipcLog'),
                      ipcLog'[i].call \in Calls, ipcLog'[j].call = ipcLog'[i].call,
                      ~ipcLog'[i].superseded, ~ipcLog'[j].superseded
               PROVE  i = j
    BY DEF ShowsOnce
  <2>1. CASE i \in 1..(Len(ipcLog') - 1) /\ j \in 1..(Len(ipcLog') - 1)
    <3>1. /\ i + d \in 1..Len(log) /\ ipcLog'[i] = log[i + d]
          /\ j + d \in 1..Len(log) /\ ipcLog'[j] = log[j + d]
      BY <1>2, <2>1
    <3>2. i + d = j + d BY <3>1 DEF ShowsOnce
    <3>3. QED BY <3>2
  <2>2. CASE i = Len(ipcLog') /\ j \in 1..(Len(ipcLog') - 1)
    <3>1. ipcLog'[i] = e BY <1>1, <2>2
    <3>2. ipcLog'[j] = log[j + d] /\ j + d \in 1..Len(log) BY <1>2, <2>2
    <3>3. QED BY <3>1, <3>2
  <2>3. CASE j = Len(ipcLog') /\ i \in 1..(Len(ipcLog') - 1)
    <3>1. ipcLog'[j] = e BY <1>1, <2>3
    <3>2. ipcLog'[i] = log[i + d] /\ i + d \in 1..Len(log) BY <1>2, <2>3
    <3>3. QED BY <3>1, <3>2
  <2>4. QED BY <1>1, <2>1, <2>2, <2>3
<1>6. ShowsAll(ipcLog)'
  <2> SUFFICES ASSUME NEW c \in Calls, call'[c] # "none", c \notin lost' \cup unseen'
               PROVE  \E i \in 1..Len(ipcLog') : ipcLog'[i].call = c /\ ~ipcLog'[i].superseded
    BY DEF ShowsAll
  <2>1. CASE c = e.call BY <1>1, <1>3, <2>1
  <2>2. CASE c # e.call
    <3>1. PICK i \in 1..Len(log) : log[i].call = c /\ ~log[i].superseded BY <2>2
    <3>2. i - d \in 1..(Len(ipcLog') - 1)
      <4>1. d = 1 => i # 1 BY <1>2, <3>1, EvictsHead
      <4>2. QED BY <1>2, <1>3, <4>1
    <3>3. (i - d) + d = i BY <1>2
    <3>4. ipcLog'[i - d] = log[i] BY <1>2, <3>2, <3>3
    <3>5. i - d \in 1..Len(ipcLog') BY <1>3, <3>2
    <3>6. QED BY <3>1, <3>4, <3>5
  <2>3. QED BY <2>1, <2>2
<1>7. QED BY <1>1, <1>4, <1>5, <1>6

(* A call goes on, and entries of it are settled. *)
LEMMA LogSettles ==
    ASSUME IpcInv, ipcLog' \in Seq(Entries), NEW c \in Calls, call[c] # "none",
           call' = [call EXCEPT ![c] = call'[c]], call' \in [Calls -> States], call'[c] # "none",
           Len(ipcLog') = Len(ipcLog),
           \A i \in 1..Len(ipcLog) :
             /\ ipcLog'[i].call = ipcLog[i].call /\ ipcLog'[i].superseded = ipcLog[i].superseded
             /\ ipcLog[i].call # c => ipcLog'[i] = ipcLog[i]
             /\ ipcLog[i].call = c => EntryTells(ipcLog[i])',
           UNCHANGED <<lost, unseen, capture, mapped>>, ran' \in {ran, ran \cup {c}}
    PROVE  Tells(ipcLog)' /\ ShowsOnce(ipcLog)' /\ ShowsAll(ipcLog)'
<1>1. \A d \in Calls : d # c => call'[d] = call[d] /\ (d \in ran' <=> d \in ran)
  BY DEF IpcInv, IpcTypeOK
<1>2. Tells(ipcLog)'
  <2>1. ASSUME NEW i \in 1..Len(ipcLog') PROVE EntryTells(ipcLog[i])'
    <3>1. CASE ipcLog[i].call = c BY <3>1
    <3>2. CASE ipcLog[i].call # c
      <4>1. EntryTells(ipcLog[i]) BY TellsIs DEF IpcInv, Tells, EntryTells
      <4>2. ipcLog'[i] = ipcLog[i] BY <3>2
      <4>3. QED BY <1>1, <3>2, <4>1, <4>2 DEF EntryTells, TellsOf, OutcomeTrue,
                   PostSeen, AsPosted, fetchWasRetriable
    <3>3. QED BY <3>1, <3>2
  <2>2. QED BY <2>1 DEF Tells, EntryTells
<1>3. ShowsOnce(ipcLog)' BY DEF IpcInv, ShowsOnce
<1>4. ShowsAll(ipcLog)' BY <1>1 DEF IpcInv, ShowsAll
<1>5. QED BY <1>2, <1>3, <1>4

(* A step that leaves the log and the calls alone. *)
LEMMA LogStands ==
    ASSUME IpcInv, UNCHANGED <<ipcLog, call, lost, ran, unseen, capture, mapped>>
    PROVE  Tells(ipcLog)' /\ ShowsOnce(ipcLog)' /\ ShowsAll(ipcLog)' /\ RanIsKnown'
<1>1. Tells(ipcLog)'
  BY DEF IpcInv, Tells, TellsOf, OutcomeTrue, PostSeen, AsPosted, fetchWasRetriable
<1>2. ShowsOnce(ipcLog)' /\ ShowsAll(ipcLog)' BY DEF IpcInv, ShowsOnce, ShowsAll
<1>3. RanIsKnown' BY DEF IpcInv, RanIsKnown
<1>4. QED BY <1>1, <1>2, <1>3

(* The waiters: woken, or waiting on while what they wait for goes on. *)
LEMMA WaitersWake ==
    ASSUME IpcTypeOK, flushIpcWaiters
    PROVE  waiter' \in [Waiters -> Waitings] /\ CompletionWakes'
<1> DEFINE new(w) == IF waiter[w].state = "waiting" THEN [waiter[w] EXCEPT !.state = "true"]
                     ELSE waiter[w]
<1>1. waiter' = [w \in Waiters |-> new(w)] BY DEF flushIpcWaiters
<1>2. ASSUME NEW w \in Waiters PROVE new(w) \in Waitings /\ new(w).state # "waiting"
  <2>1. waiter[w] \in Waitings BY DEF IpcTypeOK
  <2>2. QED BY <2>1 DEF Waitings
<1> HIDE DEF new
<1>3. waiter' \in [Waiters -> Waitings] BY <1>1, <1>2
<1>4. \A w \in Waiters : waiter'[w].state # "waiting" BY <1>1, <1>2
<1>5. QED BY <1>3, <1>4 DEF CompletionWakes

LEMMA WaitersWait ==
    ASSUME IpcInv, UNCHANGED <<waiter, mapped>>, unseen \subseteq unseen',
           mapped => UnderWay \subseteq UnderWay' \cup unseen'
    PROVE  CompletionWakes'
<1> SUFFICES ASSUME NEW w \in Waiters, waiter[w].state = "waiting"
             PROVE  waiter[w].began \ unseen' \subseteq IF mapped THEN UnderWay' ELSE Calls
  BY DEF CompletionWakes
<1>1. waiter[w].began \ unseen \subseteq IF mapped THEN UnderWay ELSE Calls
  BY DEF IpcInv, CompletionWakes
<1>2. CASE mapped BY <1>1, <1>2
<1>3. CASE ~mapped BY <1>1, <1>3
<1>4. QED BY <1>2, <1>3

LEMMA GoesOn ==
    ASSUME IpcTypeOK, NEW c \in Calls, NEW s \in States, call' = [call EXCEPT ![c] = s]
    PROVE  /\ call' \in [Calls -> States] /\ call'[c] = s
           /\ \A d \in Calls : d # c => call'[d] = call[d]
           /\ s # "none" /\ s # "done" => UnderWay \subseteq UnderWay'
BY DEF IpcTypeOK, UnderWay, States

(* The entries of one call, while another goes on. *)
LEMMA OthersTell ==
    ASSUME NEW e, EntryTells(e), NEW c \in Calls, e.call # c,
           \A d \in Calls : d # c => call'[d] = call[d] /\ (d \in ran' <=> d \in ran),
           unseen \subseteq unseen', mapped' = mapped,
           e.via = "post" /\ PostSeen(e) => PostSeen(e)'
    PROVE  EntryTells(e)'
<1> SUFFICES ASSUME e.call \in Calls
             PROVE  TellsOf(e, call[e.call])' /\ OutcomeTrue(e, call[e.call])' /\ PostSeen(e)'
  BY DEF EntryTells
<1>1. call'[e.call] = call[e.call] OBVIOUS
<1>2. TellsOf(e, call[e.call]) /\ OutcomeTrue(e, call[e.call]) /\ PostSeen(e)
  BY DEF EntryTells
<1>3. TellsOf(e, call[e.call])'
  BY <1>1, <1>2 DEF TellsOf, AsPosted, fetchWasRetriable
<1>4. OutcomeTrue(e, call[e.call])' BY <1>1, <1>2 DEF OutcomeTrue
<1>5. PostSeen(e)' BY <1>2 DEF PostSeen
<1>6. QED BY <1>3, <1>4, <1>5

(* An entry as the log has it. *)
LEMMA EntryOf ==
    ASSUME IpcInv, NEW i \in 1..Len(ipcLog)
    PROVE  ipcLog[i] \in Entries /\ EntryTells(ipcLog[i])
BY TellsIs DEF IpcInv, IpcTypeOK

(* A call goes on and its entries stay as they are. *)
LEMMA CallGoesOn ==
    ASSUME IpcInv, NEW c \in Calls, NEW s \in States \ {"none"}, call' = [call EXCEPT ![c] = s],
           call[c] # "none",
           \A e \in Entries : e.call = c /\ EntryTells(e) => EntryTells(e)',
           UNCHANGED <<ipcLog, lost, unseen, capture, mapped>>, ran' \in {ran, ran \cup {c}}
    PROVE  Tells(ipcLog)' /\ ShowsOnce(ipcLog)' /\ ShowsAll(ipcLog)'
<1>1. call' \in [Calls -> States] /\ call'[c] = s /\ call' = [call EXCEPT ![c] = call'[c]]
  BY GoesOn DEF IpcInv, IpcTypeOK
<1>2. ASSUME NEW i \in 1..Len(ipcLog), ipcLog[i].call = c PROVE EntryTells(ipcLog[i])'
  <2>1. PICK e \in Entries : e = ipcLog[i] /\ EntryTells(e) BY EntryOf
  <2>2. EntryTells(e)' BY <1>2, <2>1
  <2>3. e = ipcLog'[i] BY <2>1
  <2>4. QED BY <2>2, <2>3 DEF EntryTells, TellsOf, OutcomeTrue, PostSeen, AsPosted,
               fetchWasRetriable
<1>3. ipcLog' \in Seq(Entries) BY DEF IpcInv, IpcTypeOK
<1>4. QED BY <1>1, <1>2, <1>3, LogSettles

(* A call goes on and the entries of one transport are settled. *)
SettlesTo(c, via, status, mocked, e, f) ==
  /\ e.call = c /\ f.call = c /\ f.via = e.via
  /\ f.superseded = e.superseded /\ f.staged = e.staged
  /\ e.via = via => f.status = status /\ f.mocked = mocked
  /\ e.via # via => f = e

LEMMA CallSettles ==
    ASSUME IpcInv, NEW c \in Calls, NEW s \in States \ {"none"}, call' = [call EXCEPT ![c] = s],
           call[c] # "none", NEW via \in {"fetch", "post"}, NEW status \in {"answered", "error"},
           NEW mocked \in BOOLEAN, NEW body \in BOOLEAN,
           ipcLog' = Settled(c, via, status, mocked, body),
           \A e, f \in Entries :
             EntryTells(e) /\ SettlesTo(c, via, status, mocked, e, f) => EntryTells(f)',
           UNCHANGED <<lost, unseen, capture, mapped, ran>>
    PROVE  /\ ipcLog' \in Seq(Entries)
           /\ Tells(ipcLog)' /\ ShowsOnce(ipcLog)' /\ ShowsAll(ipcLog)'
<1>1. call' \in [Calls -> States] /\ call'[c] = s /\ call' = [call EXCEPT ![c] = call'[c]]
  BY GoesOn DEF IpcInv, IpcTypeOK
<1>2. /\ ipcLog' \in Seq(Entries) /\ Len(ipcLog') = Len(ipcLog)
      /\ \A i \in 1..Len(ipcLog) :
           /\ ipcLog'[i].call = ipcLog[i].call /\ ipcLog'[i].via = ipcLog[i].via
           /\ ipcLog'[i].superseded = ipcLog[i].superseded /\ ipcLog'[i].staged = ipcLog[i].staged
           /\ i \notin Of(c, via) => ipcLog'[i] = ipcLog[i]
           /\ i \in Of(c, via) => ipcLog'[i].status = status /\ ipcLog'[i].mocked = mocked
  <2>1. IpcTypeOK BY DEF IpcInv
  <2>2. PICK new : new = Settled(c, via, status, mocked, body) OBVIOUS
  <2>3. /\ new \in Seq(Entries) /\ Len(new) = Len(ipcLog)
        /\ \A i \in 1..Len(ipcLog) :
             /\ new[i].call = ipcLog[i].call /\ new[i].via = ipcLog[i].via
             /\ new[i].superseded = ipcLog[i].superseded /\ new[i].staged = ipcLog[i].staged
             /\ i \notin Of(c, via) => new[i] = ipcLog[i]
             /\ i \in Of(c, via) => new[i].status = status /\ new[i].mocked = mocked
    BY <2>1, <2>2, SettledFacts
  <2>4. QED BY <2>2, <2>3
<1>3. \A i \in 1..Len(ipcLog) : i \in Of(c, via) <=> ipcLog[i].call = c /\ ipcLog[i].via = via
  <2>1. IpcTypeOK BY DEF IpcInv
  <2>2. QED BY <2>1, LogIsOfCalls DEF Of
<1>4. ASSUME NEW i \in 1..Len(ipcLog), ipcLog[i].call = c PROVE EntryTells(ipcLog[i])'
  <2>1. PICK e \in Entries : e = ipcLog[i] /\ EntryTells(e) BY EntryOf
  <2>2. PICK f \in Entries : f = ipcLog'[i] BY <1>2
  <2>3. SettlesTo(c, via, status, mocked, e, f)
    BY <1>2, <1>3, <1>4, <2>1, <2>2 DEF SettlesTo
  <2>4. EntryTells(f)' BY <2>1, <2>3
  <2>5. QED BY <2>2, <2>4 DEF EntryTells, TellsOf, OutcomeTrue, PostSeen, AsPosted,
               fetchWasRetriable
<1>5. \A i \in 1..Len(ipcLog) : ipcLog[i].call # c => ipcLog'[i] = ipcLog[i]
  BY <1>2, <1>3
<1>6. QED BY <1>1, <1>2, <1>4, <1>5, LogSettles
-----------------------------------------------------------------------------
(* The actions, one by one. *)
LEMMA HeldBackKeeps ==
    ASSUME IpcInv, NEW c \in Calls, HeldBack(c)
    PROVE  IpcInv'
<1>1. /\ call' = [call EXCEPT ![c] = "real"] /\ call[c] = "held"
      /\ UNCHANGED <<ran, ipcLog, lost, unseen, rule, ruled, tauriPosts, capture, hooked,
                     mapped, waiter, others>>
  BY DEF HeldBack
<1>2. "real" \in States \ {"none"} BY DEF States, Under
<1>3. /\ call' \in [Calls -> States] /\ call'[c] = "real"
      /\ \A d \in Calls : d # c => call'[d] = call[d]
      /\ UnderWay \subseteq UnderWay'
  BY <1>1, <1>2, GoesOn DEF IpcInv
<1>4. IpcTypeOK' BY <1>1, <1>3 DEF IpcInv, IpcTypeOK
<1>5. ASSUME NEW e \in Entries, e.call = c, EntryTells(e) PROVE EntryTells(e)'
  BY <1>1, <1>3, <1>5 DEF EntryTells, TellsOf, OutcomeTrue, PostSeen
<1>6. Tells(ipcLog)' /\ ShowsOnce(ipcLog)' /\ ShowsAll(ipcLog)'
  BY <1>1, <1>2, <1>5, CallGoesOn
<1>7. RanIsKnown' BY <1>1, <1>3 DEF IpcInv, RanIsKnown
<1>8. UnseenIsKnown' BY <1>1 DEF IpcInv, UnseenIsKnown
<1>9. CompletionWakes' BY <1>1, <1>3, WaitersWait
<1>10. QED BY <1>4, <1>6, <1>7, <1>8, <1>9 DEF IpcInv

LEMMA HandleKeeps ==
    ASSUME IpcInv, NEW c \in Calls, Handle(c)
    PROVE  IpcInv'
<1>1. /\ ran' = ran \cup {c} /\ call[c] \in {"real", "posted"} /\ c \notin ran
      /\ UNCHANGED <<call, ipcLog, lost, unseen, rule, ruled, tauriPosts, capture, hooked,
                     mapped, waiter, others>>
  BY DEF Handle
<1>2. call[c] \in States \ {"none"} /\ call' = [call EXCEPT ![c] = call[c]]
  BY <1>1 DEF IpcInv, IpcTypeOK, States
<1>3. IpcTypeOK' BY <1>1 DEF IpcInv, IpcTypeOK
<1>4. ASSUME NEW e \in Entries, e.call = c, EntryTells(e) PROVE EntryTells(e)'
  BY <1>1, <1>4 DEF EntryTells, TellsOf, OutcomeTrue, PostSeen, AsPosted
<1>5. Tells(ipcLog)' /\ ShowsOnce(ipcLog)' /\ ShowsAll(ipcLog)'
  <2>1. call[c] # "none" BY <1>1
  <2>2. QED BY <1>1, <1>2, <1>4, <2>1, CallGoesOn
<1>6. RanIsKnown' BY <1>1 DEF IpcInv, RanIsKnown
<1>7. UnseenIsKnown' BY <1>1 DEF IpcInv, UnseenIsKnown
<1>8. CompletionWakes' BY <1>1, WaitersWait DEF UnderWay
<1>9. QED BY <1>3, <1>5, <1>6, <1>7, <1>8 DEF IpcInv

LEMMA makeRespKeeps ==
    ASSUME IpcInv, NEW c \in Calls, makeResp(c)
    PROVE  IpcInv'
<1>1. /\ call' = [call EXCEPT ![c] = "done"] /\ call[c] = "mocking" /\ flushIpcWaiters
      /\ ipcLog' = Settled(c, "fetch", "answered", TRUE, TRUE)
      /\ UNCHANGED <<ran, lost, unseen, rule, ruled, tauriPosts, capture, hooked, mapped, others>>
  BY DEF makeResp
<1>2. "done" \in States \ {"none"} BY DEF States
<1>3. /\ call' \in [Calls -> States] /\ call'[c] = "done"
      /\ \A d \in Calls : d # c => call'[d] = call[d]
  BY <1>1, <1>2, GoesOn DEF IpcInv
<1>4. c \notin ran BY <1>1 DEF IpcInv, RanIsKnown
<1>5. ASSUME NEW e \in Entries, NEW f \in Entries, EntryTells(e),
             SettlesTo(c, "fetch", "answered", TRUE, e, f)
      PROVE  EntryTells(f)'
  BY <1>1, <1>3, <1>4, <1>5 DEF EntryTells, TellsOf, OutcomeTrue, PostSeen, SettlesTo
<1>6. /\ ipcLog' \in Seq(Entries)
      /\ Tells(ipcLog)' /\ ShowsOnce(ipcLog)' /\ ShowsAll(ipcLog)'
  BY <1>1, <1>2, <1>5, CallSettles
<1>7. waiter' \in [Waiters -> Waitings] /\ CompletionWakes'
  BY <1>1, WaitersWake DEF IpcInv
<1>8. IpcTypeOK' BY <1>1, <1>3, <1>6, <1>7 DEF IpcInv, IpcTypeOK
<1>9. RanIsKnown' BY <1>1, <1>3 DEF IpcInv, RanIsKnown
<1>10. UnseenIsKnown' BY <1>1 DEF IpcInv, UnseenIsKnown
<1>11. QED BY <1>6, <1>7, <1>8, <1>9, <1>10 DEF IpcInv

LEMMA FetchAnsweredKeeps ==
    ASSUME IpcInv, NEW c \in Calls, NEW reads \in BOOLEAN, FetchAnswered(c, reads)
    PROVE  IpcInv'
<1> DEFINE s == IF reads THEN "reading" ELSE "done"
<1>1. /\ call' = [call EXCEPT ![c] = s] /\ call[c] = "real" /\ c \in ran
      /\ ipcLog' = Settled(c, "fetch", "answered", FALSE, FALSE)
      /\ IF reads THEN UNCHANGED waiter ELSE flushIpcWaiters
      /\ UNCHANGED <<ran, lost, unseen, rule, ruled, tauriPosts, capture, hooked, mapped, others>>
  BY DEF FetchAnswered
<1>2. s \in States \ {"none"} /\ s \in {"reading", "done"} /\ (reads => s = "reading")
  BY DEF States, Under
<1> HIDE DEF s
<1>3. /\ call' \in [Calls -> States] /\ call'[c] = s
      /\ \A d \in Calls : d # c => call'[d] = call[d]
      /\ s # "none" /\ s # "done" => UnderWay \subseteq UnderWay'
  BY <1>1, <1>2, GoesOn DEF IpcInv
<1>4. ASSUME NEW e \in Entries, NEW f \in Entries, EntryTells(e),
             SettlesTo(c, "fetch", "answered", FALSE, e, f)
      PROVE  EntryTells(f)'
  BY <1>1, <1>2, <1>3, <1>4 DEF EntryTells, TellsOf, OutcomeTrue, PostSeen, SettlesTo
<1>5. /\ ipcLog' \in Seq(Entries)
      /\ Tells(ipcLog)' /\ ShowsOnce(ipcLog)' /\ ShowsAll(ipcLog)'
  BY <1>1, <1>2, <1>4, CallSettles
<1>6. waiter' \in [Waiters -> Waitings] /\ CompletionWakes'
  <2>1. CASE reads
    <3>1. UnderWay \subseteq UnderWay' BY <1>2, <1>3, <2>1
    <3>2. QED BY <1>1, <2>1, <3>1, WaitersWait DEF IpcInv, IpcTypeOK
  <2>2. CASE ~reads BY <1>1, <2>2, WaitersWake DEF IpcInv
  <2>3. QED BY <2>1, <2>2
<1>7. IpcTypeOK' BY <1>1, <1>3, <1>5, <1>6 DEF IpcInv, IpcTypeOK
<1>8. RanIsKnown' BY <1>1, <1>2, <1>3 DEF IpcInv, RanIsKnown
<1>9. UnseenIsKnown' BY <1>1 DEF IpcInv, UnseenIsKnown
<1>10. QED BY <1>5, <1>6, <1>7, <1>8, <1>9 DEF IpcInv

LEMMA BodyReadKeeps ==
    ASSUME IpcInv, NEW c \in Calls, BodyRead(c)
    PROVE  IpcInv'
<1>1. /\ call' = [call EXCEPT ![c] = "done"] /\ call[c] = "reading" /\ flushIpcWaiters
      /\ ipcLog' = Settled(c, "fetch", "answered", FALSE, TRUE)
      /\ UNCHANGED <<ran, lost, unseen, rule, ruled, tauriPosts, capture, hooked, mapped, others>>
  BY DEF BodyRead
<1>2. "done" \in States \ {"none"} BY DEF States
<1>3. /\ call' \in [Calls -> States] /\ call'[c] = "done"
      /\ \A d \in Calls : d # c => call'[d] = call[d]
  BY <1>1, <1>2, GoesOn DEF IpcInv
<1>4. c \in ran BY <1>1 DEF IpcInv, RanIsKnown
<1>5. ASSUME NEW e \in Entries, NEW f \in Entries, EntryTells(e),
             SettlesTo(c, "fetch", "answered", FALSE, e, f)
      PROVE  EntryTells(f)'
  BY <1>1, <1>3, <1>4, <1>5 DEF EntryTells, TellsOf, OutcomeTrue, PostSeen, SettlesTo
<1>6. /\ ipcLog' \in Seq(Entries)
      /\ Tells(ipcLog)' /\ ShowsOnce(ipcLog)' /\ ShowsAll(ipcLog)'
  BY <1>1, <1>2, <1>5, CallSettles
<1>7. waiter' \in [Waiters -> Waitings] /\ CompletionWakes'
  BY <1>1, WaitersWake DEF IpcInv
<1>8. IpcTypeOK' BY <1>1, <1>3, <1>6, <1>7 DEF IpcInv, IpcTypeOK
<1>9. RanIsKnown' BY <1>1, <1>3 DEF IpcInv, RanIsKnown
<1>10. UnseenIsKnown' BY <1>1 DEF IpcInv, UnseenIsKnown
<1>11. QED BY <1>6, <1>7, <1>8, <1>9, <1>10 DEF IpcInv

LEMMA FetchFailsKeeps ==
    ASSUME IpcInv, NEW c \in Calls, FetchFails(c)
    PROVE  IpcInv'
<1>1. /\ call' = [call EXCEPT ![c] = "failed"] /\ call[c] = "real" /\ flushIpcWaiters
      /\ ipcLog' = Settled(c, "fetch", "error", FALSE, FALSE)
      /\ UNCHANGED <<ran, lost, unseen, rule, ruled, tauriPosts, capture, hooked, mapped, others>>
  BY DEF FetchFails
<1>2. "failed" \in States \ {"none"} BY DEF States, Under
<1>3. /\ call' \in [Calls -> States] /\ call'[c] = "failed"
      /\ \A d \in Calls : d # c => call'[d] = call[d]
  BY <1>1, <1>2, GoesOn DEF IpcInv
<1>4. ASSUME NEW e \in Entries, NEW f \in Entries, EntryTells(e),
             SettlesTo(c, "fetch", "error", FALSE, e, f)
      PROVE  EntryTells(f)'
  BY <1>1, <1>3, <1>4 DEF EntryTells, TellsOf, OutcomeTrue, PostSeen, SettlesTo,
     fetchWasRetriable
<1>5. /\ ipcLog' \in Seq(Entries)
      /\ Tells(ipcLog)' /\ ShowsOnce(ipcLog)' /\ ShowsAll(ipcLog)'
  BY <1>1, <1>2, <1>4, CallSettles
<1>6. waiter' \in [Waiters -> Waitings] /\ CompletionWakes'
  BY <1>1, WaitersWake DEF IpcInv
<1>7. IpcTypeOK' BY <1>1, <1>3, <1>5, <1>6 DEF IpcInv, IpcTypeOK
<1>8. RanIsKnown' BY <1>1, <1>3 DEF IpcInv, RanIsKnown
<1>9. UnseenIsKnown' BY <1>1 DEF IpcInv, UnseenIsKnown
<1>10. QED BY <1>5, <1>6, <1>7, <1>8, <1>9 DEF IpcInv

(* A response is logged where it can be seen, and nowhere else. *)
LEMMA PostAnsweredKeeps ==
    ASSUME IpcInv, NEW c \in Calls, PostAnswered(c)
    PROVE  IpcInv'
<1>1. /\ call' = [call EXCEPT ![c] = "done"] /\ call[c] = "posted" /\ c \in ran
      /\ IF mapped /\ c \notin unseen
           THEN ipcLog' = Settled(c, "post", "answered", FALSE, TRUE) /\ flushIpcWaiters
           ELSE UNCHANGED <<ipcLog, waiter>>
      /\ UNCHANGED <<ran, lost, unseen, rule, ruled, tauriPosts, capture, hooked, mapped, others>>
  BY DEF PostAnswered
<1>2. "done" \in States \ {"none"} BY DEF States
<1>3. /\ call' \in [Calls -> States] /\ call'[c] = "done"
      /\ \A d \in Calls : d # c => call'[d] = call[d]
  BY <1>1, <1>2, GoesOn DEF IpcInv
<1>4. ASSUME NEW e \in Entries, NEW f \in Entries, EntryTells(e),
             SettlesTo(c, "post", "answered", FALSE, e, f)
      PROVE  EntryTells(f)'
  BY <1>1, <1>3, <1>4 DEF EntryTells, TellsOf, OutcomeTrue, PostSeen, SettlesTo
<1>5. ASSUME NEW e \in Entries, e.call = c, EntryTells(e) PROVE EntryTells(e)'
  BY <1>1, <1>3, <1>5 DEF EntryTells, TellsOf, OutcomeTrue, PostSeen
<1>6. /\ ipcLog' \in Seq(Entries)
      /\ Tells(ipcLog)' /\ ShowsOnce(ipcLog)' /\ ShowsAll(ipcLog)'
  <2>1. CASE mapped /\ c \notin unseen BY <1>1, <1>2, <1>4, <2>1, CallSettles
  <2>2. CASE ~(mapped /\ c \notin unseen)
    <3>1. UNCHANGED <<ipcLog, lost, unseen, capture, mapped, ran>> BY <1>1, <2>2
    <3>2. Tells(ipcLog)' /\ ShowsOnce(ipcLog)' /\ ShowsAll(ipcLog)'
      BY <1>1, <1>2, <1>5, <3>1, CallGoesOn
    <3>3. QED BY <3>1, <3>2 DEF IpcInv, IpcTypeOK
  <2>3. QED BY <2>1, <2>2
<1>7. waiter' \in [Waiters -> Waitings] /\ CompletionWakes'
  <2>1. CASE mapped /\ c \notin unseen BY <1>1, <2>1, WaitersWake DEF IpcInv
  <2>2. CASE ~(mapped /\ c \notin unseen)
    <3>1. mapped => UnderWay \subseteq UnderWay' \cup unseen'
      BY <1>1, <1>3, <2>2 DEF UnderWay
    <3>2. CompletionWakes' BY <1>1, <2>2, <3>1, WaitersWait
    <3>3. QED BY <1>1, <2>2, <3>2 DEF IpcInv, IpcTypeOK
  <2>3. QED BY <2>1, <2>2
<1>8. IpcTypeOK' BY <1>1, <1>3, <1>6, <1>7 DEF IpcInv, IpcTypeOK
<1>9. RanIsKnown' BY <1>1, <1>3 DEF IpcInv, RanIsKnown
<1>10. UnseenIsKnown' BY <1>1 DEF IpcInv, UnseenIsKnown
<1>11. QED BY <1>6, <1>7, <1>8, <1>9, <1>10 DEF IpcInv

LEMMA FetchKeeps ==
    ASSUME IpcInv, NEW c \in Calls, NEW action \in Actions \cup {"none"}, Fetch(c, action)
    PROVE  IpcInv'
<1> DEFINE status == IF action = "block" THEN "blocked" ELSE "pending"
           s == CASE action = "block" -> "failed" [] action = "delay" -> "held"
                  [] action = "none" -> "real" [] OTHER -> "mocking"
           e == Entry(c, "fetch", status)
<1>1. /\ call' = [call EXCEPT ![c] = s] /\ call[c] = "none" /\ ~tauriPosts
      /\ ipcLog' = appendCapped(ipcLog, e) /\ lost' = lost \cup Evicts(ipcLog)
      /\ capture' = [capture EXCEPT !.fetch = TRUE]
      /\ rule' = IF rule.once THEN NoRule ELSE rule
      /\ IF action = "block" THEN flushIpcWaiters ELSE UNCHANGED waiter
      /\ UNCHANGED <<ran, unseen, ruled, tauriPosts, hooked, mapped, others>>
  BY DEF Fetch
<1>2. /\ s \in {"failed", "held", "real", "mocking"}
      /\ (s = "failed" <=> status = "blocked") /\ status \in {"blocked", "pending"}
  BY DEF Actions
<1>3. /\ e \in Entries /\ e.call = c /\ e.via = "fetch" /\ e.status = status
      /\ ~e.mocked /\ ~e.superseded /\ ~e.staged
  BY <1>2, EntryFacts
<1> HIDE DEF s, e, status
<1>4. s \in States \ {"none"} /\ s # "done" BY <1>2 DEF States, Under
<1>5. /\ call' \in [Calls -> States] /\ call'[c] = s
      /\ \A d \in Calls : d # c => call'[d] = call[d]
      /\ UnderWay \subseteq UnderWay'
  BY <1>1, <1>4, GoesOn DEF IpcInv
<1>6. /\ capture' \in Captures /\ capture'.post = capture.post /\ capture'.fallback = capture.fallback
      /\ capture'.responses = capture.responses
  BY <1>1 DEF IpcInv, IpcTypeOK, Captures
<1>7. \A i \in 1..Len(ipcLog) : ipcLog[i].call # c
  <2> SUFFICES ASSUME NEW i \in 1..Len(ipcLog), ipcLog[i].call = c PROVE FALSE OBVIOUS
  <2>1. EntryTells(ipcLog[i]) BY EntryOf
  <2>2. QED BY <1>1, <2>1 DEF EntryTells, TellsOf
<1>8. /\ ipcLog' \in Seq(Entries)
      /\ Tells(ipcLog)' /\ ShowsOnce(ipcLog)' /\ ShowsAll(ipcLog)'
  <2>1. PICK log \in Seq(Entries) : log = ipcLog BY DEF IpcInv, IpcTypeOK
  <2>2. ASSUME NEW i \in 1..Len(log) PROVE EntryTells(log[i])'
    <3>1. EntryTells(log[i]) BY <2>1, EntryOf
    <3>2. log[i].call # c BY <1>7, <2>1
    <3>3. log[i].via = "post" /\ PostSeen(log[i]) => PostSeen(log[i])'
      BY <1>1, <1>6 DEF PostSeen
    <3>4. QED BY <1>1, <1>5, <3>1, <3>2, <3>3, OthersTell
  <2>3. PICK f \in Entries : f = e BY <1>3
  <2>4. EntryTells(f)'
    <3>1. c \notin ran BY <1>1 DEF IpcInv, RanIsKnown
    <3>2. QED BY <1>1, <1>2, <1>3, <1>5, <2>3, <3>1 DEF EntryTells, TellsOf,
                 OutcomeTrue, PostSeen, fetchWasRetriable
  <2>5. ShowsOnce(log) BY <2>1 DEF IpcInv
  <2>6. ~f.superseded /\ f.call = c /\ (\A i \in 1..Len(log) : log[i].call = f.call => log[i].superseded)
    BY <1>3, <1>7, <2>1, <2>3
  <2>7. \A d \in Calls : call'[d] # "none" /\ d \notin lost \cup unseen' =>
          d = f.call \/ \E i \in 1..Len(log) : log[i].call = d /\ ~log[i].superseded
    BY <1>1, <1>5, <2>1, <2>6 DEF IpcInv, ShowsAll
  <2>8. ipcLog' = appendCapped(log, f) /\ lost' = lost \cup Evicts(log)
    BY <1>1, <2>1, <2>3
  <2>9. QED BY <2>2, <2>4, <2>5, <2>6, <2>7, <2>8, LogGrows
<1>9. waiter' \in [Waiters -> Waitings] /\ CompletionWakes'
  <2>1. CASE action = "block" BY <1>1, <2>1, WaitersWake DEF IpcInv
  <2>2. CASE action # "block"
    <3>1. CompletionWakes' BY <1>1, <1>5, <2>2, WaitersWait
    <3>2. QED BY <1>1, <2>2, <3>1 DEF IpcInv, IpcTypeOK
  <2>3. QED BY <2>1, <2>2
<1>10. IpcTypeOK'
  <2>1. lost' \subseteq Calls BY <1>1, EvictsCalls DEF IpcInv, IpcTypeOK
  <2>2. rule' \in Rules BY <1>1 DEF IpcInv, IpcTypeOK, Rules, NoRule
  <2>3. QED BY <1>1, <1>5, <1>6, <1>8, <1>9, <2>1, <2>2 DEF IpcInv, IpcTypeOK
<1>11. RanIsKnown' BY <1>1, <1>2, <1>5 DEF IpcInv, RanIsKnown
<1>12. UnseenIsKnown' BY <1>1, <1>6 DEF IpcInv, UnseenIsKnown
<1>13. QED BY <1>8, <1>9, <1>10, <1>11, <1>12 DEF IpcInv

LEMMA OtherRequestKeeps == ASSUME IpcInv, OtherRequest PROVE IpcInv'
<1> DEFINE e == Entry("other", "fetch", "answered")
<1>1. /\ others' = others + 1 /\ ipcLog' = appendCapped(ipcLog, e)
      /\ lost' = lost \cup Evicts(ipcLog)
      /\ UNCHANGED <<call, ran, unseen, rule, ruled, tauriPosts, capture, hooked, mapped, waiter>>
  BY DEF OtherRequest
<1>2. e \in Entries /\ e.call = "other" /\ ~e.superseded BY EntryFacts
<1> HIDE DEF e
<1>3. /\ ipcLog' \in Seq(Entries)
      /\ Tells(ipcLog)' /\ ShowsOnce(ipcLog)' /\ ShowsAll(ipcLog)'
  <2>1. PICK log \in Seq(Entries) : log = ipcLog BY DEF IpcInv, IpcTypeOK
  <2>2. ASSUME NEW i \in 1..Len(log) PROVE EntryTells(log[i])'
    <3>1. EntryTells(log[i]) BY <2>1, EntryOf
    <3>2. QED BY <1>1, <3>1 DEF EntryTells, TellsOf, OutcomeTrue, PostSeen, AsPosted,
                 fetchWasRetriable
  <2>3. PICK f \in Entries : f = e BY <1>2
  <2>4. ~f.superseded /\ f.call \notin Calls BY <1>2, <2>3, PageIpcAssumption
  <2>5. EntryTells(f)' BY <2>4 DEF EntryTells
  <2>6. ShowsOnce(log) BY <2>1 DEF IpcInv
  <2>7. \A d \in Calls : call'[d] # "none" /\ d \notin lost \cup unseen' =>
          d = f.call \/ \E i \in 1..Len(log) : log[i].call = d /\ ~log[i].superseded
    BY <1>1, <2>1 DEF IpcInv, ShowsAll
  <2>8. ipcLog' = appendCapped(log, f) /\ lost' = lost \cup Evicts(log)
    BY <1>1, <2>1, <2>3
  <2>9. QED BY <2>2, <2>4, <2>5, <2>6, <2>7, <2>8, LogGrows
<1>4. IpcTypeOK'
  <2>1. lost' \subseteq Calls BY <1>1, EvictsCalls DEF IpcInv, IpcTypeOK
  <2>2. QED BY <1>1, <1>3, <2>1 DEF IpcInv, IpcTypeOK
<1>5. RanIsKnown' BY <1>1 DEF IpcInv, RanIsKnown
<1>6. UnseenIsKnown' BY <1>1 DEF IpcInv, UnseenIsKnown
<1>7. CompletionWakes' BY <1>1, WaitersWait DEF UnderWay
<1>8. QED BY <1>3, <1>4, <1>5, <1>6, <1>7 DEF IpcInv

LEMMA RulesKeep ==
    ASSUME IpcInv, clearRoutes \/ \E action \in Actions, once \in BOOLEAN : addRoute(action, once)
    PROVE  IpcInv'
<1>1. /\ rule' \in Rules /\ ruled' \in BOOLEAN
      /\ UNCHANGED <<call, ran, ipcLog, lost, unseen, tauriPosts, capture, hooked, mapped, waiter,
                     others>>
  <2>1. CASE clearRoutes BY <2>1 DEF IpcInv, IpcTypeOK, clearRoutes, Rules, NoRule
  <2>2. ASSUME NEW action \in Actions, NEW once \in BOOLEAN, addRoute(action, once)
        PROVE  /\ rule' \in Rules /\ ruled' \in BOOLEAN
               /\ UNCHANGED <<call, ran, ipcLog, lost, unseen, tauriPosts, capture, hooked, mapped,
                              waiter, others>>
    BY <2>2 DEF addRoute, Rules
  <2>3. QED BY <2>1, <2>2
<1>2. IpcTypeOK' BY <1>1 DEF IpcInv, IpcTypeOK
<1>3. Tells(ipcLog)' /\ ShowsOnce(ipcLog)' /\ ShowsAll(ipcLog)' /\ RanIsKnown'
  BY <1>1, LogStands
<1>4. UnseenIsKnown' BY <1>1 DEF IpcInv, UnseenIsKnown
<1>5. CompletionWakes' BY <1>1, WaitersWait DEF UnderWay
<1>6. QED BY <1>2, <1>3, <1>4, <1>5 DEF IpcInv

LEMMA HookReplacedKeeps == ASSUME IpcInv, HookReplaced PROVE IpcInv'
<1>1. /\ hooked' = FALSE
      /\ UNCHANGED <<call, ran, ipcLog, lost, unseen, rule, ruled, tauriPosts, capture, mapped,
                     waiter, others>>
  BY DEF HookReplaced
<1>2. IpcTypeOK' BY <1>1 DEF IpcInv, IpcTypeOK
<1>3. Tells(ipcLog)' /\ ShowsOnce(ipcLog)' /\ ShowsAll(ipcLog)' /\ RanIsKnown'
  BY <1>1, LogStands
<1>4. UnseenIsKnown' BY <1>1 DEF IpcInv, UnseenIsKnown
<1>5. CompletionWakes' BY <1>1, WaitersWait DEF UnderWay
<1>6. QED BY <1>2, <1>3, <1>4, <1>5 DEF IpcInv

LEMMA clearNetworkLogKeeps == ASSUME IpcInv, clearNetworkLog PROVE IpcInv'
<1>1. /\ lost' = lost \cup ({ipcLog[i].call : i \in DOMAIN ipcLog} \cap Calls)
      /\ ipcLog' = <<>>
      /\ UNCHANGED <<call, ran, unseen, rule, ruled, tauriPosts, capture, hooked, mapped, waiter,
                     others>>
  BY DEF clearNetworkLog
<1>2. IpcTypeOK' BY <1>1 DEF IpcInv, IpcTypeOK
<1>3. Len(ipcLog') = 0 /\ DOMAIN ipcLog = 1..Len(ipcLog) BY <1>1 DEF IpcInv, IpcTypeOK
<1>4. Tells(ipcLog)' /\ ShowsOnce(ipcLog)' BY <1>3 DEF Tells, ShowsOnce
<1>5. ShowsAll(ipcLog)' BY <1>1, <1>3 DEF IpcInv, ShowsAll
<1>6. RanIsKnown' BY <1>1 DEF IpcInv, RanIsKnown
<1>7. UnseenIsKnown' BY <1>1 DEF IpcInv, UnseenIsKnown
<1>8. CompletionWakes' BY <1>1, WaitersWait DEF UnderWay
<1>9. QED BY <1>2, <1>4, <1>5, <1>6, <1>7, <1>8 DEF IpcInv

LEMMA WaiterSteps ==
    ASSUME IpcInv, NEW w \in Waiters, NEW new \in Waitings, waiter' = [waiter EXCEPT ![w] = new],
           new.state = "waiting" => new.began = UnderWay,
           UNCHANGED <<call, ran, ipcLog, lost, unseen, rule, ruled, tauriPosts, capture, hooked,
                       mapped, others>>
    PROVE  IpcInv'
<1>1. IpcTypeOK' BY DEF IpcInv, IpcTypeOK
<1>2. Tells(ipcLog)' /\ ShowsOnce(ipcLog)' /\ ShowsAll(ipcLog)' /\ RanIsKnown'
  BY LogStands
<1>3. UnseenIsKnown' BY DEF IpcInv, UnseenIsKnown
<1>4. CompletionWakes'
  <2> SUFFICES ASSUME NEW v \in Waiters, waiter'[v].state = "waiting"
               PROVE  waiter'[v].began \ unseen \subseteq IF mapped THEN UnderWay ELSE Calls
    BY DEF CompletionWakes, UnderWay
  <2>1. CASE v = w
    <3>1. waiter'[v] = new BY <2>1 DEF IpcInv, IpcTypeOK
    <3>2. QED BY <3>1 DEF UnderWay
  <2>2. CASE v # w
    <3>1. waiter'[v] = waiter[v] BY <2>2 DEF IpcInv, IpcTypeOK
    <3>2. QED BY <3>1 DEF IpcInv, CompletionWakes
  <2>3. QED BY <2>1, <2>2
<1>5. QED BY <1>1, <1>2, <1>3, <1>4 DEF IpcInv

LEMMA WaitersKeep ==
    ASSUME IpcInv, NEW w \in Waiters, waitForIpcComplete(w) \/ WaitTimesOut(w)
    PROVE  IpcInv'
<1>1. CASE waitForIpcComplete(w)
  <2> DEFINE new == [state |-> IF Newest # 0 /\ ipcLog[Newest].status # "pending" /\ ipcLog[Newest].body
                                 THEN "true" ELSE "waiting",
                     began |-> UnderWay]
  <2>1. new \in Waitings BY DEF Waitings, UnderWay
  <2>2. /\ waiter' = [waiter EXCEPT ![w] = new]
        /\ UNCHANGED <<call, ran, ipcLog, lost, unseen, rule, ruled, tauriPosts, capture, hooked,
                       mapped, others>>
    BY <1>1 DEF waitForIpcComplete
  <2>3. new.began = UnderWay OBVIOUS
  <2> HIDE DEF new
  <2>4. QED BY <2>1, <2>2, <2>3, WaiterSteps
<1>2. CASE WaitTimesOut(w)
  <2> DEFINE new == [waiter[w] EXCEPT !.state = "false"]
  <2>1. new \in Waitings /\ new.state # "waiting" BY DEF IpcInv, IpcTypeOK, Waitings
  <2>2. /\ waiter' = [waiter EXCEPT ![w] = new]
        /\ UNCHANGED <<call, ran, ipcLog, lost, unseen, rule, ruled, tauriPosts, capture, hooked,
                       mapped, others>>
    BY <1>2 DEF WaitTimesOut
  <2> HIDE DEF new
  <2>3. QED BY <2>1, <2>2, WaiterSteps
<1>3. QED BY <1>1, <1>2

(* A call page code imitates is shown already: the message is staged for no call. *)
LEMMA LookAlikeKeeps ==
    ASSUME IpcInv, NEW c \in Calls, LookAlike(c)
    PROVE  IpcInv'
<1>1. /\ Task /\ hooked /\ c \in UnderWay \ lost
      /\ UNCHANGED <<call, ran, unseen, rule, ruled, tauriPosts, capture, hooked, mapped, waiter,
                     others>>
  BY DEF LookAlike
<1>2. Of(c, "post") # {} \/ ~Observed(c)
  <2> SUFFICES ASSUME Of(c, "post") = {}, Observed(c) PROVE FALSE OBVIOUS
  <2>1. unseen = {} BY <1>1 DEF IpcInv, UnseenIsKnown
  <2>2. call[c] \in Under /\ call[c] # "failed" BY <1>1 DEF UnderWay, Task
  <2>3. PICK i \in 1..Len(ipcLog) : ipcLog[i].call = c /\ ~ipcLog[i].superseded
    BY <1>1, <2>1, <2>2 DEF IpcInv, ShowsAll, Under
  <2>4. EntryTells(ipcLog[i]) BY EntryOf
  <2>5. ipcLog[i].via = "fetch" /\ i \in DOMAIN ipcLog
    BY <2>3, LogIsOfCalls DEF IpcInv, Of
  <2>6. fetchWasRetriable(ipcLog[i]) BY <2>3, <2>5 DEF Observed, Of
  <2>7. QED BY <2>1, <2>2, <2>3, <2>4, <2>5, <2>6 DEF EntryTells, TellsOf,
               fetchWasRetriable, Under
<1>3. /\ ipcLog' \in Seq(Entries) /\ Len(ipcLog') = Len(ipcLog) /\ lost' = lost
      /\ \A i \in 1..Len(ipcLog) :
           /\ ipcLog'[i].call = ipcLog[i].call /\ ipcLog'[i].via = ipcLog[i].via
           /\ ipcLog'[i].superseded = ipcLog[i].superseded /\ ipcLog'[i].staged = ipcLog[i].staged
           /\ ipcLog'[i].mocked = ipcLog[i].mocked /\ ipcLog'[i].status = ipcLog[i].status
  <2>1. CASE Of(c, "post") # {}
    <3> DEFINE new(i) == IF i \in Of(c, "post") THEN [ipcLog[i] EXCEPT !.contested = TRUE]
                         ELSE ipcLog[i]
    <3>1. ipcLog' = [i \in 1..Len(ipcLog) |-> new(i)] /\ lost' = lost /\ Len(ipcLog) \in Nat
      BY <2>1, LogIsOfCalls DEF LookAlike, IpcInv
    <3>2. ASSUME NEW i \in 1..Len(ipcLog)
          PROVE  /\ new(i) \in Entries
                 /\ new(i).call = ipcLog[i].call /\ new(i).via = ipcLog[i].via
                 /\ new(i).superseded = ipcLog[i].superseded /\ new(i).staged = ipcLog[i].staged
                 /\ new(i).mocked = ipcLog[i].mocked /\ new(i).status = ipcLog[i].status
      <4> DEFINE e == ipcLog[i]
                 f == [e EXCEPT !.contested = TRUE]
      <4>1. e \in Entries BY EntryOf
      <4>2. new(i) = IF i \in Of(c, "post") THEN f ELSE e OBVIOUS
      <4> HIDE DEF e
      <4>3. f \in Entries BY <4>1, Zenon DEF Entries
      <4>4. /\ f.call = e.call /\ f.via = e.via /\ f.superseded = e.superseded
            /\ f.staged = e.staged /\ f.mocked = e.mocked /\ f.status = e.status
        BY <4>1 DEF Entries
      <4> HIDE DEF f, new
      <4>5. QED BY <4>1, <4>2, <4>3, <4>4 DEF e
    <3> HIDE DEF new
    <3>3. ipcLog' \in [1..Len(ipcLog) -> Entries] BY <3>1, <3>2
    <3>4. ipcLog' \in Seq(Entries) /\ Len(ipcLog') = Len(ipcLog) BY <3>1, <3>3
    <3>5. QED BY <3>1, <3>2, <3>4
  <2>2. CASE Of(c, "post") = {}
    <3>1. UNCHANGED <<ipcLog, lost>> BY <1>2, <2>2 DEF LookAlike
    <3>2. QED BY <3>1 DEF IpcInv, IpcTypeOK
  <2>3. QED BY <2>1, <2>2
<1>4. IpcTypeOK' BY <1>1, <1>3 DEF IpcInv, IpcTypeOK
<1>5. Tells(ipcLog)'
  BY <1>1, <1>3 DEF IpcInv, Tells, TellsOf, OutcomeTrue, PostSeen, AsPosted,
     fetchWasRetriable
<1>6. ShowsOnce(ipcLog)' BY <1>3 DEF IpcInv, ShowsOnce
<1>7. ShowsAll(ipcLog)' BY <1>1, <1>3 DEF IpcInv, ShowsAll
<1>8. RanIsKnown' BY <1>1 DEF IpcInv, RanIsKnown
<1>9. UnseenIsKnown' BY <1>1 DEF IpcInv, UnseenIsKnown
<1>10. CompletionWakes' BY <1>1, WaitersWait DEF UnderWay
<1>11. QED BY <1>4, <1>5, <1>6, <1>7, <1>8, <1>9, <1>10 DEF IpcInv

(* Tauri sends a call over postMessage: observed, it is shown by that message from *)
(* now on; unobserved, it is one the bridge no longer vouches for.                 *)
LEMMA PostKeeps == ASSUME IpcInv, NEW c \in Calls, Post(c) PROVE IpcInv'
<1>1. /\ call[c] \in {"failed", "none"} /\ (call[c] = "none" => tauriPosts) /\ tauriPosts' = TRUE
      /\ capture' = [capture EXCEPT
                       !.fallback = capture.fallback \/ call[c] = "failed",
                       !.post = capture.post \/ Observed(c),
                       !.responses = IF ~Observed(c) THEN capture.responses
                                     ELSE IF mapped THEN "yes" ELSE "no"]
      /\ IF Observed(c)
           THEN observePostMessageIpc(c) /\ UNCHANGED unseen
           ELSE unseen' = unseen \cup {c} /\ UNCHANGED <<ipcLog, lost>>
      /\ call' = [call EXCEPT ![c] = "posted"]
      /\ UNCHANGED <<ran, rule, ruled, hooked, mapped, waiter, others>>
  BY DEF Post
<1>2. "posted" \in States \ {"none"} BY DEF States, Under
<1>3. /\ call' \in [Calls -> States] /\ call'[c] = "posted"
      /\ \A d \in Calls : d # c => call'[d] = call[d]
      /\ UnderWay \subseteq UnderWay'
  BY <1>1, <1>2, GoesOn DEF IpcInv
<1>4. Observed(c) \in BOOLEAN BY DEF Observed
<1>5. /\ capture' \in Captures
      /\ capture'.fetch = capture.fetch
      /\ capture'.fallback = (capture.fallback \/ call[c] = "failed")
      /\ capture'.post = (capture.post \/ Observed(c))
      /\ Observed(c) => capture'.responses = IF mapped THEN "yes" ELSE "no"
      /\ ~Observed(c) => capture'.responses = capture.responses
  <2>1. capture \in Captures BY DEF IpcInv, IpcTypeOK
  <2> DEFINE obs == Observed(c)
             fb == capture.fallback \/ call[c] = "failed"
             po == capture.post \/ obs
             re == IF ~obs THEN capture.responses ELSE IF mapped THEN "yes" ELSE "no"
  <2>2. fb \in BOOLEAN /\ po \in BOOLEAN /\ re \in {"untried", "yes", "no"}
    BY <1>4, <2>1 DEF Captures
  <2>3. capture' = [capture EXCEPT !.fallback = fb, !.post = po, !.responses = re]
    BY <1>1
  <2> HIDE DEF fb, po, re
  <2>4. /\ capture' \in Captures /\ capture'.fetch = capture.fetch
        /\ capture'.fallback = fb /\ capture'.post = po /\ capture'.responses = re
    BY <2>1, <2>2, <2>3 DEF Captures
  <2>5. QED BY <2>4 DEF fb, po, re
<1>6. \A i \in 1..Len(ipcLog) : ipcLog[i].call = c =>
        /\ call[c] = "failed" /\ ipcLog[i].via = "fetch" /\ fetchWasRetriable(ipcLog[i])
        /\ ~ipcLog[i].staged /\ ~ipcLog[i].mocked /\ ipcLog[i].status # "answered"
  <2> SUFFICES ASSUME NEW i \in 1..Len(ipcLog), ipcLog[i].call = c
               PROVE  /\ call[c] = "failed" /\ ipcLog[i].via = "fetch"
                      /\ fetchWasRetriable(ipcLog[i])
                      /\ ~ipcLog[i].staged /\ ~ipcLog[i].mocked /\ ipcLog[i].status # "answered"
    OBVIOUS
  <2>1. EntryTells(ipcLog[i]) BY EntryOf
  <2>2. QED BY <1>1, <2>1 DEF EntryTells, TellsOf, OutcomeTrue, fetchWasRetriable
<1>7. Observed(c) \/ ~hooked
  BY <1>6, LogIsOfCalls DEF Observed, Of, IpcInv
<1>8. /\ ipcLog' \in Seq(Entries) /\ lost' \subseteq Calls
      /\ Tells(ipcLog)' /\ ShowsOnce(ipcLog)' /\ ShowsAll(ipcLog)'
  <2>1. CASE Observed(c)
    <3> DEFINE status == IF mapped THEN "pending" ELSE "unobserved"
               e == Entry(c, "post", status)
    <3>1. /\ ipcLog' = appendCapped(Superseded(c), e) /\ lost' = lost \cup Evicts(Superseded(c))
          /\ unseen' = unseen
      BY <1>1, <2>1 DEF observePostMessageIpc
    <3>2. status \in {"pending", "unobserved"} OBVIOUS
    <3>3. /\ e \in Entries /\ e.call = c /\ e.via = "post" /\ e.status = status
          /\ ~e.mocked /\ ~e.superseded /\ ~e.staged
      BY <3>2, EntryFacts
    <3>4. PICK f \in Entries :
            /\ f = e /\ f.call = c /\ f.via = "post" /\ f.status = AsPosted
            /\ ~f.mocked /\ ~f.superseded /\ ~f.staged
      BY <3>3 DEF AsPosted
    <3> HIDE DEF e, status
    <3>5. PICK log \in Seq(Entries) : log = Superseded(c)
      <4>1. IpcTypeOK BY DEF IpcInv
      <4>2. QED BY <4>1, SupersededFacts
    <3>6. /\ Len(log) = Len(ipcLog)
          /\ \A i \in 1..Len(log) :
               /\ log[i].call = ipcLog[i].call /\ log[i].via = ipcLog[i].via
               /\ log[i].call # c => log[i] = ipcLog[i]
               /\ log[i].call = c =>
                    /\ log[i].superseded /\ log[i].staged = ipcLog[i].staged
                    /\ log[i].mocked = ipcLog[i].mocked /\ log[i].status = ipcLog[i].status
      <4>1. IpcTypeOK BY DEF IpcInv
      <4>2. \A i \in 1..Len(ipcLog) : i \in Of(c, "fetch") <=> ipcLog[i].call = c
        BY <1>6, <4>1, LogIsOfCalls DEF Of
      <4>3. QED BY <3>5, <4>1, <4>2, SupersededFacts
    <3>7. ASSUME NEW i \in 1..Len(log) PROVE EntryTells(log[i])'
      <4>1. CASE log[i].call # c
        <5>1. EntryTells(log[i]) BY <3>6, <4>1, EntryOf
        <5>2. log[i].via = "post" /\ PostSeen(log[i]) => PostSeen(log[i])'
          BY <1>1, <1>5, <2>1 DEF PostSeen
        <5>3. QED BY <1>1, <1>3, <3>1, <4>1, <5>1, <5>2, OthersTell
      <4>2. CASE log[i].call = c
        <5>1. /\ log[i].via = "fetch" /\ log[i].superseded /\ ~log[i].staged /\ ~log[i].mocked
              /\ log[i].status # "answered"
          BY <1>6, <3>6, <4>2
        <5>2. QED BY <1>3, <4>2, <5>1 DEF EntryTells, TellsOf, OutcomeTrue, PostSeen
      <4>3. QED BY <4>1, <4>2
    <3>8. EntryTells(f)'
      <4>1. f.status \in {"pending", "unobserved"} BY <3>4 DEF AsPosted
      <4>2. AsPosted' = AsPosted /\ (capture' \in Captures) BY <1>1, <1>5 DEF AsPosted
      <4>3. TellsOf(f, call[f.call])' BY <1>3, <3>4, <4>2 DEF TellsOf
      <4>4. OutcomeTrue(f, call[f.call])' BY <3>4, <4>1 DEF OutcomeTrue
      <4>5. PostSeen(f)' BY <1>1, <1>5, <2>1 DEF PostSeen
      <4>6. QED BY <4>3, <4>4, <4>5 DEF EntryTells
    <3>9. ShowsOnce(log)
      <4> SUFFICES ASSUME NEW i \in 1..Len(log), NEW j \in 1..Len(log),
                          log[i].call \in Calls, log[j].call = log[i].call,
                          ~log[i].superseded, ~log[j].superseded
                   PROVE  i = j
        BY DEF ShowsOnce
      <4>1. log[i] = ipcLog[i] /\ log[j] = ipcLog[j] BY <3>6
      <4>2. QED BY <3>6, <4>1 DEF IpcInv, ShowsOnce
    <3>10. \A i \in 1..Len(log) : log[i].call = f.call => log[i].superseded
      BY <3>4, <3>6
    <3>11. \A d \in Calls : call'[d] # "none" /\ d \notin lost \cup unseen' =>
             d = f.call \/ \E i \in 1..Len(log) : log[i].call = d /\ ~log[i].superseded
      <4> SUFFICES ASSUME NEW d \in Calls, call[d] # "none", d \notin lost \cup unseen, d # c
                   PROVE  \E i \in 1..Len(log) : log[i].call = d /\ ~log[i].superseded
        BY <1>3, <3>1, <3>4
      <4>1. PICK i \in 1..Len(ipcLog) : ipcLog[i].call = d /\ ~ipcLog[i].superseded
        BY DEF IpcInv, ShowsAll
      <4>2. i \in 1..Len(log) /\ log[i] = ipcLog[i] BY <3>6, <4>1
      <4>3. QED BY <4>1, <4>2
    <3>12. ipcLog' = appendCapped(log, f) /\ lost' = lost \cup Evicts(log)
      BY <3>1, <3>4, <3>5
    <3>13. ipcLog' \in Seq(Entries) /\ Tells(ipcLog)' /\ ShowsOnce(ipcLog)' /\ ShowsAll(ipcLog)'
      BY <3>4, <3>7, <3>8, <3>9, <3>10, <3>11, <3>12, LogGrows
    <3>14. lost' \subseteq Calls BY <3>1, EvictsCalls DEF IpcInv, IpcTypeOK
    <3>15. QED BY <3>13, <3>14
  <2>2. CASE ~Observed(c)
    <3>1. unseen' = unseen \cup {c} /\ UNCHANGED <<ipcLog, lost>> BY <1>1, <2>2
    <3>2. ASSUME NEW i \in 1..Len(ipcLog) PROVE EntryTells(ipcLog[i])'
      <4>1. PICK e \in Entries : e = ipcLog[i] /\ EntryTells(e) BY EntryOf
      <4>2. CASE e.call # c
        <5>1. e.via = "post" /\ PostSeen(e) => PostSeen(e)'
          BY <1>1, <1>5, <2>2 DEF PostSeen
        <5>2. EntryTells(e)' BY <1>1, <1>3, <3>1, <4>1, <4>2, <5>1, OthersTell
        <5>3. QED BY <3>1, <4>1, <5>2 DEF EntryTells, TellsOf, OutcomeTrue, PostSeen,
                     AsPosted, fetchWasRetriable
      <4>3. CASE e.call = c
        <5>1. e.via = "fetch" /\ ~e.staged /\ ~e.mocked /\ e.status # "answered"
          BY <1>6, <4>1, <4>3
        <5>2. EntryTells(e)'
          BY <1>3, <3>1, <4>3, <5>1 DEF EntryTells, TellsOf, OutcomeTrue, PostSeen
        <5>3. QED BY <3>1, <4>1, <5>2 DEF EntryTells, TellsOf, OutcomeTrue, PostSeen,
                     AsPosted, fetchWasRetriable
      <4>4. QED BY <4>2, <4>3
    <3>3. Tells(ipcLog)'
      <4>1. Len(ipcLog') = Len(ipcLog) BY <3>1
      <4>2. QED BY <3>2, <4>1 DEF Tells, EntryTells
    <3>4. ShowsOnce(ipcLog)' BY <3>1 DEF IpcInv, ShowsOnce
    <3>5. ShowsAll(ipcLog)' BY <1>3, <3>1 DEF IpcInv, ShowsAll
    <3>6. QED BY <3>1, <3>3, <3>4, <3>5 DEF IpcInv, IpcTypeOK
  <2>3. QED BY <2>1, <2>2
<1>9. unseen' \subseteq Calls /\ unseen \subseteq unseen'
  BY <1>1 DEF IpcInv, IpcTypeOK
<1>10. IpcTypeOK' BY <1>1, <1>3, <1>5, <1>8, <1>9 DEF IpcInv, IpcTypeOK
<1>11. RanIsKnown' BY <1>1, <1>3 DEF IpcInv, RanIsKnown
<1>12. UnseenIsKnown'
  <2>1. unseen' # {} => ~hooked' BY <1>1, <1>7 DEF IpcInv, UnseenIsKnown
  <2>2. capture'.fetch => capture'.fallback
    <3>1. capture'.fetch \in BOOLEAN /\ capture'.fallback \in BOOLEAN
      BY <1>5 DEF Captures
    <3>2. QED BY <1>1, <1>5, <3>1 DEF IpcInv, UnseenIsKnown
  <2>3. QED BY <1>1, <2>1, <2>2 DEF UnseenIsKnown
<1>13. CompletionWakes' BY <1>1, <1>3, <1>9, WaitersWait
<1>14. QED BY <1>8, <1>10, <1>11, <1>12, <1>13 DEF IpcInv
-----------------------------------------------------------------------------
(* The whole machine. *)
LEMMA IpcStart == IpcInit => IpcInv
<1> SUFFICES ASSUME IpcInit PROVE IpcInv OBVIOUS
<1>1. ipcLog = <<>> /\ Len(ipcLog) = 0 BY DEF IpcInit
<1>2. IpcTypeOK
  <2>1. call \in [Calls -> States] BY DEF IpcInit, States
  <2>2. ipcLog \in Seq(Entries) BY <1>1
  <2>3. rule \in Rules /\ capture \in Captures BY DEF IpcInit, Rules, NoRule, Captures
  <2>4. waiter \in [Waiters -> Waitings] BY DEF IpcInit, Waitings
  <2>5. QED BY <2>1, <2>2, <2>3, <2>4 DEF IpcInit, IpcTypeOK
<1>3. Tells(ipcLog) /\ ShowsOnce(ipcLog) BY <1>1 DEF Tells, ShowsOnce
<1>4. ShowsAll(ipcLog) /\ RanIsKnown BY DEF IpcInit, ShowsAll, RanIsKnown
<1>5. UnseenIsKnown /\ CompletionWakes BY DEF IpcInit, UnseenIsKnown, CompletionWakes
<1>6. QED BY <1>2, <1>3, <1>4, <1>5 DEF IpcInv

LEMMA IpcStands == IpcInv /\ UNCHANGED ipcVars => IpcInv'
<1> SUFFICES ASSUME IpcInv, UNCHANGED ipcVars PROVE IpcInv' OBVIOUS
<1>1. UNCHANGED <<call, ran, ipcLog, lost, unseen, rule, ruled, tauriPosts, capture, hooked,
                  mapped, waiter, others>>
  BY DEF ipcVars
<1>2. IpcTypeOK' BY <1>1 DEF IpcInv, IpcTypeOK
<1>3. Tells(ipcLog)' /\ ShowsOnce(ipcLog)' /\ ShowsAll(ipcLog)' /\ RanIsKnown'
  BY <1>1, LogStands
<1>4. UnseenIsKnown' BY <1>1 DEF IpcInv, UnseenIsKnown
<1>5. CompletionWakes' BY <1>1, WaitersWait DEF UnderWay
<1>6. QED BY <1>2, <1>3, <1>4, <1>5 DEF IpcInv

LEMMA IpcStep == IpcInv /\ [IpcNext]_ipcVars => IpcInv'
<1> SUFFICES ASSUME IpcInv, [IpcNext]_ipcVars PROVE IpcInv' OBVIOUS
<1>1. ASSUME NEW c \in Calls,
             LookAlike(c) \/ HeldBack(c) \/ makeResp(c) \/ Handle(c) \/ BodyRead(c)
               \/ FetchFails(c) \/ Post(c) \/ PostAnswered(c)
      PROVE  IpcInv'
  BY <1>1, LookAlikeKeeps, HeldBackKeeps, makeRespKeeps, HandleKeeps, BodyReadKeeps,
     FetchFailsKeeps, PostKeeps, PostAnsweredKeeps
<1>2. ASSUME NEW c \in Calls, NEW action \in Actions \cup {"none"}, Fetch(c, action)
      PROVE  IpcInv'
  BY <1>2, FetchKeeps
<1>3. ASSUME NEW c \in Calls, NEW reads \in BOOLEAN, FetchAnswered(c, reads) PROVE IpcInv'
  BY <1>3, FetchAnsweredKeeps
<1>4. ASSUME NEW w \in Waiters, waitForIpcComplete(w) \/ WaitTimesOut(w) PROVE IpcInv'
  BY <1>4, WaitersKeep
<1>5. CASE OtherRequest BY <1>5, OtherRequestKeeps
<1>6. CASE clearNetworkLog BY <1>6, clearNetworkLogKeeps
<1>7. CASE HookReplaced BY <1>7, HookReplacedKeeps
<1>8. CASE clearRoutes \/ \E action \in Actions, once \in BOOLEAN : addRoute(action, once)
  BY <1>8, RulesKeep
<1>9. CASE UNCHANGED ipcVars BY <1>9, IpcStands
<1>10. QED
  <2>1. CASE IpcNext
    BY <1>1, <1>2, <1>3, <1>4, <1>5, <1>6, <1>7, <1>8, <2>1 DEF IpcNext
  <2>2. QED BY <1>9, <2>1

LEMMA ShownOnce == IpcInv => CallsAreShownOnce
<1> SUFFICES ASSUME IpcInv, NEW c \in Calls, call[c] # "none", c \notin lost \cup unseen
             PROVE  LET mine == {i \in DOMAIN ipcLog : ipcLog[i].call = c /\ IsCall(ipcLog[i])}
                    IN Cardinality(mine) = 1 /\ \A i \in mine : ipcLog[i].staged => ipcLog[i].contested
  BY DEF CallsAreShownOnce
<1> DEFINE mine == {i \in DOMAIN ipcLog : ipcLog[i].call = c /\ IsCall(ipcLog[i])}
<1>1. DOMAIN ipcLog = 1..Len(ipcLog) BY LogIsOfCalls DEF IpcInv
<1>2. PICK k \in 1..Len(ipcLog) : ipcLog[k].call = c /\ ~ipcLog[k].superseded
  BY DEF IpcInv, ShowsAll
<1>3. mine = {k} BY <1>1, <1>2 DEF IpcInv, ShowsOnce, IsCall
<1>4. Cardinality(mine) = 1 BY <1>3, FS_Singleton
<1>5. ~ipcLog[k].staged
  <2>1. EntryTells(ipcLog[k]) BY EntryOf
  <2>2. QED BY <1>2, <2>1 DEF EntryTells, TellsOf
<1>6. QED BY <1>3, <1>4, <1>5

LEMMA Outcomes == IpcInv => OutcomesAreTrue
<1> SUFFICES ASSUME IpcInv, NEW i \in DOMAIN ipcLog, ipcLog[i].call \in Calls
             PROVE  LET e == ipcLog[i]
                    IN  /\ e.mocked => e.call \notin ran /\ call[e.call] = "done"
                        /\ ~e.mocked /\ ipcOutcome(e) = "answered" => e.call \in ran
  BY DEF OutcomesAreTrue
<1>1. i \in 1..Len(ipcLog) BY LogIsOfCalls DEF IpcInv
<1>2. EntryTells(ipcLog[i]) BY <1>1, EntryOf
<1>3. ipcOutcome(ipcLog[i]) = "answered" => ipcLog[i].status = "answered"
  BY DEF ipcOutcome
<1>4. QED BY <1>2, <1>3 DEF EntryTells, OutcomeTrue

LEMMA Honest == IpcInv => StatusIsHonest
<1> SUFFICES ASSUME IpcInv, ipcCaptureStatus = "full"
             PROVE  /\ unseen = {}
                    /\ ipcIdle = "idle" => \A c \in UnderWay \ lost : call[c] \in {"reading", "failed"}
  BY DEF StatusIsHonest
<1>1. /\ (~capture.fallback /\ ~capture.post /\ capture.fetch)
           \/ (capture.post /\ hooked /\ capture.responses # "no")
  BY DEF ipcCaptureStatus
<1>2. unseen = {} BY <1>1 DEF IpcInv, UnseenIsKnown
<1>3. ASSUME ipcIdle = "idle", NEW c \in UnderWay \ lost
      PROVE  call[c] \in {"reading", "failed"}
  <2>1. call[c] \in Under /\ c \in Calls BY <1>3 DEF UnderWay
  <2>2. PICK i \in 1..Len(ipcLog) : ipcLog[i].call = c /\ ~ipcLog[i].superseded
    BY <1>2, <1>3, <2>1 DEF IpcInv, ShowsAll, Under
  <2>3. EntryTells(ipcLog[i]) BY EntryOf
  <2>4. ipcLog[i].status # "pending"
    <3>1. i \in DOMAIN ipcLog BY LogIsOfCalls DEF IpcInv
    <3>2. QED BY <1>3, <2>1, <2>2, <3>1 DEF ipcIdle
  <2>5. CASE call[c] = "posted"
    <3>1. ipcLog[i].via = "post" /\ ipcLog[i].status = AsPosted
      BY <1>2, <2>1, <2>2, <2>3, <2>5 DEF EntryTells, TellsOf
    <3>2. ~mapped BY <2>4, <3>1 DEF AsPosted
    <3>3. capture.post /\ capture.responses = "no"
      BY <2>1, <2>2, <2>3, <3>1, <3>2 DEF EntryTells, PostSeen
    <3>4. QED BY <1>1, <3>3
  <2>6. QED BY <2>1, <2>2, <2>3, <2>4, <2>5 DEF EntryTells, TellsOf, Under
<1>4. QED BY <1>2, <1>3

(* Whatever calls the page makes, by whichever transport, under any rules: each is *)
(* shown once with its own outcome, no completed call leaves a waiter waiting, and *)
(* the capture is called full only when it is.                                     *)
THEOREM CallsAreToldAlways == IpcSpec => []CallsAreTold
<1>1. IpcInv => CallsAreTold
  BY ShownOnce, Outcomes, Honest DEF IpcInv, CallsAreTold
<1>2. QED BY <1>1, IpcStart, IpcStep, PTL DEF IpcSpec

=============================================================================
