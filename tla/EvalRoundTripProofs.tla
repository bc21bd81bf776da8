------------------------ MODULE EvalRoundTripProofs ------------------------
EXTENDS EvalRoundTrip, TLAPS

(* Proofs about the eval round trip: what the caller of an eval is told is so,
   for any calls, pages, navigations and forged signals.

   - "Not sent".  The wrapper of a call is handed over by Inject alone, so a call
     that ended before it has no code anywhere (NoCode).  "The code never began" is
     said by a check that runs in the armed page.  It stands behind the wrapper in
     the box (InOrder), or has no wrapper left in limbo (LimboOk): no wrapper can
     follow it.  And code that ran earlier ran in this page (BeganHere), since a
     page that is shown has not been left: then its id is begun or settled and the
     check is silent.  With a back/forward cache the last step fails, and only it.
   - "A new page was loaded".  The confirming probe was sent when the armed page had
     been shown (ShownAs); an answer with another nonce is of another page, so the
     armed one has been left (LeftAs).                                              *)

(* The calls whose code has not been handed over. *)
Early == {"start", "probe", "probing", "inject"}

(* A script that the webview may still run. *)
InBox(s) == \E i \in 1..Len(inbox) : inbox[i] = s
Waits(s) == InBox(s) \/ s \in limbo

(* The code of c has not run and will not run. *)
NoCode(c) ==
    /\ c \notin ran
    /\ \A s \in Scripts : Waits(s) /\ s.kind = "wrap" => s.call # c

(* What a parse check that found nothing begun says, provided that pages which were
   left are not shown again.                                                       *)
Never(c) == NoCode(c) \/ BfCache

(* A page that has been shown and reports the nonce x; one that is no longer shown. *)
Shown(p) == p \in gone \/ p = page
ShownAs(x) == \E p \in Pages : Shown(p) /\ NonceOf(p) = x
LeftAs(x) == \E p \in gone : NonceOf(p) = x

(* Code that ran while the armed page is still shown began in that page, provided
   that the page has been shown ever since.                                        *)
BeganHere(c) ==
    \/ BfCache
    \/ armed[c] \in Bridged /\ armed[c] = page /\ c \in ran => c \in begun[page] \/ c \in done[page]

(* What holds of a call: the stage its code has reached, and what it was told. *)
CallOk(c) ==
    /\ pc[c] \in Early => NoCode(c) /\ rx[c] = "empty"
    /\ outcome[c] # "none" => pc[c] = "done"
    /\ rx[c] = "value" => c \in ran
    /\ rx[c] = "not_run" => Never(c)
    /\ outcome[c] = "not_sent" => NoCode(c)
    /\ outcome[c] = "not_run" => Never(c)
    /\ outcome[c] = "value" => c \in ran
    /\ outcome[c] \in Aborted => rx[c] = "empty"
    /\ outcome[c] = "reloaded" => LeftAs(armed[c])
    /\ pc[c] = "probing" => probe[c] = 1
    /\ pc[c] \in {"inject", "check", "wait"} => probe[c] >= 1
    /\ pc[c] = "confirming" => probe[c] >= 2

(* What holds of the page a call is armed with. *)
ArmedOk(c) ==
    /\ pc[c] \in {"inject", "check", "wait", "confirming"} \/ armed[c] # NoNonce => ShownAs(armed[c])
    /\ BeganHere(c)

(* What holds of a script on its way: a check names the armed page, and a confirming
   probe is of a call whose armed page has been shown.                               *)
ScriptOk(s) ==
    /\ s.kind = "check" => pc[s.call] \in {"wait", "confirming", "done"} /\ s.nonce = armed[s.call]
    /\ s.kind = "probe" => s.n >= 1
    /\ s.kind = "probe" /\ s.n >= 2 => pc[s.call] \notin Early /\ ShownAs(armed[s.call])

(* What holds of a callback on its way. *)
MessageOk(m) ==
    /\ m.kind = "settled" =>
          /\ pc[m.call] \notin Early
          /\ m.what = "value" => m.call \in ran
          /\ m.what = "not_run" => Never(m.call)
    /\ m.kind = "probe" =>
          /\ ShownAs(m.nonce)
          /\ m.n >= 2 => pc[m.call] \notin Early /\ (m.nonce # armed[m.call] => LeftAs(armed[m.call]))

(* A check never comes before the code it is about: not in the box, and code whose
   dispatch did not report back is never followed by one.                          *)
InOrder ==
    \A i, j \in 1..Len(inbox) :
        i < j /\ inbox[i].kind = "check" /\ inbox[j].kind = "wrap" => inbox[i].call # inbox[j].call
LimboOk ==
    \A s \in limbo : s.kind = "wrap" =>
        /\ pc[s.call] = "done"
        /\ \A t \in Scripts : Waits(t) /\ t.kind = "check" => t.call # s.call

(* The inductive invariant. *)
Inv ==
    /\ TypeOK
    /\ page \notin gone \/ BfCache
    /\ \A p \in Pages : begun[p] \subseteq ran
    /\ \A c \in Calls : CallOk(c) /\ ArmedOk(c)
    /\ \A s \in Scripts : Waits(s) => ScriptOk(s)
    /\ \A m \in wire : MessageOk(m)
    /\ InOrder /\ LimboOk
-----------------------------------------------------------------------------
(* The fields of a script, by its kind. *)
LEMMA ScriptShapes ==
    ASSUME NEW s \in Scripts
    PROVE  /\ s.kind \in {"probe", "wrap", "check"} /\ s.call \in Calls
           /\ s.kind = "probe" => s.n \in 0..MaxProbes + 1
           /\ s.kind = "check" => s.nonce \in Nonces
BY DEF Scripts

(* The scripts a handler sends are scripts. *)
LEMMA MakeScripts ==
    ASSUME NEW c \in Calls
    PROVE  /\ \A n \in 0..MaxProbes + 1 : [kind |-> "probe", call |-> c, n |-> n] \in Scripts
           /\ [kind |-> "wrap", call |-> c] \in Scripts
           /\ \A x \in Nonces : [kind |-> "check", call |-> c, nonce |-> x] \in Scripts
BY DEF Scripts

(* The fields of a callback, by its kind. *)
LEMMA MessageShapes ==
    ASSUME NEW m \in Messages
    PROVE  /\ m.kind \in {"probe", "settled", "ready"}
           /\ m.kind = "probe" => m.call \in Calls /\ m.n \in 0..MaxProbes + 1 /\ m.nonce \in Nonces
           /\ m.kind = "settled" => m.call \in Calls /\ m.what \in {"value", "not_run"}
           /\ m.kind = "ready" => m.nonce \in Nonces
BY DEF Messages

(* The callbacks a page sends are callbacks. *)
LEMMA MakeMessages ==
    /\ \A c \in Calls, n \in 0..MaxProbes + 1, x \in Nonces : ProbeAnswer(c, n, x) \in Messages
    /\ \A c \in Calls, w \in {"value", "not_run"} : Settled(c, w) \in Messages
    /\ \A x \in Nonces : Ready(x) \in Messages
BY DEF Messages, ProbeAnswer, Settled, Ready

(* A page reports a nonce. *)
LEMMA NonceTypes == EvalAssumption => \A p \in Pages : NonceOf(p) \in Nonces
BY DEF NonceOf, Nonces, Pages

(* The three ways a round trip can end, and what they leave in the queues. *)
LEMMA RoundTrip ==
    ASSUME inbox \in Seq(Scripts), limbo \in SUBSET Scripts, NEW s \in Scripts,
           Delivered(s) \/ Unknown(s) \/ Refused
    PROVE  /\ inbox' \in Seq(Scripts) /\ limbo' \in SUBSET Scripts
           /\ \A t : Waits(t)' => Waits(t) \/ t = s
           /\ Delivered(s) \/ Refused => limbo' = limbo
           /\ Unknown(s) => limbo' = limbo \cup {s} /\ inbox' = inbox
           /\ Refused => \A t : Waits(t)' <=> Waits(t)
<1>1. CASE Delivered(s)
  <2>1. inbox' = Append(inbox, s) /\ limbo' = limbo
    BY <1>1 DEF Delivered
  <2>2. Len(inbox') = Len(inbox) + 1 /\ inbox' \in Seq(Scripts) /\ Len(inbox) \in Nat
    BY <2>1
  <2>3. \A i \in 1..Len(inbox') : inbox'[i] = s \/ (i \in 1..Len(inbox) /\ inbox'[i] = inbox[i])
    BY <2>1, <2>2
  <2>4. \A t : Waits(t)' => Waits(t) \/ t = s
    BY <2>1, <2>2, <2>3 DEF Waits, InBox
  <2> QED
    BY <2>1, <2>2, <2>4 DEF Unknown, Refused, Waits, InBox
<1>2. CASE Unknown(s)
  BY <1>2 DEF Unknown, Refused, Delivered, Waits, InBox
<1>3. CASE Refused
  BY <1>3 DEF Unknown, Refused, Delivered, Waits, InBox
<1> QED
  BY <1>1, <1>2, <1>3

(* A script put at the end of the box keeps it in order, unless it is a wrapper
   behind a check of its call.                                                   *)
LEMMA AppendInOrder ==
    ASSUME inbox \in Seq(Scripts), NEW s \in Scripts, inbox' = Append(inbox, s), InOrder,
           s.kind = "wrap" => \A t \in Scripts : Waits(t) /\ t.kind = "check" => t.call # s.call
    PROVE  InOrder'
<1>1. Len(inbox') = Len(inbox) + 1 /\ Len(inbox) \in Nat
  OBVIOUS
<1>2. \A i \in 1..Len(inbox) : inbox'[i] = inbox[i] /\ inbox[i] \in Scripts /\ Waits(inbox[i])
  BY DEF Waits, InBox
<1>3. inbox'[Len(inbox) + 1] = s
  OBVIOUS
<1>4. SUFFICES ASSUME NEW i \in 1..Len(inbox'), NEW j \in 1..Len(inbox'), i < j,
                      inbox'[i].kind = "check", inbox'[j].kind = "wrap"
               PROVE  inbox'[i].call # inbox'[j].call
  BY DEF InOrder
<1>5. i \in 1..Len(inbox)
  BY <1>1, <1>4
<1>6. CASE j \in 1..Len(inbox)
  BY <1>2, <1>4, <1>5, <1>6 DEF InOrder
<1>7. CASE j = Len(inbox) + 1
  BY <1>2, <1>3, <1>4, <1>5, <1>7
<1> QED
  BY <1>1, <1>4, <1>6, <1>7

(* What is taken from the box's front, or the whole of it. *)
LEMMA TailQueue ==
    ASSUME inbox \in Seq(Scripts), inbox # <<>>, inbox' = Tail(inbox), UNCHANGED limbo, InOrder
    PROVE  /\ inbox' \in Seq(Scripts) /\ InOrder'
           /\ Head(inbox) \in Scripts /\ Waits(Head(inbox))
           /\ \A t : Waits(t)' => Waits(t)
           /\ Head(inbox).kind = "check" =>
                 \A i \in 1..Len(inbox') : inbox'[i].kind = "wrap" => inbox'[i].call # Head(inbox).call
<1>1. /\ Len(inbox) \in Nat /\ Len(inbox) >= 1 /\ Len(inbox') = Len(inbox) - 1
      /\ inbox' \in Seq(Scripts) /\ Head(inbox) = inbox[1]
      /\ \A i \in 1..Len(inbox') : inbox'[i] = inbox[i + 1] /\ i + 1 \in 1..Len(inbox)
  OBVIOUS
<1>2. Head(inbox) \in Scripts /\ Waits(Head(inbox))
  BY <1>1 DEF Waits, InBox
<1>3. \A t : Waits(t)' => Waits(t)
  BY <1>1 DEF Waits, InBox
<1>4. InOrder'
  BY <1>1 DEF InOrder
<1>5. Head(inbox).kind = "check" =>
         \A i \in 1..Len(inbox') : inbox'[i].kind = "wrap" => inbox'[i].call # Head(inbox).call
  <2>1. \A i \in 1..Len(inbox') : 1 < i + 1 /\ 1 \in 1..Len(inbox)
    BY <1>1
  <2> QED
    BY <1>1, <2>1 DEF InOrder
<1> QED
  BY <1>1, <1>2, <1>3, <1>4, <1>5

-----------------------------------------------------------------------------
(* Types, in parts: the provers treat Boolean values apart from the others. *)

Bools == late \in [Calls -> BOOLEAN] /\ checked \in [Calls -> BOOLEAN] /\ shutdown \in BOOLEAN
           /\ parses \in [Calls -> BOOLEAN]
HandlerTypes ==
    /\ pc \in [Calls -> {"start", "probe", "probing", "inject", "check", "wait",
                         "confirming", "done"}]
    /\ armed \in [Calls -> Nonces]
    /\ seen \in [Calls -> Nat]
    /\ prior \in [Calls -> Nat]
    /\ probe \in [Calls -> 0..MaxProbes + 1]
    /\ rx \in [Calls -> {"empty", "value", "not_run"}]
    /\ outcome \in [Calls -> {"none", "value"} \cup NotSent \cup Aborted]
WindowTypes ==
    /\ load \in [seq : Nat, nonce : Nonces]
    /\ page \in Pages \cup {NoPage}
    /\ gone \in SUBSET Pages
    /\ navs \in 0..MaxNavs
    /\ begun \in [Pages -> SUBSET Calls]
    /\ done \in [Pages -> SUBSET Calls]
    /\ wire \in SUBSET Messages
    /\ forged \in 0..MaxForged
    /\ ran \in SUBSET Calls
QueueTypes == inbox \in Seq(Scripts) /\ limbo \in SUBSET Scripts

(* The parts make up the types. *)
LEMMA TypeParts == TypeOK <=> Bools /\ HandlerTypes /\ WindowTypes /\ QueueTypes
BY DEF TypeOK, Bools, HandlerTypes, WindowTypes, QueueTypes

(* Initially the types hold. *)
LEMMA InitTypes == EvalAssumption /\ Init => TypeOK
<1> SUFFICES ASSUME EvalAssumption, Init PROVE TypeOK
  OBVIOUS
<1>1. Bools
  BY Zenon DEF Init, Bools
<1>2. HandlerTypes
  BY DEF Init, HandlerTypes, Nonces, EvalAssumption
<1>3. WindowTypes
  <2>1. wire \in SUBSET Messages
    BY MakeMessages DEF Init, Nonces, EvalAssumption
  <2>2. load \in [seq : Nat, nonce : Nonces]
    BY DEF Init, Nonces
  <2> QED
    BY <2>1, <2>2 DEF Init, WindowTypes, EvalAssumption
<1>4. QueueTypes
  BY DEF Init, QueueTypes
<1> QED
  BY <1>1, <1>2, <1>3, <1>4, TypeParts

(* A handler keeps the types. *)
LEMMA HandlerTypesKept ==
    ASSUME EvalAssumption, TypeOK, NEW c \in Calls, Handler(c) \/ Expire(c)
    PROVE  TypeOK'
<1> USE DEF EvalAssumption
<1>0. Bools /\ HandlerTypes /\ WindowTypes /\ QueueTypes
  BY TypeParts
<1>b. Bools'
  <2>1. CASE SendCheck(c)
    <3>1. late' = [late EXCEPT ![c] = FALSE] /\ UNCHANGED <<shutdown, parses>>
      BY <2>1 DEF SendCheck, UnchangedPage
    <3>2. checked' = [checked EXCEPT ![c] = (armed[c] # NoNonce)] \/ checked' = checked
      BY <2>1 DEF SendCheck
    <3>3. (armed[c] # NoNonce) \in BOOLEAN
      BY Zenon
    <3> QED
      BY <1>0, <3>1, <3>2, <3>3, Zenon DEF Bools
  <2>2. CASE Expire(c)
    <3>1. late' = [late EXCEPT ![c] = TRUE] /\ UNCHANGED <<checked, shutdown, parses>>
      BY <2>2 DEF Expire, windowVars
    <3> QED
      BY <1>0, <3>1, Zenon DEF Bools
  <2>3. CASE ~SendCheck(c) /\ ~Expire(c)
    <3>1. UNCHANGED <<late, checked, shutdown, parses>>
      BY <2>3 DEF Handler, Start, SendProbe, ProbeTimeout, Inject, Finish, SignalSeen, ConfirmTimeout,
                  Deadline, AppExiting, WindowGone, UnchangedPage, windowVars
    <3> QED
      BY <1>0, <3>1 DEF Bools
  <2> QED
    BY <2>1, <2>2, <2>3
<1>w. WindowTypes'
  <2>1. UNCHANGED <<load, page, gone, navs, begun, done, wire, forged, ran>>
    BY DEF Handler, Expire, Start, SendProbe, ProbeTimeout, Inject, SendCheck, Finish, SignalSeen,
           ConfirmTimeout, Deadline, AppExiting, WindowGone, UnchangedPage, windowVars
  <2> QED
    BY <1>0, <2>1 DEF WindowTypes
<1>q. QueueTypes'
  <2>1. CASE SendProbe(c)
    <3>1. ProbeScript(c) \in Scripts
      <4>1. probe'[c] = 1 /\ 1 \in 0..MaxProbes + 1
        BY <1>0, <2>1 DEF SendProbe, HandlerTypes
      <4> QED
        BY <4>1, MakeScripts DEF ProbeScript
    <3> QED
      BY <1>0, <2>1, <3>1, RoundTrip DEF SendProbe, QueueTypes
  <2>2. CASE Inject(c)
    BY <1>0, <2>2, RoundTrip, MakeScripts DEF Inject, QueueTypes, WrapScript
  <2>3. CASE SendCheck(c)
    <3>1. CheckScript(c) \in Scripts
      BY <1>0, MakeScripts DEF CheckScript, HandlerTypes
    <3> QED
      BY <1>0, <2>3, <3>1, RoundTrip DEF SendCheck, QueueTypes
  <2>4. CASE SignalSeen(c)
    <3>1. CASE UNCHANGED <<inbox, limbo>>
      BY <1>0, <3>1 DEF QueueTypes
    <3>2. CASE probe[c] <= MaxProbes /\ probe' = [probe EXCEPT ![c] = @ + 1]
               /\ (Delivered(ProbeScript(c)) \/ Refused \/ Unknown(ProbeScript(c)))
      <4>1. probe'[c] \in 0..MaxProbes + 1
        BY <1>0, <3>2 DEF HandlerTypes
      <4>2. ProbeScript(c) \in Scripts
        BY <4>1, MakeScripts DEF ProbeScript
      <4> QED
        BY <1>0, <3>2, <4>2, RoundTrip DEF QueueTypes
    <3> QED
      BY <2>4, <3>1, <3>2 DEF SignalSeen
  <2>5. CASE UNCHANGED <<inbox, limbo>>
    BY <1>0, <2>5 DEF QueueTypes
  <2> QED
    BY <2>1, <2>2, <2>3, <2>4, <2>5
       DEF Handler, Expire, Start, ProbeTimeout, Finish, ConfirmTimeout, Deadline, AppExiting,
           WindowGone, windowVars
<1>h. HandlerTypes'
  <2>1. CASE Start(c)
    BY <1>0, <2>1 DEF Start, End, HandlerTypes, WindowTypes, NotSent
  <2>2. CASE SendProbe(c)
    BY <1>0, <2>2 DEF SendProbe, End, HandlerTypes, NotSent
  <2>3. CASE ProbeTimeout(c)
    BY <1>0, <2>3 DEF ProbeTimeout, End, HandlerTypes, NotSent
  <2>4. CASE Inject(c)
    BY <1>0, <2>4 DEF Inject, End, HandlerTypes, NotSent, Aborted
  <2>5. CASE SendCheck(c)
    BY <1>0, <2>5 DEF SendCheck, HandlerTypes
  <2>6. CASE Finish(c)
    BY <1>0, <2>6 DEF Finish, End, HandlerTypes, NotSent
  <2>7. CASE SignalSeen(c)
    <3>1. pc' \in [Calls -> {"start", "probe", "probing", "inject", "check", "wait",
                            "confirming", "done"}]
      BY <1>0, <2>7 DEF SignalSeen, HandlerTypes
    <3>2. probe' \in [Calls -> 0..MaxProbes + 1]
      BY <1>0, <2>7 DEF SignalSeen, HandlerTypes
    <3>3. load.seq \in Nat
      BY <1>0 DEF WindowTypes
    <3>4. seen' \in [Calls -> Nat] /\ prior' \in [Calls -> Nat]
      BY <1>0, <2>7, <3>3 DEF SignalSeen, HandlerTypes
    <3> QED
      BY <1>0, <2>7, <3>1, <3>2, <3>4 DEF SignalSeen, HandlerTypes
  <2>8. CASE ConfirmTimeout(c)
    BY <1>0, <2>8 DEF ConfirmTimeout, HandlerTypes
  <2>9. CASE Deadline(c)
    BY <1>0, <2>9 DEF Deadline, EndUnlessArrived, End, HandlerTypes, NotSent, Aborted
  <2>10. CASE AppExiting(c)
    BY <1>0, <2>10 DEF AppExiting, EndUnlessArrived, End, HandlerTypes, NotSent, Aborted
  <2>11. CASE WindowGone(c)
    BY <1>0, <2>11 DEF WindowGone, EndUnlessArrived, End, HandlerTypes, NotSent, Aborted
  <2>12. CASE Expire(c)
    BY <1>0, <2>12 DEF Expire, HandlerTypes
  <2> QED
    BY <2>1, <2>2, <2>3, <2>4, <2>5, <2>6, <2>7, <2>8, <2>9, <2>10, <2>11, <2>12 DEF Handler
<1> QED
  BY <1>b, <1>w, <1>q, <1>h DEF TypeOK, Bools, HandlerTypes, WindowTypes, QueueTypes

(* The window keeps the types. *)
LEMMA PageTypesKept ==
    ASSUME EvalAssumption, TypeOK,
           \/ \E c \in Calls : Settle(c)
           \/ RunScript \/ LimboArrives \/ Navigate \/ CloseWindow \/ Forge \/ BeginShutdown
    PROVE  TypeOK'
<1> USE DEF EvalAssumption
<1>0. Bools /\ HandlerTypes /\ WindowTypes /\ QueueTypes
  BY TypeParts
<1>b. Bools'
  <2>1. UNCHANGED <<late, checked, parses>>
    BY DEF Settle, RunScript, LimboArrives, Navigate, CloseWindow, Forge, BeginShutdown, handlerVars,
           windowVars
  <2>2. shutdown' = shutdown \/ shutdown' = TRUE
    BY DEF Settle, RunScript, LimboArrives, Navigate, CloseWindow, Forge, BeginShutdown
  <2> QED
    BY <1>0, <2>1, <2>2, Zenon DEF Bools
<1>h. HandlerTypes'
  <2>1. UNCHANGED <<pc, armed, seen, prior, probe, rx, outcome>>
    BY DEF Settle, RunScript, LimboArrives, Navigate, CloseWindow, Forge, BeginShutdown, handlerVars
  <2> QED
    BY <1>0, <2>1 DEF HandlerTypes
<1>1. CASE \E c \in Calls : Settle(c)
  <2>1. PICK c \in Calls : Settle(c)
    BY <1>1
  <2>2. page \in Pages
    BY <1>0, <2>1 DEF Settle, WindowTypes
  <2>3. Settled(c, "value") \in Messages
    BY MakeMessages
  <2>4. /\ begun' = [begun EXCEPT ![page] = begun[page] \ {c}]
        /\ done' = [done EXCEPT ![page] = done[page] \cup {c}]
        /\ wire' = wire \cup {Settled(c, "value")}
        /\ UNCHANGED <<load, page, gone, navs, inbox, limbo, forged, ran>>
    BY <2>1 DEF Settle
  <2>5. WindowTypes'
    BY <1>0, <2>2, <2>3, <2>4 DEF WindowTypes
  <2> QED
    BY <1>0, <1>b, <1>h, <2>4, <2>5 DEF TypeOK, Bools, HandlerTypes, WindowTypes, QueueTypes
<1>2. CASE RunScript
  <2> DEFINE s == Head(inbox)
  <2>1. s \in Scripts /\ page \in Pages /\ inbox' \in Seq(Scripts)
    BY <1>0, <1>2 DEF RunScript, QueueTypes, WindowTypes
  <2>2. /\ s.kind = "probe" => RunProbe(s)
        /\ s.kind = "wrap" => RunWrap(s)
        /\ s.kind = "check" => RunCheck(s)
    BY <1>2 DEF RunScript
  <2>3. UNCHANGED <<load, page, gone, navs, limbo, forged>>
    BY <1>2 DEF RunScript
  <2> HIDE DEF s
  <2>4. NonceOf(page) \in Nonces
    BY <2>1, NonceTypes
  <2>5. WindowTypes'
    <3>1. CASE s.kind = "probe"
      <4>1. ProbeAnswer(s.call, s.n, NonceOf(page)) \in Messages
        BY <2>1, <2>4, <3>1, ScriptShapes, MakeMessages
      <4> QED
        BY <1>0, <2>2, <2>3, <3>1, <4>1 DEF WindowTypes, RunProbe
    <3>2. CASE s.kind = "wrap"
      BY <1>0, <2>1, <2>2, <2>3, <3>2, ScriptShapes DEF WindowTypes, RunWrap
    <3>3. CASE s.kind = "check"
      <4>1. Settled(s.call, "not_run") \in Messages /\ s.call \in Calls
        BY <2>1, ScriptShapes, MakeMessages
      <4> QED
        BY <1>0, <2>1, <2>2, <2>3, <3>3, <4>1 DEF WindowTypes, RunCheck
    <3> QED
      BY <2>1, <3>1, <3>2, <3>3, ScriptShapes
  <2> QED
    BY <1>0, <1>b, <1>h, <2>1, <2>3, <2>5 DEF TypeOK, Bools, HandlerTypes, WindowTypes, QueueTypes
<1>3. CASE LimboArrives
  <2>1. UNCHANGED <<load, page, gone, navs, begun, done, wire, forged, ran>>
    BY <1>3 DEF LimboArrives
  <2>2. QueueTypes'
    BY <1>0, <1>3 DEF LimboArrives, QueueTypes
  <2> QED
    BY <1>0, <1>b, <1>h, <2>1, <2>2 DEF TypeOK, Bools, HandlerTypes, WindowTypes, QueueTypes
<1>4. CASE Navigate
  <2>1. UNCHANGED <<load, limbo, begun, done, forged, ran>> /\ inbox' \in {inbox, <<>>}
        /\ navs < MaxNavs /\ navs' = navs + 1 /\ page # NoPage /\ gone' = gone \cup {page}
    BY <1>4 DEF Navigate
  <2>2. PICK p \in Pages : /\ page' = p
                           /\ wire' \in {wire \cup (IF p \in Bridged THEN {Ready(p)} ELSE {}),
                                        {} \cup (IF p \in Bridged THEN {Ready(p)} ELSE {})}
    BY <1>4 DEF Navigate
  <2>3. p \in Bridged => Ready(p) \in Messages
    BY MakeMessages DEF Nonces
  <2>4. WindowTypes'
    BY <1>0, <2>1, <2>2, <2>3 DEF WindowTypes
  <2>5. QueueTypes'
    <3>1. <<>> \in Seq(Scripts)
      OBVIOUS
    <3> QED
      BY <1>0, <2>1, <3>1 DEF QueueTypes
  <2> QED
    BY <1>b, <1>h, <2>4, <2>5 DEF TypeOK, Bools, HandlerTypes, WindowTypes, QueueTypes
<1>5. CASE CloseWindow
  <2>1. WindowTypes'
    BY <1>0, <1>5 DEF CloseWindow, WindowTypes
  <2>2. QueueTypes'
    BY <1>0, <1>5 DEF CloseWindow, QueueTypes
  <2> QED
    BY <1>b, <1>h, <2>1, <2>2 DEF TypeOK, Bools, HandlerTypes, WindowTypes, QueueTypes
<1>6. CASE Forge
  <2>1. WindowTypes'
    BY <1>0, <1>6, MakeMessages DEF Forge, WindowTypes
  <2>2. QueueTypes'
    BY <1>0, <1>6 DEF Forge, QueueTypes
  <2> QED
    BY <1>b, <1>h, <2>1, <2>2 DEF TypeOK, Bools, HandlerTypes, WindowTypes, QueueTypes
<1>7. CASE BeginShutdown
  <2>1. WindowTypes' /\ QueueTypes'
    BY <1>0, <1>7 DEF BeginShutdown, windowVars, WindowTypes, QueueTypes
  <2> QED
    BY <1>b, <1>h, <2>1 DEF TypeOK, Bools, HandlerTypes, WindowTypes, QueueTypes
<1> QED
  BY <1>1, <1>2, <1>3, <1>4, <1>5, <1>6, <1>7

(* What a callback does, by the kind of message it brings. *)
LEMMA CallbackCases ==
    ASSUME TypeOK, Callback
    PROVE  \E m \in wire :
              /\ wire' = wire \ {m}
              /\ \/ m.kind = "ready" /\ RecordLoad(m)
                 \/ m.kind = "probe" /\ ProbeAnswered(m)
                 \/ m.kind = "settled" /\ OutcomeArrived(m)
<1>1. PICK m \in wire : /\ CASE m.kind = "ready"   -> RecordLoad(m)
                              [] m.kind = "probe"   -> ProbeAnswered(m)
                              [] m.kind = "settled" -> OutcomeArrived(m)
                        /\ wire' = wire \ {m}
  BY DEF Callback
<1>2. m.kind \in {"probe", "settled", "ready"}
  BY MessageShapes DEF TypeOK
<1> QED
  BY <1>1, <1>2

(* A callback keeps the types. *)
LEMMA CallbackTypesKept ==
    ASSUME EvalAssumption, TypeOK, Callback
    PROVE  TypeOK'
<1>0. Bools /\ HandlerTypes /\ WindowTypes /\ QueueTypes
  BY TypeParts
<1>1. UNCHANGED <<shutdown, page, gone, navs, inbox, limbo, begun, done, forged, parses, ran>>
  BY DEF Callback
<1>2. PICK m \in wire :
          /\ wire' = wire \ {m}
          /\ \/ m.kind = "ready" /\ RecordLoad(m)
             \/ m.kind = "probe" /\ ProbeAnswered(m)
             \/ m.kind = "settled" /\ OutcomeArrived(m)
  BY CallbackCases
<1>3. m \in Messages
  BY <1>0 DEF WindowTypes
<1>4. Bools'
  <2>1. UNCHANGED <<late, checked>>
    BY <1>2 DEF RecordLoad, ProbeAnswered, OutcomeArrived, handlerVars
  <2> QED
    BY <1>0, <1>1, <2>1 DEF Bools
<1>5. QueueTypes'
  BY <1>0, <1>1 DEF QueueTypes
<1>6. CASE m.kind = "ready"
  <2>1. RecordLoad(m)
    BY <1>2, <1>6
  <2>2. m.nonce \in Nonces
    BY <1>3, <1>6, MessageShapes
  <2>3. WindowTypes'
    BY <1>0, <1>1, <1>2, <2>1, <2>2 DEF WindowTypes, RecordLoad
  <2>4. HandlerTypes'
    BY <1>0, <2>1 DEF RecordLoad, handlerVars, HandlerTypes
  <2> QED
    BY <1>4, <1>5, <2>3, <2>4 DEF TypeOK, Bools, HandlerTypes, WindowTypes, QueueTypes
<1>7. CASE m.kind = "probe"
  <2>1. ProbeAnswered(m)
    BY <1>2, <1>7
  <2>2. m.nonce \in Nonces /\ m.call \in Calls
    BY <1>3, <1>7, MessageShapes
  <2>3. WindowTypes'
    BY <1>0, <1>1, <1>2, <2>1 DEF WindowTypes, ProbeAnswered
  <2>4. HandlerTypes'
    BY <1>0, <2>1, <2>2 DEF ProbeAnswered, EndUnlessArrived, End, HandlerTypes, NotSent, Aborted
  <2> QED
    BY <1>4, <1>5, <2>3, <2>4 DEF TypeOK, Bools, HandlerTypes, WindowTypes, QueueTypes
<1>8. CASE m.kind = "settled"
  <2>1. OutcomeArrived(m)
    BY <1>2, <1>8
  <2>2. m.what \in {"value", "not_run"} /\ m.call \in Calls
    BY <1>3, <1>8, MessageShapes
  <2>3. WindowTypes'
    BY <1>0, <1>1, <1>2, <2>1 DEF WindowTypes, OutcomeArrived
  <2>4. HandlerTypes'
    BY <1>0, <2>1, <2>2 DEF OutcomeArrived, HandlerTypes
  <2> QED
    BY <1>4, <1>5, <2>3, <2>4 DEF TypeOK, Bools, HandlerTypes, WindowTypes, QueueTypes
<1> QED
  BY <1>2, <1>6, <1>7, <1>8

-----------------------------------------------------------------------------
(* Code that will never run stays so, unless its wrapper is handed over. *)
LEMMA NoCodeKept ==
    ASSUME NEW c \in Calls, NoCode(c), c \in ran' => c \in ran,
           \A t \in Scripts : Waits(t)' /\ t.kind = "wrap" /\ t.call = c => Waits(t)
    PROVE  NoCode(c)'
BY DEF NoCode

(* Everything but the handler of one call, and the queues, stays as it is. *)
OthersStay(c) ==
    /\ \A d \in Calls \ {c} :
          /\ pc'[d] = pc[d] /\ armed'[d] = armed[d] /\ rx'[d] = rx[d]
          /\ outcome'[d] = outcome[d] /\ probe'[d] = probe[d]
    /\ armed'[c] = armed[c] /\ rx'[c] = rx[c]
    /\ page' = page /\ gone' = gone /\ begun' = begun /\ done' = done
    /\ wire' = wire /\ ran' = ran

(* A handler's step keeps the invariant if the script it sends, if any, is in its
   place and its own call is as it should be.                                      *)
LEMMA HandlerKeeps ==
    ASSUME EvalAssumption, Inv, TypeOK', NEW c \in Calls, NEW s \in Scripts, OthersStay(c),
           s.call = c,
           s.kind = "wrap" => pc[c] = "inject",
           \A t : Waits(t)' => Waits(t) \/ t = s,
           pc[c] \notin Early => pc'[c] \notin Early,
           pc[c] \in {"wait", "confirming", "done"} => pc'[c] \in {"wait", "confirming", "done"},
           pc'[c] \in {"inject", "check", "wait", "confirming"} =>
               pc[c] \in {"inject", "check", "wait", "confirming"},
           CallOk(c)',
           Waits(s)' /\ ~Waits(s) => ScriptOk(s)',
           InOrder', LimboOk'
    PROVE  Inv'
<1>1. \A d \in Calls : NoCode(d) /\ ~(s.kind = "wrap" /\ d = c) => NoCode(d)'
  BY NoCodeKept DEF OthersStay
<1>2. \A x : (ShownAs(x)' <=> ShownAs(x)) /\ (LeftAs(x)' <=> LeftAs(x))
  BY DEF ShownAs, LeftAs, Shown, OthersStay
<1>3. \A d \in Calls : CallOk(d) /\ ArmedOk(d)
  BY DEF Inv
<1>4. \A d \in Calls : CallOk(d)'
  <2> SUFFICES ASSUME NEW d \in Calls, d # c PROVE CallOk(d)'
    OBVIOUS
  <2> QED
    BY <1>1, <1>2, <1>3 DEF CallOk, OthersStay, Never
<1>5. \A d \in Calls : ArmedOk(d)'
  <2> SUFFICES ASSUME NEW d \in Calls PROVE ArmedOk(d)'
    OBVIOUS
  <2>1. armed'[d] = armed[d]
    BY DEF OthersStay
  <2>2. pc'[d] \in {"inject", "check", "wait", "confirming"} =>
            pc[d] \in {"inject", "check", "wait", "confirming"}
    BY DEF OthersStay
  <2> QED
    BY <1>2, <1>3, <2>1, <2>2 DEF ArmedOk, OthersStay, BeganHere
<1>6. ASSUME NEW t \in Scripts, Waits(t)'
      PROVE  ScriptOk(t)'
  <2>1. CASE ~Waits(t)
    BY <1>6, <2>1
  <2>2. CASE Waits(t)
    <3>1. ScriptOk(t) /\ t.call \in Calls
      BY <1>6, <2>2, ScriptShapes DEF Inv
    <3>2. pc[t.call] \notin Early => pc'[t.call] \notin Early
      BY <3>1 DEF OthersStay
    <3>3. pc[t.call] \in {"wait", "confirming", "done"} => pc'[t.call] \in {"wait", "confirming", "done"}
      BY <3>1 DEF OthersStay
    <3>4. armed'[t.call] = armed[t.call]
      BY <3>1 DEF OthersStay
    <3> QED
      BY <1>2, <3>1, <3>2, <3>3, <3>4 DEF ScriptOk
  <2> QED
    BY <2>1, <2>2
<1>7. ASSUME NEW m \in wire
      PROVE  MessageOk(m)'
  <2>1. MessageOk(m) /\ m \in Messages
    BY DEF Inv, TypeOK
  <2>2. CASE m.kind = "settled"
    <3>1. m.call \in Calls
      BY <2>1, <2>2, MessageShapes
    <3>2. pc[m.call] \notin Early
      BY <2>1, <2>2 DEF MessageOk, Never
    <3>3. pc'[m.call] \notin Early
      BY <3>1, <3>2 DEF OthersStay
    <3>4. NoCode(m.call) => NoCode(m.call)'
      BY <1>1, <3>1, <3>2 DEF Early
    <3> QED
      BY <2>1, <2>2, <3>3, <3>4 DEF MessageOk, OthersStay, Never
  <2>3. CASE m.kind = "probe"
    <3>1. m.call \in Calls
      BY <2>1, <2>3, MessageShapes
    <3>2. pc[m.call] \notin Early => pc'[m.call] \notin Early
      BY <3>1 DEF OthersStay
    <3>3. armed'[m.call] = armed[m.call]
      BY <3>1 DEF OthersStay
    <3> QED
      BY <1>2, <2>1, <2>3, <3>2, <3>3 DEF MessageOk, Never
  <2>4. CASE m.kind = "ready"
    BY <2>4 DEF MessageOk, Never
  <2> QED
    BY <2>1, <2>2, <2>3, <2>4, MessageShapes
<1> QED
  BY <1>4, <1>5, <1>6, <1>7 DEF Inv, OthersStay

(* The others' part of a handler's step. *)
LEMMA HandlerEffect ==
    ASSUME TypeOK, NEW c \in Calls, Handler(c) \/ Expire(c)
    PROVE  OthersStay(c)
<1>1. /\ pc \in [Calls -> {"start", "probe", "probing", "inject", "check", "wait", "confirming", "done"}]
      /\ armed \in [Calls -> Nonces]
      /\ probe \in [Calls -> 0..MaxProbes + 1]
      /\ rx \in [Calls -> {"empty", "value", "not_run"}]
      /\ outcome \in [Calls -> {"none", "value"} \cup NotSent \cup Aborted]
  BY DEF TypeOK
<1>2. UNCHANGED <<armed, rx, page, gone, begun, done, wire, ran>>
  BY DEF Handler, Expire, Start, SendProbe, ProbeTimeout, Inject, SendCheck, Finish, SignalSeen,
         ConfirmTimeout, Deadline, AppExiting, WindowGone, UnchangedPage, windowVars
<1>3. \A d \in Calls \ {c} : pc'[d] = pc[d]
  BY <1>1 DEF Handler, Expire, Start, SendProbe, ProbeTimeout, Inject, SendCheck, Finish, SignalSeen,
         ConfirmTimeout, Deadline, AppExiting, WindowGone, End, EndUnlessArrived
<1>4. \A d \in Calls \ {c} : outcome'[d] = outcome[d]
  BY <1>1 DEF Handler, Expire, Start, SendProbe, ProbeTimeout, Inject, SendCheck, Finish, SignalSeen,
         ConfirmTimeout, Deadline, AppExiting, WindowGone, End, EndUnlessArrived
<1>5. \A d \in Calls \ {c} : probe'[d] = probe[d]
  BY <1>1 DEF Handler, Expire, Start, SendProbe, ProbeTimeout, Inject, SendCheck, Finish, SignalSeen,
         ConfirmTimeout, Deadline, AppExiting, WindowGone
<1> QED
  BY <1>2, <1>3, <1>4, <1>5 DEF OthersStay

(* A handler's step that sends nothing. *)
LEMMA QuietKeeps ==
    ASSUME EvalAssumption, Inv, TypeOK', NEW c \in Calls, OthersStay(c), UNCHANGED <<inbox, limbo>>,
           pc[c] \notin Early => pc'[c] \notin Early,
           pc[c] \in {"wait", "confirming", "done"} => pc'[c] \in {"wait", "confirming", "done"},
           pc[c] = "done" => pc'[c] = "done",
           pc'[c] \in {"inject", "check", "wait", "confirming"} =>
               pc[c] \in {"inject", "check", "wait", "confirming"},
           (NoCode(c)' <=> NoCode(c)) => CallOk(c)'
    PROVE  Inv'
<1>1. \A t : Waits(t)' <=> Waits(t)
  BY DEF Waits, InBox
<1>2. InOrder'
  BY DEF Inv, InOrder
<1>3. LimboOk'
  <2>1. \A t \in limbo : t \in Scripts /\ t.call \in Calls
    BY ScriptShapes DEF Inv, TypeOK
  <2>2. \A d \in Calls : pc[d] = "done" => pc'[d] = "done"
    BY DEF OthersStay
  <2> QED
    BY <1>1, <2>1, <2>2 DEF Inv, LimboOk
<1>4. NoCode(c)' <=> NoCode(c)
  BY <1>1 DEF NoCode, OthersStay
<1> DEFINE s == [kind |-> "probe", call |-> c, n |-> 0]
<1>5. s \in Scripts /\ s.call = c /\ s.kind # "wrap"
  <2>1. 0 \in 0..MaxProbes + 1
    BY DEF EvalAssumption
  <2> QED
    BY <2>1, MakeScripts
<1>6. Waits(s)' => Waits(s)
  BY <1>1
<1> HIDE DEF s
<1>7. CallOk(c)'
  BY <1>4
<1> QED
  BY <1>1, <1>2, <1>3, <1>5, <1>6, <1>7, HandlerKeeps

(* A handler's step that sends a probe or a check. *)
LEMMA SendKeeps ==
    ASSUME EvalAssumption, Inv, TypeOK', NEW c \in Calls, OthersStay(c), NEW s \in Scripts,
           Delivered(s) \/ Unknown(s) \/ Refused,
           s.call = c, s.kind # "wrap",
           pc[c] # "done",
           pc[c] \notin Early => pc'[c] \notin Early,
           pc[c] \in {"wait", "confirming", "done"} => pc'[c] \in {"wait", "confirming", "done"},
           pc'[c] \in {"inject", "check", "wait", "confirming"} =>
               pc[c] \in {"inject", "check", "wait", "confirming"},
           (NoCode(c)' <=> NoCode(c)) => CallOk(c)',
           ScriptOk(s)'
    PROVE  Inv'
<1>0. inbox \in Seq(Scripts) /\ limbo \in SUBSET Scripts
  BY DEF Inv, TypeOK
<1>1. /\ \A t : Waits(t)' => Waits(t) \/ t = s
      /\ Delivered(s) \/ Refused => limbo' = limbo
      /\ Unknown(s) => limbo' = limbo \cup {s} /\ inbox' = inbox
  BY <1>0, RoundTrip
<1>2. \A t : Waits(t) => Waits(t)'
  <2>1. CASE Delivered(s)
    <3>1. inbox' = Append(inbox, s) /\ limbo' = limbo
      BY <2>1 DEF Delivered
    <3>2. \A i \in 1..Len(inbox) : i \in 1..Len(inbox') /\ inbox'[i] = inbox[i]
      BY <1>0, <3>1
    <3> QED
      BY <3>1, <3>2 DEF Waits, InBox
  <2>2. CASE Unknown(s)
    BY <2>2 DEF Unknown, Waits, InBox
  <2>3. CASE Refused
    BY <2>3 DEF Refused, Waits, InBox
  <2> QED
    BY <2>1, <2>2, <2>3
<1>3. NoCode(c)' <=> NoCode(c)
  BY <1>1, <1>2 DEF NoCode, OthersStay
<1>4. InOrder'
  <2>1. InOrder
    BY DEF Inv
  <2>2. CASE Delivered(s)
    BY <1>0, <2>1, <2>2, AppendInOrder DEF Delivered
  <2>3. CASE inbox' = inbox
    BY <2>1, <2>3 DEF InOrder
  <2> QED
    BY <2>2, <2>3 DEF Unknown, Refused
<1>5. LimboOk'
  <2>1. LimboOk
    BY DEF Inv
  <2>2. \A t \in limbo : t.call \in Calls
    BY <1>0, ScriptShapes
  <2>3. \A t \in limbo' : t.kind = "wrap" => t \in limbo
    BY <1>1
  <2>4. \A t \in limbo : t.kind = "wrap" => t.call # c /\ pc'[t.call] = "done"
    BY <2>1, <2>2 DEF LimboOk, OthersStay
  <2> QED
    BY <1>1, <2>1, <2>3, <2>4 DEF LimboOk
<1>6. CallOk(c)'
  BY <1>3
<1> QED
  BY <1>1, <1>4, <1>5, <1>6, HandlerKeeps

(* Inject hands over the code. *)
LEMMA InjectKeeps ==
    ASSUME EvalAssumption, Inv, TypeOK', NEW c \in Calls, OthersStay(c), Inject(c)
    PROVE  Inv'
<1> DEFINE s == WrapScript(c)
<1>0. /\ inbox \in Seq(Scripts) /\ limbo \in SUBSET Scripts /\ s \in Scripts
      /\ s.call = c /\ s.kind = "wrap"
  BY MakeScripts DEF Inv, TypeOK, WrapScript
<1>1. pc[c] = "inject" /\ CallOk(c)
  BY DEF Inject, Inv
<1>2. probe' = probe
  BY DEF Inject
<1>3. rx'[c] = rx[c] /\ rx[c] = "empty" /\ outcome[c] = "none" /\ probe'[c] >= 1
  BY <1>1, <1>2 DEF CallOk, Early, OthersStay, Never
<1>4. NoCode(c)
  BY <1>1 DEF CallOk, Early, Never
<1>5. /\ pc \in [Calls -> {"start", "probe", "probing", "inject", "check", "wait", "confirming", "done"}]
      /\ outcome \in [Calls -> {"none", "value"} \cup NotSent \cup Aborted]
  BY DEF Inv, TypeOK
<1>6. \A t \in Scripts : Waits(t) /\ t.kind = "check" => t.call # c
  <2>1. \A t \in Scripts : Waits(t) => ScriptOk(t)
    BY DEF Inv
  <2> QED
    BY <1>1, <2>1 DEF ScriptOk
<1>7. InOrder /\ LimboOk
  BY DEF Inv
<1>8. \A t \in limbo : t.call \in Calls /\ (t.kind = "wrap" => t.call # c /\ pc'[t.call] = "done")
  BY <1>0, <1>1, <1>7, ScriptShapes DEF LimboOk, OthersStay
<1> HIDE DEF s
<1>9. CASE Refused /\ End(c, "not_sent")
  <2>1. pc'[c] = "done" /\ outcome'[c] = "not_sent"
    BY <1>5, <1>9 DEF End
  <2>2. (NoCode(c)' <=> NoCode(c)) => CallOk(c)'
    BY <1>3, <1>4, <2>1 DEF CallOk, Early, NotSent, Aborted, Never
  <2> QED
    BY <1>1, <1>9, <2>1, <2>2, QuietKeeps DEF Refused, Early
<1>10. CASE Delivered(s) /\ pc' = [pc EXCEPT ![c] = "check"] /\ UNCHANGED outcome
  <2>1. pc'[c] = "check" /\ outcome'[c] = "none"
    BY <1>3, <1>5, <1>10
  <2>2. CallOk(c)'
    BY <1>3, <2>1 DEF CallOk, Early, NotSent, Aborted, Never
  <2>3. inbox' = Append(inbox, s) /\ limbo' = limbo
    BY <1>10 DEF Delivered
  <2>4. InOrder'
    BY <1>0, <1>6, <1>7, <2>3, AppendInOrder
  <2>5. \A t : Waits(t)' => Waits(t) \/ t = s
    BY <1>0, <1>10, RoundTrip
  <2>6. LimboOk'
    BY <1>0, <1>7, <1>8, <2>3, <2>5 DEF LimboOk
  <2>7. ScriptOk(s)'
    BY <1>0 DEF ScriptOk
  <2> QED
    BY <1>0, <1>1, <2>1, <2>2, <2>4, <2>5, <2>6, <2>7, HandlerKeeps DEF Early
<1>11. CASE Unknown(s) /\ End(c, "inject_unknown")
  <2>1. pc'[c] = "done" /\ outcome'[c] = "inject_unknown"
    BY <1>5, <1>11 DEF End
  <2>2. CallOk(c)'
    BY <1>3, <2>1 DEF CallOk, Early, NotSent, Aborted, Never
  <2>3. inbox' = inbox /\ limbo' = limbo \cup {s}
    BY <1>11 DEF Unknown
  <2>4. InOrder'
    BY <1>7, <2>3 DEF InOrder
  <2>5. \A t : Waits(t)' => Waits(t) \/ t = s
    BY <1>0, <1>11, RoundTrip
  <2>6. LimboOk'
    BY <1>0, <1>6, <1>7, <1>8, <2>1, <2>3, <2>5 DEF LimboOk
  <2>7. ScriptOk(s)'
    BY <1>0 DEF ScriptOk
  <2> QED
    BY <1>0, <1>1, <2>1, <2>2, <2>4, <2>5, <2>6, <2>7, HandlerKeeps DEF Early
<1> QED
  BY <1>9, <1>10, <1>11 DEF Inject, s

(* Each step of a handler. *)
LEMMA HandlerInv ==
    ASSUME EvalAssumption, Inv, NEW c \in Calls, Handler(c) \/ Expire(c)
    PROVE  Inv'
<1>t. TypeOK'
  BY HandlerTypesKept DEF Inv
<1>o. OthersStay(c)
  BY HandlerEffect DEF Inv
<1>0. /\ pc \in [Calls -> {"start", "probe", "probing", "inject", "check", "wait", "confirming", "done"}]
      /\ armed \in [Calls -> Nonces]
      /\ probe \in [Calls -> 0..MaxProbes + 1]
      /\ rx \in [Calls -> {"empty", "value", "not_run"}]
      /\ outcome \in [Calls -> {"none", "value"} \cup NotSent \cup Aborted]
      /\ MaxProbes \in Nat
  BY DEF Inv, TypeOK, EvalAssumption
<1>1. CallOk(c) /\ ArmedOk(c)
  BY DEF Inv
<1>2. rx'[c] = rx[c] /\ armed'[c] = armed[c] /\ ran' = ran /\ gone' = gone
  BY <1>o DEF OthersStay
<1>3. \A x : LeftAs(x)' <=> LeftAs(x)
  BY <1>2 DEF LeftAs
<1>4. CASE Start(c)
  <2>1. pc[c] = "start" /\ UNCHANGED <<inbox, limbo, probe>>
        /\ \/ pc'[c] = "done" /\ outcome'[c] = "not_sent"
           \/ pc'[c] = "probe" /\ outcome'[c] = outcome[c]
    BY <1>0, <1>4 DEF Start, End, windowVars
  <2>2. (NoCode(c)' <=> NoCode(c)) => CallOk(c)'
    BY <1>0, <1>1, <1>2, <2>1 DEF CallOk, Early, NotSent, Aborted, Never
  <2> QED
    BY <1>t, <1>o, <2>1, <2>2, QuietKeeps DEF Early
<1>5. CASE SendProbe(c)
  <2>1. pc[c] = "probe" /\ probe'[c] = 1 /\ 1 \in 0..MaxProbes + 1
        /\ \/ pc'[c] = "done" /\ outcome'[c] = "not_sent"
           \/ pc'[c] = "probing" /\ outcome'[c] = outcome[c]
    BY <1>0, <1>5 DEF SendProbe, End
  <2>2. PICK s \in Scripts : s = [kind |-> "probe", call |-> c, n |-> 1]
    BY <2>1, MakeScripts
  <2>3. Delivered(s) \/ Unknown(s) \/ Refused
    BY <1>5, <2>1, <2>2 DEF SendProbe, ProbeScript
  <2>4. ScriptOk(s)'
    BY <2>2 DEF ScriptOk
  <2>5. (NoCode(c)' <=> NoCode(c)) => CallOk(c)'
    BY <1>0, <1>1, <1>2, <2>1 DEF CallOk, Early, NotSent, Aborted, Never
  <2> QED
    BY <1>t, <1>o, <2>1, <2>2, <2>3, <2>4, <2>5, SendKeeps DEF Early
<1>6. CASE ProbeTimeout(c)
  <2>1. pc[c] = "probing" /\ UNCHANGED <<inbox, limbo, probe>>
        /\ pc'[c] = "done" /\ outcome'[c] = "not_sent"
    BY <1>0, <1>6 DEF ProbeTimeout, End, windowVars
  <2>2. (NoCode(c)' <=> NoCode(c)) => CallOk(c)'
    BY <1>0, <1>1, <1>2, <2>1 DEF CallOk, Early, NotSent, Aborted, Never
  <2> QED
    BY <1>t, <1>o, <2>1, <2>2, QuietKeeps DEF Early
<1>7. CASE Inject(c)
  BY <1>t, <1>o, <1>7, InjectKeeps
<1>8. CASE SendCheck(c)
  <2>1. pc[c] = "check" /\ pc'[c] = "wait" /\ UNCHANGED <<outcome, probe>>
    BY <1>0, <1>8 DEF SendCheck
  <2>2. PICK s \in Scripts : s = [kind |-> "check", call |-> c, nonce |-> armed[c]]
    BY <1>0, MakeScripts
  <2>3. Delivered(s) \/ Unknown(s) \/ Refused
    BY <1>8, <2>2 DEF SendCheck, CheckScript
  <2>4. ScriptOk(s)'
    BY <1>2, <2>1, <2>2 DEF ScriptOk
  <2>5. (NoCode(c)' <=> NoCode(c)) => CallOk(c)'
    BY <1>0, <1>1, <1>2, <2>1 DEF CallOk, Early, NotSent, Aborted, Never
  <2> QED
    BY <1>t, <1>o, <2>1, <2>2, <2>3, <2>4, <2>5, SendKeeps DEF Early
<1>9. CASE \/ Finish(c) \/ Deadline(c) \/ AppExiting(c) \/ WindowGone(c)
  <2>1. pc[c] = "wait" /\ UNCHANGED <<inbox, limbo, probe>> /\ pc'[c] = "done"
        /\ \/ rx[c] # "empty" /\ outcome'[c] = rx[c]
           \/ rx[c] = "empty" /\ outcome'[c] \in Aborted \ {"reloaded"}
    BY <1>0, <1>9 DEF Finish, Deadline, AppExiting, WindowGone, EndUnlessArrived, End, windowVars, Aborted
  <2>2. (NoCode(c)' <=> NoCode(c)) => CallOk(c)'
    BY <1>0, <1>1, <1>2, <2>1 DEF CallOk, Early, NotSent, Aborted, Never
  <2> QED
    BY <1>t, <1>o, <2>1, <2>2, QuietKeeps DEF Early
<1>10. CASE SignalSeen(c)
  <2>0. outcome' = outcome /\ pc[c] = "wait" /\ probe[c] >= 1 /\ outcome[c] = "none"
    BY <1>0, <1>1, <1>10 DEF SignalSeen, CallOk, Never
  <2>1. CASE UNCHANGED <<pc, probe, inbox, limbo>>
    <3>1. (NoCode(c)' <=> NoCode(c)) => CallOk(c)'
      BY <1>0, <1>1, <1>2, <2>0, <2>1 DEF CallOk, Early, NotSent, Aborted, Never
    <3> QED
      BY <1>t, <1>o, <2>0, <2>1, <3>1, QuietKeeps DEF Early
  <2>2. CASE /\ probe[c] <= MaxProbes /\ probe' = [probe EXCEPT ![c] = @ + 1]
             /\ Delivered(ProbeScript(c)) \/ Refused \/ Unknown(ProbeScript(c))
             /\ pc' = [pc EXCEPT ![c] = "confirming"] \/ pc' = pc
    <3>1. probe'[c] = probe[c] + 1 /\ probe'[c] \in 0..MaxProbes + 1
      BY <1>0, <2>2
    <3>2. PICK s \in Scripts : s = [kind |-> "probe", call |-> c, n |-> probe'[c]]
      BY <3>1, MakeScripts
    <3>3. pc'[c] \in {"confirming", "wait"}
      BY <1>0, <2>0, <2>2
    <3>7. Delivered(s) \/ Unknown(s) \/ Refused
      BY <2>2, <3>2 DEF ProbeScript
    <3>4. ScriptOk(s)'
      <4>1. ShownAs(armed[c])
        BY <1>1, <2>0 DEF ArmedOk, BeganHere
      <4>2. ShownAs(armed[c])'
        BY <1>o, <4>1 DEF ShownAs, Shown, OthersStay
      <4>3. probe'[c] >= 1
        BY <1>0, <2>0, <3>1
      <4> QED
        BY <3>2, <3>3, <4>2, <4>3 DEF ScriptOk, Early
    <3>5. probe'[c] >= 2
      BY <1>0, <2>0, <3>1
    <3>6. (NoCode(c)' <=> NoCode(c)) => CallOk(c)'
      BY <1>0, <1>1, <1>2, <2>0, <3>1, <3>3, <3>5 DEF CallOk, Early, NotSent, Aborted, Never
    <3> QED
      BY <1>t, <1>o, <2>0, <3>2, <3>3, <3>4, <3>6, <3>7, SendKeeps DEF Early
  <2> QED
    BY <1>10, <2>1, <2>2 DEF SignalSeen
<1>11. CASE ConfirmTimeout(c)
  <2>1. pc[c] = "confirming" /\ pc'[c] = "wait" /\ UNCHANGED <<inbox, limbo, probe, outcome>>
    BY <1>0, <1>11 DEF ConfirmTimeout, windowVars
  <2>2. (NoCode(c)' <=> NoCode(c)) => CallOk(c)'
    BY <1>0, <1>1, <1>2, <2>1 DEF CallOk, Early, NotSent, Aborted, Never
  <2> QED
    BY <1>t, <1>o, <2>1, <2>2, QuietKeeps DEF Early
<1>12. CASE Expire(c)
  <2>1. UNCHANGED <<pc, inbox, limbo, probe, outcome>>
    BY <1>12 DEF Expire, windowVars
  <2>2. (NoCode(c)' <=> NoCode(c)) => CallOk(c)'
    BY <1>0, <1>1, <1>2, <1>3, <2>1 DEF CallOk, Early, NotSent, Aborted, Never
  <2> QED
    BY <1>t, <1>o, <2>1, <2>2, QuietKeeps
<1> QED
  BY <1>4, <1>5, <1>6, <1>7, <1>8, <1>9, <1>10, <1>11, <1>12 DEF Handler

-----------------------------------------------------------------------------
(* A step of the window that leaves the handlers alone. *)
LEMMA WindowKeeps ==
    ASSUME EvalAssumption, Inv, TypeOK', UNCHANGED <<pc, armed, rx, outcome, probe>>,
           \A t : Waits(t)' => Waits(t), limbo' \subseteq limbo, InOrder',
           ran \subseteq ran', \A c \in Calls : NoCode(c) => c \notin ran',
           gone \subseteq gone', \A p \in Pages : Shown(p) => Shown(p)', (page' \notin gone' \/ BfCache),
           \A p \in Pages : begun'[p] \subseteq ran',
           \A c \in Calls : BeganHere(c)',
           \A m \in wire' : m \in wire \/ MessageOk(m)'
    PROVE  Inv'
<1>1. \A c \in Calls : NoCode(c) => NoCode(c)'
  BY DEF NoCode
<1>2. \A x : (ShownAs(x) => ShownAs(x)') /\ (LeftAs(x) => LeftAs(x)')
  BY DEF ShownAs, LeftAs
<1>3. ASSUME NEW c \in Calls PROVE CallOk(c)' /\ ArmedOk(c)'
  <2>1. CallOk(c) /\ ArmedOk(c)
    BY DEF Inv
  <2>2. CallOk(c)'
    BY <1>1, <1>2, <2>1 DEF CallOk, Never
  <2>3. ArmedOk(c)'
    BY <1>2, <2>1 DEF ArmedOk, BeganHere
  <2> QED
    BY <2>2, <2>3
<1>4. ASSUME NEW t \in Scripts, Waits(t)' PROVE ScriptOk(t)'
  <2>1. ScriptOk(t)
    BY <1>4 DEF Inv
  <2> QED
    BY <1>2, <2>1 DEF ScriptOk
<1>5. ASSUME NEW m \in wire PROVE MessageOk(m)'
  <2>1. MessageOk(m) /\ m \in Messages
    BY DEF Inv, TypeOK
  <2>2. m.kind = "settled" => m.call \in Calls
    BY <2>1, MessageShapes
  <2> QED
    BY <1>1, <1>2, <2>1, <2>2 DEF MessageOk, Never
<1>6. LimboOk'
  BY DEF Inv, LimboOk
<1> QED
  BY <1>3, <1>4, <1>5, <1>6 DEF Inv

(* The code returns: its id was begun in the page shown. *)
LEMMA SettleInv ==
    ASSUME EvalAssumption, Inv, NEW c \in Calls, Settle(c)
    PROVE  Inv'
<1>t. TypeOK'
  BY PageTypesKept DEF Inv
<1>1. /\ page \in Pages /\ c \in begun[page]
      /\ begun' = [begun EXCEPT ![page] = begun[page] \ {c}]
      /\ done' = [done EXCEPT ![page] = done[page] \cup {c}]
      /\ wire' = wire \cup {Settled(c, "value")}
      /\ UNCHANGED <<pc, armed, rx, outcome, probe, page, gone, inbox, limbo, ran>>
  BY DEF Settle, handlerVars, Inv, TypeOK
<1>2. begun \in [Pages -> SUBSET Calls] /\ done \in [Pages -> SUBSET Calls]
  BY DEF Inv, TypeOK
<1>3. c \in ran
  BY <1>1 DEF Inv
<1>4. \A t : Waits(t)' => Waits(t)
  BY <1>1 DEF Waits, InBox
<1>5. InOrder'
  BY <1>1 DEF Inv, InOrder
<1>6. \A d \in Calls : NoCode(d) => d \notin ran'
  BY <1>1 DEF NoCode
<1>7. \A p \in Pages : (Shown(p) => Shown(p)') /\ begun'[p] \subseteq ran'
  BY <1>1, <1>2 DEF Shown, Inv
<1>8. \A d \in Calls : BeganHere(d)'
  BY <1>1, <1>2 DEF Inv, ArmedOk, BeganHere
<1>9. MessageOk(Settled(c, "value"))'
  <2>1. pc[c] \notin Early
    BY <1>3 DEF Inv, CallOk, NoCode, Never
  <2> QED
    BY <1>1, <1>3, <2>1 DEF MessageOk, Settled, Never
<1>10. (page' \notin gone' \/ BfCache)
  BY <1>1 DEF Inv
<1> QED
  BY <1>t, <1>1, <1>4, <1>5, <1>6, <1>7, <1>8, <1>9, <1>10, WindowKeeps

(* The webview runs the next script. *)
LEMMA RunScriptInv ==
    ASSUME EvalAssumption, Inv, RunScript
    PROVE  Inv'
<1>t. TypeOK'
  BY PageTypesKept DEF Inv
<1>0. /\ begun \in [Pages -> SUBSET Calls] /\ done \in [Pages -> SUBSET Calls]
      /\ inbox \in Seq(Scripts) /\ limbo \in SUBSET Scripts /\ InOrder /\ page \in Pages
      /\ ran \in SUBSET Calls
  BY DEF Inv, TypeOK, RunScript
<1>1. /\ inbox # <<>> /\ inbox' = Tail(inbox)
      /\ UNCHANGED <<pc, armed, rx, outcome, probe, page, gone, limbo, parses>>
  BY DEF RunScript, handlerVars
<1>2. /\ InOrder' /\ Head(inbox) \in Scripts /\ Waits(Head(inbox))
      /\ \A t : Waits(t)' => Waits(t)
      /\ Head(inbox).kind = "check" =>
            \A i \in 1..Len(inbox') : inbox'[i].kind = "wrap" => inbox'[i].call # Head(inbox).call
  BY <1>0, <1>1, TailQueue
<1>3. PICK s \in Scripts : s = Head(inbox)
  BY <1>2
<1>4. /\ s.kind = "probe" => RunProbe(s)
      /\ s.kind = "wrap" => RunWrap(s)
      /\ s.kind = "check" => RunCheck(s)
  BY <1>3 DEF RunScript
<1>5. s.call \in Calls /\ s.kind \in {"probe", "wrap", "check"} /\ ScriptOk(s)
  BY <1>2, <1>3, ScriptShapes DEF Inv
<1>6. \A p \in Pages : Shown(p) => Shown(p)'
  BY <1>1 DEF Shown
<1>7. \A d \in Calls : BeganHere(d)
  BY DEF Inv, ArmedOk, BeganHere
<1>8. (page' \notin gone' \/ BfCache)
  BY <1>1 DEF Inv
<1>9. CASE s.kind = "probe"
  <2>1. wire' = wire \cup {ProbeAnswer(s.call, s.n, NonceOf(page))} /\ UNCHANGED <<begun, done, ran>>
    BY <1>4, <1>9 DEF RunProbe
  <2>2. \A d \in Calls : BeganHere(d)'
    BY <1>1, <1>7, <2>1 DEF BeganHere
  <2>3. \A d \in Calls : NoCode(d) => d \notin ran'
    BY <2>1 DEF NoCode
  <2>4. \A p \in Pages : begun'[p] \subseteq ran'
    BY <2>1 DEF Inv
  <2>5. PICK m : m = ProbeAnswer(s.call, s.n, NonceOf(page))
    OBVIOUS
  <2>6. m.kind = "probe" /\ m.call = s.call /\ m.n = s.n /\ m.nonce = NonceOf(page)
    BY <2>5 DEF ProbeAnswer
  <2>7. ShownAs(m.nonce)'
    BY <1>0, <1>1, <2>6 DEF ShownAs, Shown
  <2>8. m.n >= 2 /\ m.nonce # armed[m.call] => LeftAs(armed[m.call])'
    <3> SUFFICES ASSUME m.n >= 2, m.nonce # armed[m.call] PROVE LeftAs(armed[m.call])'
      OBVIOUS
    <3>1. ShownAs(armed[m.call])
      BY <1>5, <1>9, <2>6 DEF ScriptOk
    <3>2. PICK p \in Pages : Shown(p) /\ NonceOf(p) = armed[m.call]
      BY <3>1 DEF ShownAs
    <3>3. p \in gone
      BY <2>6, <3>2 DEF Shown
    <3> QED
      BY <1>1, <3>2, <3>3 DEF LeftAs
  <2>9. m.n >= 2 => pc'[m.call] \notin Early
    BY <1>1, <1>5, <1>9, <2>6 DEF ScriptOk
  <2>10. MessageOk(m)'
    BY <1>1, <2>6, <2>7, <2>8, <2>9 DEF MessageOk, Never
  <2> QED
    BY <1>t, <1>1, <1>2, <1>6, <1>8, <2>1, <2>2, <2>3, <2>4, <2>5, <2>10, WindowKeeps
<1>10. CASE s.kind = "wrap"
  <2>1. wire' = wire /\ done' = done
    BY <1>4, <1>10 DEF RunWrap
  <2>2. \A d \in Calls : NoCode(d) => d # s.call /\ d \notin ran
    BY <1>2, <1>3, <1>10 DEF NoCode
  <2>3. CASE begun' = [begun EXCEPT ![page] = begun[page] \cup {s.call}] /\ ran' = ran \cup {s.call}
    <3>1. \A d \in Calls : BeganHere(d)'
      BY <1>0, <1>1, <1>7, <2>1, <2>3 DEF BeganHere
    <3>2. \A p \in Pages : begun'[p] \subseteq ran'
      BY <1>0, <2>3 DEF Inv
    <3> QED
      BY <1>t, <1>1, <1>2, <1>6, <1>8, <2>1, <2>2, <2>3, <3>1, <3>2, WindowKeeps
  <2>4. CASE UNCHANGED <<begun, ran>>
    <3>1. \A d \in Calls : BeganHere(d)'
      BY <1>1, <1>7, <2>1, <2>4 DEF BeganHere
    <3>2. \A p \in Pages : begun'[p] \subseteq ran'
      BY <2>4 DEF Inv
    <3> QED
      BY <1>t, <1>1, <1>2, <1>6, <1>8, <2>1, <2>2, <2>4, <3>1, <3>2, WindowKeeps
  <2> QED
    BY <1>4, <1>10, <2>3, <2>4 DEF RunWrap
<1>11. CASE s.kind = "check"
  <2>1. UNCHANGED <<begun, ran>>
    BY <1>4, <1>11 DEF RunCheck
  <2>2. \A d \in Calls : NoCode(d) => d \notin ran'
    BY <2>1 DEF NoCode
  <2>3. \A p \in Pages : begun'[p] \subseteq ran'
    BY <2>1 DEF Inv
  <2>4. CASE UNCHANGED <<done, wire>>
    <3>1. \A d \in Calls : BeganHere(d)'
      BY <1>1, <1>7, <2>1, <2>4 DEF BeganHere
    <3> QED
      BY <1>t, <1>1, <1>2, <1>6, <1>8, <2>1, <2>2, <2>3, <2>4, <3>1, WindowKeeps
  <2>5. CASE /\ CheckSpeaks(s)
             /\ done' = [done EXCEPT ![page] = done[page] \cup {s.call}]
             /\ wire' = wire \cup {Settled(s.call, "not_run")}
    <3>1. \A d \in Calls : BeganHere(d)'
      BY <1>0, <1>1, <1>7, <2>1, <2>5 DEF BeganHere
    <3>2. s.call \notin ran \/ BfCache
      <4>1. page \in Bridged /\ armed[s.call] = page
        BY <1>5, <1>11, <2>5 DEF CheckSpeaks, ScriptOk
      <4>2. s.call \notin begun[page] /\ s.call \notin done[page]
        BY <2>5 DEF CheckSpeaks
      <4> QED
        BY <1>5, <1>7, <4>1, <4>2 DEF BeganHere
    <3>3. \A t \in Scripts : Waits(t)' /\ t.kind = "wrap" => t.call # s.call
      <4> SUFFICES ASSUME NEW t \in Scripts, Waits(t)', t.kind = "wrap" PROVE t.call # s.call
        OBVIOUS
      <4>1. CASE t \in limbo
        <5>1. LimboOk
          BY DEF Inv
        <5> QED
          BY <1>2, <1>3, <1>11, <4>1, <5>1 DEF LimboOk
      <4>2. CASE \E i \in 1..Len(inbox') : inbox'[i] = t
        BY <1>2, <1>3, <1>11, <4>2
      <4> QED
        BY <1>1, <4>1, <4>2 DEF Waits, InBox
    <3>4. Never(s.call)'
      BY <2>1, <3>2, <3>3 DEF NoCode, Never
    <3>5. pc[s.call] \notin Early
      BY <1>5, <1>11 DEF ScriptOk, Early
    <3>6. MessageOk(Settled(s.call, "not_run"))'
      BY <1>1, <3>4, <3>5 DEF MessageOk, Settled, Never
    <3> QED
      BY <1>t, <1>1, <1>2, <1>6, <1>8, <2>1, <2>2, <2>3, <2>5, <3>1, <3>6, WindowKeeps
  <2> QED
    BY <1>4, <1>11, <2>4, <2>5 DEF RunCheck
<1> QED
  BY <1>5, <1>9, <1>10, <1>11

(* What happens to the window itself.  Without a back/forward cache a page that is
   left is never shown again, so an armed page that is shown has been shown since.  *)
LEMMA EnvironmentInv ==
    ASSUME EvalAssumption, Inv,
           LimboArrives \/ Navigate \/ CloseWindow \/ Forge \/ BeginShutdown
    PROVE  Inv'
<1>t. TypeOK'
  BY PageTypesKept DEF Inv
<1>0. /\ inbox \in Seq(Scripts) /\ limbo \in SUBSET Scripts /\ InOrder /\ gone \in SUBSET Pages
      /\ page \in Pages \cup {NoPage} /\ (page \notin gone \/ BfCache)
  BY DEF Inv, TypeOK
<1>1. UNCHANGED <<pc, armed, rx, outcome, probe, begun, done, ran>>
  BY DEF LimboArrives, Navigate, CloseWindow, Forge, BeginShutdown, handlerVars, windowVars
<1>2. \A d \in Calls : NoCode(d) => d \notin ran'
  BY <1>1 DEF NoCode
<1>3. \A p \in Pages : begun'[p] \subseteq ran'
  BY <1>1 DEF Inv
<1>4. \A d \in Calls : BeganHere(d)
  BY DEF Inv, ArmedOk, BeganHere
<1>5. CASE LimboArrives
  <2>1. PICK s \in limbo : inbox' = Append(inbox, s) /\ limbo' = limbo \ {s}
    BY <1>5 DEF LimboArrives
  <2>2. UNCHANGED <<page, gone, wire>>
    BY <1>5 DEF LimboArrives
  <2>3. \A t : Waits(t)' => Waits(t)
    <3>1. \A i \in 1..Len(inbox') : inbox'[i] = s \/ (i \in 1..Len(inbox) /\ inbox'[i] = inbox[i])
      BY <1>0, <2>1
    <3> QED
      BY <2>1, <3>1 DEF Waits, InBox
  <2>4. InOrder'
    <3>1. LimboOk /\ s \in Scripts
      BY <1>0 DEF Inv
    <3> QED
      BY <1>0, <2>1, <3>1, AppendInOrder DEF LimboOk
  <2>5. \A d \in Calls : BeganHere(d)'
    BY <1>1, <1>4, <2>2 DEF BeganHere
  <2>6. \A p \in Pages : Shown(p) => Shown(p)'
    BY <2>2 DEF Shown
  <2> QED
    BY <1>t, <1>0, <1>1, <1>2, <1>3, <2>1, <2>2, <2>3, <2>4, <2>5, <2>6, WindowKeeps
<1>6. CASE Navigate
  <2>1. gone' = gone \cup {page} /\ page # NoPage /\ UNCHANGED limbo /\ inbox' \in {inbox, <<>>}
    BY <1>6 DEF Navigate
  <2>2. PICK p \in Pages :
            /\ p # page /\ (BfCache \/ p \notin gone) /\ page' = p
            /\ \E kept \in {wire, {}} : wire' = kept \cup (IF p \in Bridged THEN {Ready(p)} ELSE {})
    BY <1>6 DEF Navigate
  <2>3. \A t : Waits(t)' => Waits(t)
    BY <2>1 DEF Waits, InBox
  <2>4. InOrder'
    BY <1>0, <2>1 DEF InOrder
  <2>5. (page' \notin gone' \/ BfCache) /\ \A q \in Pages : Shown(q) => Shown(q)'
    BY <2>1, <2>2 DEF Shown
  <2>6. \A d \in Calls : BeganHere(d)'
    <3> SUFFICES ASSUME NEW d \in Calls, armed[d] \in Bridged, armed[d] = p, ~BfCache PROVE FALSE
      BY <1>1, <2>2 DEF BeganHere
    <3>1. armed[d] # NoNonce
      BY DEF EvalAssumption, Pages
    <3>2. ShownAs(armed[d])
      BY <3>1 DEF Inv, ArmedOk, BeganHere
    <3>3. PICK q \in Pages : Shown(q) /\ NonceOf(q) = armed[d]
      BY <3>2 DEF ShownAs
    <3>4. q = p
      BY <3>1, <3>3 DEF NonceOf
    <3> QED
      BY <2>2, <3>3, <3>4 DEF Shown
  <2>7. MessageOk(Ready(p))'
    BY DEF MessageOk, Ready, Never
  <2>8. \A m \in wire' : m \in wire \/ m = Ready(p)
    BY <2>2
  <2> QED
    BY <1>t, <1>1, <1>2, <1>3, <2>1, <2>3, <2>4, <2>5, <2>6, <2>7, <2>8, WindowKeeps
<1>7. CASE CloseWindow
  <2>1. /\ gone' = gone \cup {page} /\ page # NoPage /\ page' = NoPage /\ inbox' = <<>>
        /\ UNCHANGED <<limbo, wire>>
    BY <1>7 DEF CloseWindow
  <2>2. \A t : Waits(t)' => Waits(t)
    BY <2>1 DEF Waits, InBox
  <2>3. InOrder'
    BY <2>1 DEF InOrder
  <2>4. (page' \notin gone' \/ BfCache) /\ \A q \in Pages : Shown(q) => Shown(q)'
    BY <1>0, <2>1 DEF Shown, EvalAssumption
  <2>5. \A d \in Calls : BeganHere(d)'
    BY <1>1, <2>1 DEF BeganHere, EvalAssumption, Pages
  <2> QED
    BY <1>t, <1>1, <1>2, <1>3, <2>1, <2>2, <2>3, <2>4, <2>5, WindowKeeps
<1>8. CASE Forge
  <2>1. UNCHANGED <<page, gone, inbox, limbo>>
    BY <1>8 DEF Forge
  <2>2. PICK x \in Nonces : wire' = wire \cup {Ready(x)}
    BY <1>8 DEF Forge
  <2>3. MessageOk(Ready(x))'
    BY DEF MessageOk, Ready, Never
  <2>4. \A t : Waits(t)' => Waits(t)
    BY <2>1 DEF Waits, InBox
  <2>5. InOrder' /\ \A q \in Pages : Shown(q) => Shown(q)'
    BY <1>0, <2>1 DEF InOrder, Shown
  <2>6. \A d \in Calls : BeganHere(d)'
    BY <1>1, <1>4, <2>1 DEF BeganHere
  <2> QED
    BY <1>t, <1>0, <1>1, <1>2, <1>3, <2>1, <2>2, <2>3, <2>4, <2>5, <2>6, WindowKeeps
<1>9. CASE BeginShutdown
  <2>1. UNCHANGED <<page, gone, inbox, limbo, wire>>
    BY <1>9 DEF BeginShutdown, windowVars
  <2>2. \A t : Waits(t)' => Waits(t)
    BY <2>1 DEF Waits, InBox
  <2>3. InOrder' /\ \A q \in Pages : Shown(q) => Shown(q)'
    BY <1>0, <2>1 DEF InOrder, Shown
  <2>4. \A d \in Calls : BeganHere(d)'
    BY <1>1, <1>4, <2>1 DEF BeganHere
  <2> QED
    BY <1>t, <1>0, <1>1, <1>2, <1>3, <2>1, <2>2, <2>3, <2>4, WindowKeeps
<1> QED
  BY <1>5, <1>6, <1>7, <1>8, <1>9

-----------------------------------------------------------------------------
(* A callback that speaks to one call: nothing else changes but the wire. *)
LEMMA AnswerKeeps ==
    ASSUME EvalAssumption, Inv, TypeOK', NEW c \in Calls,
           \A d \in Calls \ {c} :
              /\ pc'[d] = pc[d] /\ armed'[d] = armed[d] /\ rx'[d] = rx[d]
              /\ outcome'[d] = outcome[d] /\ probe'[d] = probe[d],
           UNCHANGED <<page, gone, begun, done, ran, inbox, limbo>>, wire' \subseteq wire,
           armed'[c] # armed[c] => pc[c] = "probing",
           pc[c] \notin Early => pc'[c] \notin Early,
           pc[c] \in {"wait", "confirming", "done"} => pc'[c] \in {"wait", "confirming", "done"},
           pc[c] = "done" => pc'[c] = "done",
           CallOk(c)', ArmedOk(c)'
    PROVE  Inv'
<1>1. \A t : Waits(t)' <=> Waits(t)
  BY DEF Waits, InBox
<1>2. \A d \in Calls : NoCode(d)' <=> NoCode(d)
  BY <1>1 DEF NoCode
<1>3. \A x : (ShownAs(x)' <=> ShownAs(x)) /\ (LeftAs(x)' <=> LeftAs(x))
  BY DEF ShownAs, LeftAs, Shown
<1>4. \A d \in Calls : CallOk(d) /\ ArmedOk(d)
  BY DEF Inv
<1>5. \A d \in Calls : CallOk(d)' /\ ArmedOk(d)'
  <2> SUFFICES ASSUME NEW d \in Calls, d # c PROVE CallOk(d)' /\ ArmedOk(d)'
    OBVIOUS
  <2>1. CallOk(d)'
    BY <1>2, <1>3, <1>4 DEF CallOk, Never
  <2>2. ArmedOk(d)'
    BY <1>3, <1>4 DEF ArmedOk, BeganHere
  <2> QED
    BY <2>1, <2>2
<1>6. \A d \in Calls : /\ pc[d] \notin Early => pc'[d] \notin Early /\ armed'[d] = armed[d]
                       /\ pc[d] \in {"wait", "confirming", "done"} =>
                              pc'[d] \in {"wait", "confirming", "done"} /\ armed'[d] = armed[d]
                       /\ pc[d] = "done" => pc'[d] = "done"
  BY DEF Early
<1>7. ASSUME NEW t \in Scripts, Waits(t)' PROVE ScriptOk(t)'
  <2>1. ScriptOk(t) /\ t.call \in Calls
    BY <1>1, <1>7, ScriptShapes DEF Inv
  <2> QED
    BY <1>3, <1>6, <2>1 DEF ScriptOk
<1>8. ASSUME NEW m \in wire PROVE MessageOk(m)'
  <2>1. MessageOk(m) /\ m \in Messages
    BY DEF Inv, TypeOK
  <2>2. m.kind \in {"settled", "probe"} => m.call \in Calls
    BY <2>1, MessageShapes
  <2> QED
    BY <1>2, <1>3, <1>6, <2>1, <2>2 DEF MessageOk, Never
<1>9. InOrder' /\ LimboOk'
  <2>1. \A t \in limbo : t.call \in Calls
    BY ScriptShapes DEF Inv, TypeOK
  <2> QED
    BY <1>1, <1>6, <2>1 DEF Inv, InOrder, LimboOk
<1> QED
  BY <1>5, <1>7, <1>8, <1>9 DEF Inv

(* A callback keeps the invariant, whichever it is. *)
LEMMA CallbackInv ==
    ASSUME EvalAssumption, Inv, Callback
    PROVE  Inv'
<1>t. TypeOK /\ TypeOK'
  BY CallbackTypesKept DEF Inv
<1>0. /\ pc \in [Calls -> {"start", "probe", "probing", "inject", "check", "wait", "confirming", "done"}]
      /\ armed \in [Calls -> Nonces]
      /\ probe \in [Calls -> 0..MaxProbes + 1]
      /\ rx \in [Calls -> {"empty", "value", "not_run"}]
      /\ outcome \in [Calls -> {"none", "value"} \cup NotSent \cup Aborted]
      /\ MaxProbes \in Nat
  BY DEF Inv, TypeOK, EvalAssumption
<1>1. UNCHANGED <<page, gone, begun, done, ran, inbox, limbo>>
  BY DEF Callback
<1>2. PICK m \in wire :
          /\ wire' = wire \ {m}
          /\ \/ m.kind = "ready" /\ RecordLoad(m)
             \/ m.kind = "probe" /\ ProbeAnswered(m)
             \/ m.kind = "settled" /\ OutcomeArrived(m)
  BY <1>t, CallbackCases
<1>3. m \in Messages /\ MessageOk(m)
  BY <1>t DEF Inv, TypeOK
<1>4. \A t : Waits(t)' <=> Waits(t)
  BY <1>1 DEF Waits, InBox
<1>5. \A d : NoCode(d)' <=> NoCode(d)
  BY <1>1, <1>4 DEF NoCode
<1>6. \A x : (ShownAs(x)' <=> ShownAs(x)) /\ (LeftAs(x)' <=> LeftAs(x))
  BY <1>1 DEF ShownAs, LeftAs, Shown
<1>7. \A d \in Calls : CallOk(d) /\ ArmedOk(d)
  BY DEF Inv
<1>8. CASE m.kind = "ready"
  <2>1. UNCHANGED <<pc, armed, rx, outcome, probe>>
    BY <1>2, <1>8 DEF RecordLoad, handlerVars
  <2>2. InOrder'
    BY <1>1 DEF Inv, InOrder
  <2>3. \A d \in Calls : BeganHere(d)'
    BY <1>1, <1>7, <2>1 DEF ArmedOk, BeganHere
  <2>4. /\ \A d \in Calls : NoCode(d) => d \notin ran'
        /\ \A p \in Pages : Shown(p) => Shown(p)'
    BY <1>1 DEF NoCode, Shown
  <2>5. (page' \notin gone' \/ BfCache) /\ \A p \in Pages : begun'[p] \subseteq ran'
    BY <1>1 DEF Inv
  <2> QED
    BY <1>t, <1>1, <1>2, <1>4, <2>1, <2>2, <2>3, <2>4, <2>5, WindowKeeps
<1>9. CASE m.kind = "settled"
  <2>1. PICK c \in Calls : c = m.call
    BY <1>3, <1>9, MessageShapes
  <2>2. /\ UNCHANGED <<pc, armed, outcome, probe>>
        /\ rx' = IF pc[c] \in {"check", "wait", "confirming"} /\ rx[c] = "empty"
                 THEN [rx EXCEPT ![c] = m.what] ELSE rx
    BY <1>2, <1>9, <2>1 DEF OutcomeArrived
  <2>3. /\ \A d \in Calls \ {c} : rx'[d] = rx[d]
        /\ rx'[c] = rx[c] \/ (pc[c] \in {"check", "wait", "confirming"} /\ rx'[c] = m.what)
    BY <1>0, <2>2
  <2>4. m.what \in {"value", "not_run"} /\ (m.what = "value" => c \in ran) /\ (m.what = "not_run" => Never(c))
    BY <1>3, <1>9, <2>1, MessageShapes DEF MessageOk, Never
  <2>5. CallOk(c)'
    BY <1>1, <1>5, <1>6, <1>7, <2>2, <2>3, <2>4 DEF CallOk, Early, NotSent, Aborted, Never
  <2>6. ArmedOk(c)'
    BY <1>1, <1>6, <1>7, <2>2 DEF ArmedOk, BeganHere
  <2>7. wire' \subseteq wire
    BY <1>2
  <2> QED
    BY <1>t, <1>1, <2>2, <2>3, <2>5, <2>6, <2>7, AnswerKeeps
<1>10. CASE m.kind = "probe"
  <2>0. PICK c \in Calls : c = m.call
    BY <1>3, <1>10, MessageShapes
  <2>1. UNCHANGED <<rx, probe>> /\ m.nonce \in Nonces /\ m.n \in 0..MaxProbes + 1
    BY <1>2, <1>3, <1>10, MessageShapes DEF ProbeAnswered
  <2>2. wire' \subseteq wire
    BY <1>2
  <2>3. ShownAs(m.nonce) /\ (m.n >= 2 /\ m.nonce # armed[c] => LeftAs(armed[c]))
    BY <1>3, <1>10, <2>0 DEF MessageOk, Never
  <2>4. CASE /\ pc[c] = "probing" /\ pc' = [pc EXCEPT ![c] = "inject"]
             /\ armed' = [armed EXCEPT ![c] = m.nonce] /\ UNCHANGED outcome
    <3>1. /\ pc'[c] = "inject" /\ armed'[c] = m.nonce
          /\ \A d \in Calls \ {c} : pc'[d] = pc[d] /\ armed'[d] = armed[d]
      BY <1>0, <2>4
    <3>2. NoCode(c) /\ rx[c] = "empty" /\ probe[c] = 1 /\ outcome[c] = "none"
      BY <1>7, <2>4 DEF CallOk, Early, Never
    <3>3. CallOk(c)'
      BY <1>5, <2>1, <2>4, <3>1, <3>2 DEF CallOk, Early, NotSent, Aborted, Never
    <3>4. ArmedOk(c)'
      BY <1>1, <1>6, <2>3, <3>1, <3>2 DEF ArmedOk, NoCode, BeganHere
    <3> QED
      BY <1>t, <1>1, <2>1, <2>2, <2>4, <3>1, <3>3, <3>4, AnswerKeeps DEF Early
  <2>5. CASE /\ pc[c] = "confirming" /\ m.n = probe[c] /\ m.nonce # armed[c]
             /\ EndUnlessArrived(c, "reloaded") /\ UNCHANGED armed
    <3>1. /\ pc'[c] = "done" /\ outcome'[c] = (IF rx[c] # "empty" THEN rx[c] ELSE "reloaded")
          /\ \A d \in Calls \ {c} : pc'[d] = pc[d] /\ outcome'[d] = outcome[d]
      BY <1>0, <2>5 DEF EndUnlessArrived, End
    <3>2. m.n >= 2
      BY <1>7, <2>5 DEF CallOk, Never
    <3>3. LeftAs(armed[c])
      BY <2>3, <2>5, <3>2
    <3>4. rx[c] \in {"empty", "value", "not_run"} /\ rx'[c] = rx[c] /\ armed'[c] = armed[c]
      BY <1>0, <2>1, <2>5
    <3>5. LeftAs(armed[c])'
      BY <1>1, <2>5, <3>3 DEF LeftAs
    <3>6. CallOk(c)'
      BY <1>1, <1>5, <1>7, <2>1, <3>1, <3>4, <3>5 DEF CallOk, Early, NotSent, Aborted, Never
    <3>7. ArmedOk(c)'
      BY <1>1, <1>6, <1>7, <2>5, <3>1 DEF ArmedOk, BeganHere
    <3> QED
      BY <1>t, <1>1, <2>1, <2>2, <2>5, <3>1, <3>6, <3>7, AnswerKeeps DEF Early
  <2>6. CASE /\ pc[c] = "confirming" /\ pc' = [pc EXCEPT ![c] = "wait"] /\ UNCHANGED <<armed, outcome>>
    <3>1. pc'[c] = "wait" /\ \A d \in Calls \ {c} : pc'[d] = pc[d]
      BY <1>0, <2>6
    <3>2. probe[c] >= 2 /\ probe[c] \in Nat
      BY <1>0, <1>7, <2>6 DEF CallOk, Never
    <3>3. CallOk(c)'
      BY <1>1, <1>5, <1>7, <2>1, <2>6, <3>1, <3>2 DEF CallOk, Early, NotSent, Aborted, Never
    <3>4. ArmedOk(c)'
      BY <1>1, <1>6, <1>7, <2>6, <3>1 DEF ArmedOk, BeganHere
    <3> QED
      BY <1>t, <1>1, <2>1, <2>2, <2>6, <3>1, <3>3, <3>4, AnswerKeeps DEF Early
  <2>7. CASE UNCHANGED <<pc, armed, outcome>>
    <3>1. CallOk(c)'
      BY <1>1, <1>5, <1>6, <1>7, <2>1, <2>7 DEF CallOk, Never
    <3>2. ArmedOk(c)'
      BY <1>1, <1>6, <1>7, <2>7 DEF ArmedOk, BeganHere
    <3> QED
      BY <1>t, <1>1, <2>1, <2>2, <2>7, <3>1, <3>2, AnswerKeeps
  <2> QED
    BY <1>2, <1>10, <2>0, <2>4, <2>5, <2>6, <2>7 DEF ProbeAnswered
<1> QED
  BY <1>2, <1>8, <1>9, <1>10
-----------------------------------------------------------------------------
(* The invariant holds initially. *)
LEMMA InitInv == EvalAssumption /\ Init => Inv
<1> SUFFICES ASSUME EvalAssumption, Init PROVE Inv
  OBVIOUS
<1>1. TypeOK
  BY InitTypes
<1>2. inbox = <<>> /\ limbo = {} /\ ran = {} /\ gone = {} /\ page = First
      /\ (\A c \in Calls : /\ pc[c] = "start" /\ rx[c] = "empty" /\ outcome[c] = "none"
                           /\ armed[c] = NoNonce)
      /\ \A p \in Pages : begun[p] = {}
  BY DEF Init
<1>3. \A t : ~Waits(t)
  BY <1>2 DEF Waits, InBox
<1>4. \A c \in Calls : CallOk(c) /\ ArmedOk(c)
  BY <1>2, <1>3 DEF CallOk, ArmedOk, NoCode, NotSent, Aborted, Never, BeganHere
<1>5. \A m \in wire : MessageOk(m)
  BY DEF Init, Ready, MessageOk, Never
<1>6. InOrder /\ LimboOk
  BY <1>2 DEF InOrder, LimboOk
<1> QED
  BY <1>1, <1>2, <1>3, <1>4, <1>5, <1>6 DEF Inv

(* Every step keeps the invariant. *)
LEMMA NextInv == EvalAssumption /\ Inv /\ [Next]_vars => Inv'
<1> SUFFICES ASSUME EvalAssumption, Inv, [Next]_vars PROVE Inv'
  OBVIOUS
<1>1. CASE UNCHANGED vars
  <2>1. \A t : Waits(t)' <=> Waits(t)
    BY <1>1 DEF vars, windowVars, Waits, InBox
  <2>2. TypeOK'
    BY <1>1 DEF Inv, TypeOK, vars, handlerVars, windowVars
  <2>3. UNCHANGED <<pc, armed, rx, outcome, probe, page, gone, begun, done, ran, limbo, wire, inbox>>
    BY <1>1 DEF vars, handlerVars, windowVars
  <2>4. InOrder' /\ (page' \notin gone' \/ BfCache) /\ \A p \in Pages : begun'[p] \subseteq ran'
    BY <2>3 DEF Inv, InOrder
  <2>5. \A d \in Calls : BeganHere(d)' /\ (NoCode(d) => d \notin ran')
    BY <2>3 DEF Inv, ArmedOk, BeganHere, NoCode
  <2>6. \A p \in Pages : Shown(p) => Shown(p)'
    BY <2>3 DEF Shown
  <2> QED
    BY <2>1, <2>2, <2>3, <2>4, <2>5, <2>6, WindowKeeps
<1> QED
  BY <1>1, HandlerInv, SettleInv, RunScriptInv, EnvironmentInv, CallbackInv DEF Next

(* The invariant always holds. *)
LEMMA SpecInv == Spec => []Inv
<1>1. Init => Inv
  BY InitInv, EvalAssumption
<1>2. Inv /\ [Next]_vars => Inv'
  BY NextInv, EvalAssumption
<1> QED
  BY <1>1, <1>2, PTL DEF Spec

(* What eval_outcome returns is true for ever after, in a webview that does not restore
   pages: code reported as not sent or never begun does not run, a result that arrived
   is returned rather than a timeout or an abort, and a call is ended as "loaded a new
   page" only if its page was left.                                                   *)
THEOREM AnswersAreTrueAlways ==
    ASSUME ~BfCache
    PROVE  Spec => []AnswersAreTrue
<1>1. Inv => AnswersAreTrue
  BY DEF Inv, CallOk, NoCode, Never, LeftAs, NotSent, AnswersAreTrue, NotSentNeverRuns, ArrivedResultWins,
         ReloadIsReal
<1> QED
  BY <1>1, SpecInv, PTL

(* Restored pages or not, a result that arrived while the call was live is what the call
   returns, a value is the code's own, and a reload was one (eval_outcome, page_replaced). *)
THEOREM ResultsWinAlways ==
    Spec => [](ArrivedResultWins /\ ReloadIsReal)
<1>1. Inv => ArrivedResultWins /\ ReloadIsReal
  BY DEF Inv, CallOk, LeftAs, ArrivedResultWins, ReloadIsReal
<1> QED
  BY <1>1, SpecInv, PTL
=============================================================================
