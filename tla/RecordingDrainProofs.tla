------------------------- MODULE RecordingDrainProofs -------------------------
(***************************************************************************)
(* Proofs about RecordingDrain, for every number of windows and clients    *)
(* and without its bounds.                                                 *)
(*                                                                         *)
(* Inv says what a read in flight may rely on though the recording it is   *)
(* for may end and others begin: its mark, or the mark of its answer,      *)
(* covers only events that this recording holds or that are still in the   *)
(* answer (ReadInv), and so does the mark of a window (MarkInv), as far as *)
(* that recording is still the active one.  A recording that is over is    *)
(* never active again, but an import becomes active under a generation     *)
(* that was taken earlier: until then nobody reads, marks or resets for it *)
(* (ImportInv).  Resets may come in any order: the epoch is never past a   *)
(* started recording, and behind it only while its reset is due            *)
(* (ResetInv).                                                             *)
(*                                                                         *)
(* OldInv adds, for webviews that never show a page again, that whatever a *)
(* window captured behind its mark is later than the recording's beginning.*)
(* PlaceInv says of every session, also of those that imports hold, that   *)
(* each event lies where its index says.                                   *)
(***************************************************************************)
EXTENDS RecordingDrain, TLAPS
-----------------------------------------------------------------------------
(* What the invariants say of one value each: what a recording holds, that a
   mark lies in a page, covers only events of a set, or has nothing old
   behind it.                                                              *)

Held(rec) == {rec.all[k] : k \in DOMAIN rec.all}

InPages(pages, m) == m[1] \in 1..Len(pages) /\ m[2] \in 0..Len(pages[m[1]])

Covers(pages, m, f, had) ==
    \A k \in 1..m[2] : pages[m[1]][k] > f => pages[m[1]][k] \in had

Past(pages, m, f) ==
    \A p \in 1..Len(pages) : \A k \in 1..Len(pages[p]) :
        (p > m[1] \/ (p = m[1] /\ k > m[2])) => pages[p][k] > f

Bound == {"pinned", "asked", "replied", "recording"}
Answered == {"replied", "recording"}

For(rec, g) == rec # None /\ rec.generation = g

(* A read that was asked of the page, and one the page has answered. *)
AskedOk(rd, lg, bg, rec) ==
    /\ rd.win \in Windows
    /\ rd.mark = NoMark => rd.floor = bg[rd.gen].floor
    /\ rd.mark # NoMark =>
         /\ rd.floor = 0
         /\ InPages(lg[rd.win], rd.mark)
         /\ For(rec, rd.gen) => Covers(lg[rd.win], rd.mark, bg[rd.gen].floor, Held(rec))

AnsweredOk(rd, lg, bg, rec) ==
    /\ rd.win \in Windows
    /\ rd.reply.mark \in Nat \X Nat
    /\ InPages(lg[rd.win], rd.reply.mark)
    /\ rd.reply.events \subseteq Nat
    /\ For(rec, rd.gen) =>
         Covers(lg[rd.win], rd.reply.mark, bg[rd.gen].floor, Held(rec) \cup rd.reply.events)

ReadOk(rd, lg, bg, rec) ==
    /\ rd.pc \in Bound => rd.gen \in 1..Len(bg)
    /\ rd.pc = "asked" => AskedOk(rd, lg, bg, rec)
    /\ rd.pc \in Answered => AnsweredOk(rd, lg, bg, rec)

(* A mark, and a call with the generation it holds. *)
MarkOk(pages, m, e, bg, rec) ==
    m # NoMark =>
        /\ e \in 1..Len(bg)
        /\ InPages(pages, m)
        /\ For(rec, e) => Covers(pages, m, bg[e].floor, Held(rec))

OpOk(o, n, bg) ==
    /\ o.pc = "start" => o.floor \in 0..n
    /\ o.pc \in {"import", "reset"} => o.gen \in 1..Len(bg) /\ o.floor = bg[o.gen].floor
    /\ o.pc = "import" => /\ o.session.all \in Seq(Nat)
                          /\ bg[o.gen].had = Len(o.session.all)
                          /\ bg[o.gen].by = "import"
    /\ o.pc = "flushing" => "pc" \in DOMAIN o

(* Without a back/forward cache. *)
ReadOld(rd, lg, bg) ==
    /\ rd.pc = "asked" /\ rd.mark # NoMark => Past(lg[rd.win], rd.mark, bg[rd.gen].floor)
    /\ rd.pc \in Answered =>
         /\ Past(lg[rd.win], rd.reply.mark, bg[rd.gen].floor)
         /\ \A e \in rd.reply.events : e > bg[rd.gen].floor

MarkOld(pages, m, e, bg) == m # NoMark => Past(pages, m, bg[e].floor)

Begun == [by : {"start", "import"}, floor : Nat, had : Nat]
-----------------------------------------------------------------------------
TypeInv ==
    /\ now \in Nat
    /\ generations \in Nat
    /\ begun \in Seq(Begun) /\ Len(begun) = generations
    /\ \A g \in 1..generations : begun[g].floor <= now
    /\ epoch \in 0..generations
    /\ epoch # 0 => floor = begun[epoch].floor
    /\ page \in [Windows -> Nat]
    /\ log \in [Windows -> Seq(Seq(Nat))]
    /\ \A w \in Windows : page[w] <= Len(log[w])
    /\ mark \in [Windows -> Nat \X Nat]
    /\ read = [r \in Readers |-> read[r]]
    /\ op = [c \in Clients |-> op[c]]
    /\ tick.pc = "listed" => tick.labels \subseteq Windows

RecInv ==
    /\ recording # None => /\ recording.generation \in 1..generations
                           /\ recording.all \in Seq(Nat)
                           /\ {"generation", "all"} \subseteq DOMAIN recording
    /\ lastSession # None => lastSession.all \in Seq(Nat)

ReadInv == \A r \in Readers : ReadOk(read[r], log, begun, recording)

MarkInv == \A w \in Windows : MarkOk(log[w], mark[w], epoch, begun, recording)

OpInv == \A c \in Clients : /\ OpOk(op[c], now, begun)
                            /\ read[c] # NoRead => op[c].pc = "flushing"

(* The generation an import has taken is nobody else's. *)
Free(g) ==
    /\ epoch # g
    /\ recording # None => recording.generation # g
    /\ \A r \in Readers : read[r].pc \in Bound => read[r].gen # g
    /\ \A d \in Clients : op[d].pc = "reset" => op[d].gen # g

ImportInv ==
    /\ \A g \in Nat, c \in Clients : op[c].pc = "import" /\ op[c].gen = g => Free(g)
    /\ \A c, d \in Clients : op[c].pc = "import" /\ op[d].pc = "import" /\ op[c].gen = op[d].gen
                               => c = d

ResetInv ==
    recording # None /\ begun[recording.generation].by = "start" =>
        /\ epoch <= recording.generation
        /\ \A c \in Clients : op[c].pc = "reset" => op[c].gen <= recording.generation
        /\ \/ epoch = recording.generation
           \/ \E c \in Clients : op[c].pc = "reset" /\ op[c].gen = recording.generation

Inv == TypeInv /\ RecInv /\ ReadInv /\ MarkInv /\ OpInv /\ ImportInv /\ ResetInv

PageOldInv == \A w \in Windows : page[w] \in {0, Len(log[w])}
ReadOldInv == \A r \in Readers : ReadOld(read[r], log, begun)
MarkOldInv == \A w \in Windows : MarkOld(log[w], mark[w], epoch, begun)

OldInv == PageOldInv /\ ReadOldInv /\ MarkOldInv /\ NothingOlder
-----------------------------------------------------------------------------
(* Pages and histories grow. *)

PagesGrow(p1, p2) ==
    /\ Len(p1) \in Nat /\ Len(p2) \in Nat
    /\ Len(p1) <= Len(p2)
    /\ \A p \in 1..Len(p1) :
         /\ Len(p1[p]) \in Nat /\ Len(p2[p]) \in Nat
         /\ Len(p1[p]) <= Len(p2[p])
         /\ \A k \in 1..Len(p1[p]) : p2[p][k] = p1[p][k]

BegunGrows(bg, bg2) ==
    /\ Len(bg) \in Nat /\ Len(bg2) \in Nat
    /\ Len(bg) <= Len(bg2)
    /\ \A g \in 1..Len(bg) : bg2[g] = bg[g]

RecKeeps(rec, rec2, g) == For(rec2, g) => For(rec, g) /\ Held(rec) \subseteq Held(rec2)

(* An entry of a sequence is of its set. *)
LEMMA ElementOfSeq ==
  ASSUME NEW S, NEW s \in Seq(S), NEW i \in 1..Len(s)
  PROVE  s[i] \in S
OBVIOUS

(* What a mark covers stays covered while pages and recording grow. *)
LEMMA CoversGrow ==
  ASSUME NEW p1, NEW p2, NEW m, NEW f, NEW had, NEW had2,
         PagesGrow(p1, p2), InPages(p1, m), had \subseteq had2
  PROVE  /\ InPages(p2, m)
         /\ Covers(p1, m, f, had) => Covers(p2, m, f, had2)
<1>1. InPages(p2, m)
  BY DEF PagesGrow, InPages
<1>2. ASSUME Covers(p1, m, f, had)
      PROVE  Covers(p2, m, f, had2)
  <2> SUFFICES ASSUME NEW k \in 1..m[2], p2[m[1]][k] > f
               PROVE  p2[m[1]][k] \in had2
    BY DEF Covers
  <2>1. p2[m[1]][k] = p1[m[1]][k]
    <3> DEFINE i == m[1]
    <3>1. i \in 1..Len(p1) /\ m[2] \in 0..Len(p1[i])
      BY DEF InPages
    <3>2. /\ Len(p1[i]) \in Nat
          /\ \A j \in 1..Len(p1[i]) : p2[i][j] = p1[i][j]
      BY <3>1, Zenon DEF PagesGrow
    <3> HIDE DEF i
    <3>3. k \in 1..Len(p1[i])
      BY <3>1, <3>2
    <3>4. p2[i][k] = p1[i][k]
      BY <3>2, <3>3
    <3> QED BY <3>4 DEF i
  <2>2. p1[m[1]][k] > f /\ k \in 1..m[2]
    BY <2>1
  <2>3. p1[m[1]][k] \in had
    BY <2>2, <1>2, Zenon DEF Covers
  <2> QED BY <2>1, <2>3
<1> QED BY <1>1, <1>2

(* A read stays sound while pages, history and its own recording grow. *)
LEMMA ReadGrow ==
  ASSUME NEW rd, NEW lg, NEW lg2, NEW bg, NEW bg2, NEW rec, NEW rec2,
         ReadOk(rd, lg, bg, rec),
         \A w \in Windows : PagesGrow(lg[w], lg2[w]),
         BegunGrows(bg, bg2),
         rd.pc \in Bound => RecKeeps(rec, rec2, rd.gen)
  PROVE  ReadOk(rd, lg2, bg2, rec2)
<1>1. rd.pc \in Bound => rd.gen \in 1..Len(bg2) /\ rd.gen \in 1..Len(bg) /\ bg2[rd.gen] = bg[rd.gen]
  BY DEF ReadOk, BegunGrows
<1>2. ASSUME rd.pc = "asked"
      PROVE  AskedOk(rd, lg2, bg2, rec2)
  <2>1. AskedOk(rd, lg, bg, rec) /\ rd.pc \in Bound
    BY <1>2 DEF ReadOk, Bound
  <2>2. rd.win \in Windows /\ (rd.mark = NoMark => rd.floor = bg2[rd.gen].floor)
    BY <2>1, <1>1 DEF AskedOk
  <2>3. ASSUME rd.mark # NoMark
        PROVE  InPages(lg2[rd.win], rd.mark)
               /\ (For(rec2, rd.gen) =>
                     Covers(lg2[rd.win], rd.mark, bg2[rd.gen].floor, Held(rec2)))
    <3>1. PagesGrow(lg[rd.win], lg2[rd.win]) /\ InPages(lg[rd.win], rd.mark)
      BY <2>1, <2>3 DEF AskedOk
    <3>2. InPages(lg2[rd.win], rd.mark)
      BY <3>1, CoversGrow
    <3>3. ASSUME For(rec2, rd.gen)
          PROVE  Covers(lg2[rd.win], rd.mark, bg2[rd.gen].floor, Held(rec2))
      <4>1. For(rec, rd.gen) /\ Held(rec) \subseteq Held(rec2)
        BY <2>1, <3>3 DEF RecKeeps
      <4>2. Covers(lg[rd.win], rd.mark, bg[rd.gen].floor, Held(rec))
        BY <4>1, <2>1, <2>3 DEF AskedOk
      <4> QED BY <4>1, <4>2, <3>1, <1>1, <2>1, CoversGrow
    <3> QED BY <3>2, <3>3
  <2> QED BY <2>1, <2>2, <2>3 DEF AskedOk
<1>3. ASSUME rd.pc \in Answered
      PROVE  AnsweredOk(rd, lg2, bg2, rec2)
  <2>1. AnsweredOk(rd, lg, bg, rec) /\ rd.pc \in Bound
    BY <1>3 DEF ReadOk, Bound, Answered
  <2>2. PagesGrow(lg[rd.win], lg2[rd.win]) /\ InPages(lg[rd.win], rd.reply.mark)
    BY <2>1 DEF AnsweredOk
  <2>3. InPages(lg2[rd.win], rd.reply.mark)
    BY <2>2, CoversGrow
  <2>4. ASSUME For(rec2, rd.gen)
        PROVE  Covers(lg2[rd.win], rd.reply.mark, bg2[rd.gen].floor,
                      Held(rec2) \cup rd.reply.events)
    <3>1. For(rec, rd.gen) /\ Held(rec) \cup rd.reply.events \subseteq Held(rec2) \cup rd.reply.events
      BY <2>1, <2>4 DEF RecKeeps
    <3>2. Covers(lg[rd.win], rd.reply.mark, bg[rd.gen].floor, Held(rec) \cup rd.reply.events)
      BY <3>1, <2>1 DEF AnsweredOk
    <3> QED BY <3>1, <3>2, <2>2, <1>1, <2>1, CoversGrow
  <2> QED BY <2>1, <2>3, <2>4 DEF AnsweredOk
<1> QED BY <1>1, <1>2, <1>3 DEF ReadOk

(* So does a mark. *)
LEMMA MarkGrow ==
  ASSUME NEW p1, NEW p2, NEW m, NEW e, NEW bg, NEW bg2, NEW rec, NEW rec2,
         MarkOk(p1, m, e, bg, rec), PagesGrow(p1, p2), BegunGrows(bg, bg2),
         e \in 1..Len(bg) => RecKeeps(rec, rec2, e)
  PROVE  MarkOk(p2, m, e, bg2, rec2)
<1> SUFFICES ASSUME m # NoMark
             PROVE  /\ e \in 1..Len(bg2) /\ InPages(p2, m)
                    /\ For(rec2, e) => Covers(p2, m, bg2[e].floor, Held(rec2))
  BY DEF MarkOk
<1>1. /\ e \in 1..Len(bg) /\ InPages(p1, m)
      /\ For(rec, e) => Covers(p1, m, bg[e].floor, Held(rec))
  BY DEF MarkOk
<1>2. e \in 1..Len(bg2) /\ bg2[e] = bg[e]
  BY <1>1 DEF BegunGrows
<1>3. InPages(p2, m)
  BY <1>1, CoversGrow
<1>4. ASSUME For(rec2, e) PROVE Covers(p2, m, bg2[e].floor, Held(rec2))
  <2>1. For(rec, e) /\ Held(rec) \subseteq Held(rec2)
    BY <1>1, <1>4 DEF RecKeeps
  <2> QED BY <2>1, <1>1, <1>2, CoversGrow
<1> QED BY <1>2, <1>3, <1>4

(* A call stays sound while time passes and other recordings begin. *)
LEMMA OpGrow ==
  ASSUME NEW o, NEW n \in Nat, NEW n2 \in Nat, n <= n2, NEW bg, NEW bg2,
         OpOk(o, n, bg), BegunGrows(bg, bg2)
  PROVE  OpOk(o, n2, bg2)
<1>1. o.pc = "start" => o.floor \in 0..n2
  BY DEF OpOk
<1>2. o.pc \in {"import", "reset"} =>
        o.gen \in 1..Len(bg2) /\ o.gen \in 1..Len(bg) /\ bg2[o.gen] = bg[o.gen]
  BY DEF OpOk, BegunGrows
<1> QED BY <1>1, <1>2 DEF OpOk

(* The recording stays, takes something in, or ends.                       *)
RecStep ==
    /\ RecInv'
    /\ generations' = generations
    /\ \A g : RecKeeps(recording, recording', g)
    /\ recording' # None => recording # None /\ recording'.generation = recording.generation

(* A recorder nobody touches makes no step that matters to a read. *)
LEMMA SameRecording ==
  ASSUME Inv, UNCHANGED recVars
  PROVE  RecStep
<1>1. RecInv'
  BY DEF Inv, RecInv, recVars
<1>2. \A g : RecKeeps(recording, recording', g)
  BY DEF RecKeeps, recVars
<1> QED BY <1>1, <1>2 DEF RecStep, recVars

(* Whatever a recording takes in, reads and marks of it stay sound. *)
LEMMA RecStepKeeps ==
  ASSUME TypeInv, ReadInv, MarkInv, RecStep
  PROVE  /\ \A r \in Readers : ReadOk(read[r], log, begun, recording')
         /\ \A w \in Windows : MarkOk(log[w], mark[w], epoch, begun, recording')
<1>1. /\ \A w \in Windows : PagesGrow(log[w], log[w])
      /\ BegunGrows(begun, begun)
  <2>1. \A w \in Windows : log[w] \in Seq(Seq(Nat))
    BY DEF TypeInv
  <2>2. \A w \in Windows : PagesGrow(log[w], log[w])
    BY <2>1 DEF PagesGrow
  <2> QED BY <2>2 DEF TypeInv, BegunGrows
<1>2. \A g : RecKeeps(recording, recording', g)
  BY DEF RecStep
<1>3. ASSUME NEW r \in Readers
      PROVE  ReadOk(read[r], log, begun, recording')
  <2>1. ReadOk(read[r], log, begun, recording)
    BY DEF ReadInv
  <2> QED BY <1>1, <1>2, <2>1, ReadGrow
<1>4. ASSUME NEW w \in Windows
      PROVE  MarkOk(log[w], mark[w], epoch, begun, recording')
  <2>1. MarkOk(log[w], mark[w], epoch, begun, recording)
    BY DEF MarkInv
  <2> QED BY <1>1, <1>2, <2>1, MarkGrow
<1> QED BY <1>3, <1>4
-----------------------------------------------------------------------------
(* The steps of one reader that change nothing but its read, and, if it reads
   for a client, what the client has still to do.                          *)

SameFlush(o, o2) ==
    o2 = o \/ (o.pc = "flushing" /\ o2.pc = "flushing" /\ "pc" \in DOMAIN o2)

MarkStep ==
    /\ mark' \in [Windows -> Nat \X Nat]
    /\ \A w \in Windows : mark'[w] = mark[w] \/ MarkOk(log[w], mark'[w], epoch, begun, recording')

ReadStep(r) ==
    \/ read'[r] = read[r]
    \/ /\ ReadOk(read'[r], log, begun, recording')
       /\ read'[r].pc \in Bound => \/ read[r].pc \in Bound /\ read'[r].gen = read[r].gen
                                  \/ For(recording, read'[r].gen)
       /\ r \in Clients /\ read'[r] # NoRead => op[r].pc = "flushing"

(* Steps in which reads and marks move on, each soundly, keep the invariant. *)
LEMMA ReadersStep ==
  ASSUME Inv, TypeInv', RecStep, MarkStep, UNCHANGED <<now, log, epoch, begun>>,
         \A c \in Clients : SameFlush(op[c], op'[c]),
         \A r \in Readers : ReadStep(r)
  PROVE  Inv'
<1>0. /\ TypeInv /\ RecInv /\ ReadInv /\ MarkInv /\ OpInv /\ ImportInv /\ ResetInv
      /\ RecInv' /\ generations' = generations
      /\ (recording' # None => recording # None /\ recording'.generation = recording.generation)
      /\ log' = log /\ now' = now /\ epoch' = epoch /\ begun' = begun
  BY DEF Inv, RecStep
<1>o. \A c \in Clients :
        /\ op'[c].pc = op[c].pc
        /\ op'[c].pc # "flushing" => op'[c] = op[c]
  BY DEF SameFlush
<1>1. ReadInv'
  BY <1>0, RecStepKeeps DEF ReadInv, ReadStep
<1>2. MarkInv'
  BY <1>0, RecStepKeeps DEF MarkInv, MarkStep
<1>3. OpInv'
  <2> SUFFICES ASSUME NEW c \in Clients
               PROVE  OpOk(op'[c], now, begun) /\ (read'[c] # NoRead => op'[c].pc = "flushing")
    BY <1>0 DEF OpInv
  <2>1. OpOk(op[c], now, begun) /\ (read[c] # NoRead => op[c].pc = "flushing")
    BY <1>0 DEF OpInv
  <2>2. OpOk(op'[c], now, begun)
    BY <2>1 DEF SameFlush, OpOk
  <2>3. ReadStep(c)
    BY DEF Readers
  <2> QED BY <2>1, <2>2, <2>3, <1>o DEF ReadStep
<1>4. ImportInv'
  <2>1. ASSUME NEW g \in Nat, NEW c \in Clients, op'[c].pc = "import", op'[c].gen = g
        PROVE  Free(g)'
    <3>1. op[c].pc = "import" /\ op'[c] = op[c] /\ Free(g)
      BY <2>1, <1>0, <1>o DEF ImportInv
    <3>2. \A q \in Readers : read'[q].pc \in Bound => read'[q].gen # g
      BY <3>1 DEF Free, For, ReadStep
    <3> QED BY <3>1, <3>2, <1>0, <1>o DEF Free
  <2>2. \A c, d \in Clients :
          op'[c].pc = "import" /\ op'[d].pc = "import" /\ op'[c].gen = op'[d].gen => c = d
    BY <1>0, <1>o DEF ImportInv
  <2> QED BY <2>1, <2>2 DEF ImportInv
<1>5. ResetInv'
  BY <1>0, <1>o DEF ResetInv
<1> QED BY <1>0, <1>1, <1>2, <1>3, <1>4, <1>5 DEF Inv

(* The same for a step of one reader. *)
LEMMA ReaderStep ==
  ASSUME Inv, NEW r \in Readers, NEW x, RecStep, MarkStep,
         UNCHANGED <<pageVars, epoch, floor, tick, begun>>,
         read' = [read EXCEPT ![r] = x],
         op' = [c \in Clients |-> op'[c]],
         \A c \in Clients : SameFlush(op[c], op'[c]),
         ReadOk(x, log, begun, recording'),
         x.pc \in Bound => \/ read[r].pc \in Bound /\ x.gen = read[r].gen
                           \/ For(recording, x.gen),
         r \in Clients /\ x # NoRead => op[r].pc = "flushing"
  PROVE  Inv'
<1>0. /\ TypeInv /\ generations' = generations
      /\ log' = log /\ page' = page /\ now' = now
      /\ epoch' = epoch /\ floor' = floor /\ tick' = tick /\ begun' = begun
  BY DEF Inv, RecStep, pageVars
<1>1. /\ read' = [q \in Readers |-> read'[q]]
      /\ read'[r] = x
      /\ \A q \in Readers : q # r => read'[q] = read[q]
  BY <1>0 DEF TypeInv
<1>2. TypeInv'
  BY <1>0, <1>1 DEF TypeInv, MarkStep
<1>3. \A q \in Readers : ReadStep(q)
  BY <1>1 DEF ReadStep
<1> QED BY <1>0, <1>2, <1>3, ReadersStep

(* Steps of a call that change nothing but where it is, and neither take nor
   give up a generation.                                                   *)
LEMMA CallStep ==
  ASSUME Inv, NEW c \in Clients, NEW x,
         RecStep, UNCHANGED <<pageVars, epoch, floor, mark, tick, read, begun>>,
         op' = [op EXCEPT ![c] = x],
         OpOk(x, now, begun),
         x.pc \notin {"import", "reset"}, op[c].pc # "reset",
         read[c] # NoRead => x.pc = "flushing"
  PROVE  Inv'
<1>0. /\ TypeInv /\ RecInv /\ ReadInv /\ MarkInv /\ OpInv /\ ImportInv /\ ResetInv
      /\ RecInv' /\ generations' = generations
      /\ (recording' # None => recording # None /\ recording'.generation = recording.generation)
      /\ log' = log /\ page' = page /\ now' = now /\ read' = read
      /\ epoch' = epoch /\ floor' = floor /\ mark' = mark /\ tick' = tick /\ begun' = begun
  BY DEF Inv, RecStep, pageVars
<1>o. /\ op' = [d \in Clients |-> op'[d]]
      /\ op'[c] = x
      /\ \A d \in Clients : d # c => op'[d] = op[d]
  BY <1>0 DEF TypeInv
<1>1. TypeInv'
  BY <1>0, <1>o DEF TypeInv
<1>2. RecInv'
  BY <1>0
<1>3. ReadInv'
  BY <1>0, RecStepKeeps DEF ReadInv
<1>4. MarkInv'
  BY <1>0, RecStepKeeps DEF MarkInv
<1>5. OpInv'
  BY <1>0, <1>o DEF OpInv
<1>6. ImportInv'
  <2>1. ASSUME NEW g \in Nat, NEW d \in Clients, op'[d].pc = "import", op'[d].gen = g
        PROVE  Free(g)'
    <3>1. op[d].pc = "import" /\ op'[d] = op[d] /\ Free(g)
      BY <2>1, <1>0, <1>o DEF ImportInv
    <3> QED BY <3>1, <1>0, <1>o DEF Free
  <2>2. \A d, e \in Clients :
          op'[d].pc = "import" /\ op'[e].pc = "import" /\ op'[d].gen = op'[e].gen => d = e
    BY <1>0, <1>o DEF ImportInv
  <2> QED BY <2>1, <2>2 DEF ImportInv
<1>7. ResetInv'
  BY <1>0, <1>o DEF ResetInv
<1> QED BY <1>1, <1>2, <1>3, <1>4, <1>5, <1>6, <1>7 DEF Inv
-----------------------------------------------------------------------------
(* One read. *)

(* Marks that stay are sound marks. *)
LEMMA SameMarks ==
  ASSUME Inv, mark' = mark
  PROVE  MarkStep
BY DEF Inv, TypeInv, MarkStep

(* A read may end at any time: nothing else depends on it. *)
LEMMA EndedStep ==
  ASSUME Inv, NEW r \in Readers, NEW ok, read[r] # NoRead, Ended(r, ok), MarkStep,
         UNCHANGED <<recVars, pageVars, epoch, floor, tick, begun>>
  PROVE  Inv'
<1>1. op = [c \in Clients |-> op[c]] /\ \A c \in Clients : OpOk(op[c], now, begun)
      /\ (r \in Clients => op[r].pc = "flushing")
  BY DEF Inv, TypeInv, OpInv
<1>2. /\ op' = [c \in Clients |-> op'[c]]
      /\ \A c \in Clients : c # r => op'[c] = op[c]
  BY <1>1 DEF Ended
<1>3. r \in Clients => SameFlush(op[r], op'[r])
  <2> HAVE r \in Clients
  <2>1. op[r].pc = "flushing" /\ "pc" \in DOMAIN op[r]
    BY <1>1 DEF OpOk
  <2>2. \E t, m : op'[r] = [[op[r] EXCEPT !.todo = t] EXCEPT !.missed = m]
    BY <1>1 DEF Ended
  <2> QED BY <2>1, <2>2 DEF SameFlush
<1>4. \A c \in Clients : SameFlush(op[c], op'[c])
  BY <1>2, <1>3 DEF SameFlush
<1>5. ReadOk(NoRead, log, begun, recording) /\ NoRead.pc \notin Bound
  BY DEF ReadOk, NoRead, Bound, Answered
<1>6. read' = [read EXCEPT ![r] = NoRead]
  BY DEF Ended
<1>7. RecStep /\ ReadOk(NoRead, log, begun, recording')
  BY <1>5, SameRecording DEF recVars
<1> QED BY <1>2, <1>4, <1>5, <1>6, <1>7, ReaderStep

(* A step of one read that stays sound, and touches nothing else. *)
LEMMA Reads ==
  ASSUME Inv, NEW r \in Readers, read[r].pc # "none", NEW x,
         UNCHANGED <<recVars, pageVars, epoch, floor, mark, tick, begun, op>>,
         read' = [read EXCEPT ![r] = x],
         ReadOk(x, log, begun, recording),
         x.pc \in Bound => \/ read[r].pc \in Bound /\ x.gen = read[r].gen
                           \/ For(recording, x.gen)
  PROVE  Inv'
<1>1. op' = [c \in Clients |-> op'[c]] /\ \A c \in Clients : SameFlush(op[c], op'[c])
  BY DEF Inv, TypeInv, SameFlush
<1>2. r \in Clients => op[r].pc = "flushing"
  BY DEF Inv, OpInv, NoRead
<1>3. RecStep /\ ReadOk(x, log, begun, recording')
  BY SameRecording DEF recVars
<1> QED BY <1>1, <1>2, <1>3, SameMarks, ReaderStep

(* LockFor keeps the invariant. *)
LEMMA LockForStep ==
  ASSUME Inv, NEW r \in Readers, LockFor(r)
  PROVE  Inv'
<1> DEFINE x == [pc |-> "want", win |-> read[r].win, lock |-> lockId[read[r].win]]
<1>1. read[r].pc # "none" /\ read' = [read EXCEPT ![r] = x]
      /\ UNCHANGED <<recVars, pageVars, epoch, floor, mark, tick, begun, op>>
  BY DEF LockFor, markVars, callVars
<1>2. ReadOk(x, log, begun, recording) /\ x.pc \notin Bound
  BY DEF ReadOk, Bound, Answered
<1> QED BY <1>1, <1>2, Reads

(* Pin: the recording a read is for is the one active just then. *)
LEMMA PinStep ==
  ASSUME Inv, NEW r \in Readers, Pin(r)
  PROVE  Inv'
<1>1. read[r].pc = "want" /\ UNCHANGED <<recVars, pageVars, epoch, floor, mark, tick, begun>>
  BY DEF Pin, markVars
<1>2. CASE IsRecording
  <2> DEFINE x == [pc |-> "pinned", win |-> read[r].win, lock |-> read[r].lock,
                   gen |-> recording.generation]
  <2>1. read' = [read EXCEPT ![r] = x] /\ UNCHANGED op
    BY <1>2 DEF Pin
  <2>2. ReadOk(x, log, begun, recording) /\ For(recording, x.gen)
    BY <1>2 DEF ReadOk, Bound, Answered, For, IsRecording, Inv, RecInv, TypeInv
  <2> QED BY <1>1, <2>1, <2>2, Reads
<1>3. CASE ~IsRecording
  <2>1. Ended(r, TRUE)
    BY <1>1, <1>3 DEF Pin
  <2>2. read[r] # NoRead
    BY <1>1 DEF NoRead
  <2> QED BY <1>1, <2>1, <2>2, EndedStep, SameMarks, Zenon
<1> QED BY <1>2, <1>3

(* Ask: mark and floor of the cursor are those of the pinned recording. *)
LEMMA AskStep ==
  ASSUME Inv, NEW r \in Readers, Ask(r)
  PROVE  Inv'
<1>1. read[r].pc = "pinned" /\ UNCHANGED <<recVars, pageVars, epoch, floor, mark, tick, begun>>
  BY DEF Ask, markVars
<1>2. CASE epoch # read[r].gen
  <2>1. Ended(r, TRUE)
    BY <1>1, <1>2 DEF Ask
  <2>2. read[r] # NoRead
    BY <1>1 DEF NoRead
  <2> QED BY <1>1, <2>1, <2>2, EndedStep, SameMarks, Zenon
<1>3. CASE epoch = read[r].gen /\ read[r].win \notin Open
  <2>1. Ended(r, FALSE)
    BY <1>1, <1>3 DEF Ask
  <2>2. read[r] # NoRead
    BY <1>1 DEF NoRead
  <2> QED BY <1>1, <2>1, <2>2, EndedStep, SameMarks, Zenon
<1>4. CASE epoch = read[r].gen /\ read[r].win \in Open
  <2> DEFINE w == read[r].win
             x == [pc |-> "asked", win |-> w, lock |-> read[r].lock, gen |-> read[r].gen,
                   mark |-> mark[w], floor |-> IF mark[w] = NoMark THEN floor ELSE 0]
  <2>1. read' = [read EXCEPT ![r] = x] /\ UNCHANGED op
    BY <1>4 DEF Ask
  <2>2. w \in Windows /\ read[r].gen \in 1..Len(begun) /\ floor = begun[epoch].floor
    BY <1>1, <1>4 DEF Open, Inv, TypeInv, ReadInv, ReadOk, Bound
  <2>3. MarkOk(log[w], mark[w], epoch, begun, recording)
    BY <2>2 DEF Inv, MarkInv
  <2>4. AskedOk(x, log, begun, recording)
    BY <2>2, <2>3, <1>4 DEF AskedOk, MarkOk
  <2>5. ReadOk(x, log, begun, recording) /\ read[r].pc \in Bound /\ x.gen = read[r].gen
    BY <2>2, <2>4, <1>1 DEF ReadOk, Bound, Answered
  <2> QED BY <1>1, <2>1, <2>5, Reads
<1> QED BY <1>2, <1>3, <1>4

(* What drainEvents answers to a read that was asked for.                  *)
LEMMA DrainEventsAnswer ==
  ASSUME TypeInv, NEW w \in Windows, page[w] # 0, NEW m, NEW lo \in Nat, NEW f \in Nat,
         NEW had, lo <= f,
         m # NoMark => InPages(log[w], m) /\ Covers(log[w], m, f, had),
         NEW reply, reply = DrainEvents(w, m, lo)
  PROVE  /\ reply.mark = <<page[w], Len(log[w][page[w]])>>
         /\ page[w] \in 1..Len(log[w])
         /\ log[w][page[w]] \in Seq(Nat)
         /\ InPages(log[w], reply.mark)
         /\ reply.events \subseteq Nat
         /\ Covers(log[w], reply.mark, f, had \cup reply.events)
<1> DEFINE entries == log[w][page[w]]
           after == IF m[1] = page[w] THEN m[2] ELSE 0
           from == IF after = 0 THEN lo ELSE 0
           events == {entries[k] : k \in {j \in (after + 1)..Len(entries) : entries[j] > from}}
<1>1. reply = [mark |-> <<page[w], Len(entries)>>, events |-> events]
  BY DEF DrainEvents
<1>2. page[w] \in Nat /\ log[w] \in Seq(Seq(Nat)) /\ page[w] <= Len(log[w])
  BY DEF TypeInv
<1>3. page[w] \in 1..Len(log[w])
  BY <1>2
<1>4. entries \in Seq(Nat)
  BY <1>2, <1>3
<1>5. /\ after \in 0..Len(entries)
      /\ \A k \in 1..after : entries[k] > f => entries[k] \in had
  <2>1. CASE m[1] # page[w]
    BY <2>1, <1>4
  <2>2. CASE m[1] = page[w]
    <3>1. m # NoMark
      BY <2>2, <1>3 DEF NoMark
    <3>2. InPages(log[w], m) /\ Covers(log[w], m, f, had)
      BY <3>1
    <3>3. after = m[2] /\ log[w][m[1]] = entries
      BY <2>2
    <3> HIDE DEF entries, after
    <3> QED BY <3>2, <3>3, <1>4 DEF InPages, Covers
  <2> QED BY <2>1, <2>2
<1>6. from \in Nat /\ from <= f
  OBVIOUS
<1>7. InPages(log[w], reply.mark)
  BY <1>1, <1>3, <1>4 DEF InPages
<1>8. \A e : e \in events <=> \E k \in (after + 1)..Len(entries) : entries[k] > from /\ e = entries[k]
  OBVIOUS
<1> HIDE DEF after, from, events
<1>9. events \subseteq Nat
  BY <1>4, <1>5, <1>8
<1>10. \A k \in 1..Len(entries) : entries[k] > f => entries[k] \in had \cup events
  <2> SUFFICES ASSUME NEW k \in 1..Len(entries), entries[k] > f, k > after
               PROVE  entries[k] \in events
    BY <1>4, <1>5
  <2>1. k \in (after + 1)..Len(entries) /\ entries[k] \in Nat
    BY <1>4, <1>5
  <2>2. entries[k] > from
    BY <2>1, <1>6
  <2> QED BY <2>1, <2>2, <1>8
<1>11. Covers(log[w], reply.mark, f, had \cup reply.events)
  <2>1. reply.mark[1] = page[w] /\ reply.mark[2] = Len(entries) /\ reply.events = events
    BY <1>1
  <2> QED BY <2>1, <1>10 DEF Covers
<1> QED BY <1>1, <1>3, <1>4, <1>7, <1>9, <1>11

(* A sound read that the page answers is a sound answer. *)
LEMMA AskedIsAnswered ==
  ASSUME TypeInv, NEW rd, rd.gen \in 1..Len(begun), AskedOk(rd, log, begun, recording),
         page[rd.win] # 0,
         NEW x, x.win = rd.win, x.gen = rd.gen, x.reply = DrainEvents(rd.win, rd.mark, rd.floor)
  PROVE  AnsweredOk(x, log, begun, recording)
<1> DEFINE w == rd.win
           m == rd.mark
           f == begun[rd.gen].floor
           reply == x.reply
<1>1. w \in Windows /\ (m = NoMark => rd.floor = f)
      /\ (m # NoMark => rd.floor = 0 /\ InPages(log[w], m))
      /\ (m # NoMark /\ For(recording, rd.gen) => Covers(log[w], m, f, Held(recording)))
  BY DEF AskedOk
<1>2. f \in Nat
  <2>1. begun[rd.gen] \in Begun
    BY DEF TypeInv
  <2> QED BY <2>1 DEF Begun
<1>3. log[w] \in Seq(Seq(Nat))
  BY <1>1 DEF TypeInv
<1>4. PICK lo : lo = rd.floor
  OBVIOUS
<1>5. reply = DrainEvents(w, m, lo)
  BY <1>4
<1> HIDE DEF w, m, f, reply
<1>6. lo \in Nat /\ lo <= f
  BY <1>1, <1>2, <1>4
<1>7. m # NoMark => InPages(log[w], m) /\ Covers(log[w], m, f, Nat)
  <2> HAVE m # NoMark
  <2>1. InPages(log[w], m)
    BY <1>1
  <2>2. PICK i, n : i = m[1] /\ n = m[2]
    OBVIOUS
  <2>3. i \in 1..Len(log[w]) /\ n \in 0..Len(log[w][i])
    BY <2>1, <2>2 DEF InPages
  <2>4. log[w][i] \in Seq(Nat)
    BY <2>3, <1>3, ElementOfSeq
  <2>5. \A k \in 1..n : log[w][i][k] \in Nat
    BY <2>3, <2>4
  <2> QED BY <2>1, <2>2, <2>5 DEF Covers
<1>8. /\ reply.mark = <<page[w], Len(log[w][page[w]])>>
      /\ page[w] \in 1..Len(log[w])
      /\ log[w][page[w]] \in Seq(Nat)
      /\ InPages(log[w], reply.mark)
      /\ reply.events \subseteq Nat
  <2>1. page[w] # 0
    BY DEF w
  <2> QED BY <2>1, <1>1, <1>2, <1>5, <1>6, <1>7, DrainEventsAnswer
<1>9. For(recording, rd.gen) =>
        Covers(log[w], reply.mark, f, Held(recording) \cup reply.events)
  <2> HAVE For(recording, rd.gen)
  <2>1. m # NoMark => InPages(log[w], m) /\ Covers(log[w], m, f, Held(recording))
    BY <1>1
  <2>2. page[w] # 0
    BY DEF w
  <2> QED BY <2>1, <2>2, <1>1, <1>2, <1>5, <1>6, DrainEventsAnswer
<1>10. reply.mark \in Nat \X Nat
  BY <1>8
<1> QED BY <1>1, <1>8, <1>9, <1>10 DEF AnsweredOk, w, f, reply

(* PageReplies keeps the invariant, whatever page the window shows by then. *)
LEMMA PageRepliesStep ==
  ASSUME Inv, NEW r \in Readers, PageReplies(r)
  PROVE  Inv'
<1> DEFINE w == read[r].win
           x == [pc |-> "replied", win |-> w, lock |-> read[r].lock, gen |-> read[r].gen,
                 reply |-> DrainEvents(w, read[r].mark, read[r].floor)]
<1>1. /\ read[r].pc = "asked" /\ read' = [read EXCEPT ![r] = x]
      /\ UNCHANGED <<recVars, pageVars, epoch, floor, mark, tick, begun, op>>
      /\ page[w] # 0
  BY DEF PageReplies, markVars, callVars, Open
<1>2. read[r].gen \in 1..Len(begun) /\ AskedOk(read[r], log, begun, recording) /\ TypeInv
  BY <1>1 DEF Inv, ReadInv, ReadOk, Bound
<1>3. AnsweredOk(x, log, begun, recording)
  BY <1>1, <1>2, AskedIsAnswered
<1>4. ReadOk(x, log, begun, recording) /\ read[r].pc \in Bound /\ x.gen = read[r].gen
  BY <1>1, <1>2, <1>3 DEF ReadOk, Bound, Answered
<1> QED BY <1>1, <1>4, Reads

(* ReadFails keeps the invariant: the mark stays where it was. *)
LEMMA ReadFailsStep ==
  ASSUME Inv, NEW r \in Readers, ReadFails(r)
  PROVE  Inv'
<1>1. Ended(r, FALSE) /\ UNCHANGED <<recVars, pageVars, epoch, floor, mark, tick, begun>>
  BY DEF ReadFails, markVars
<1>2. read[r] # NoRead
  BY DEF ReadFails, NoRead
<1> QED BY <1>1, <1>2, EndedStep, SameMarks, Zenon

(* MoveMark: the reply is empty, so what it covered is in the recording. *)
LEMMA MoveMarkStep ==
  ASSUME Inv, NEW r \in Readers, MoveMark(r)
  PROVE  Inv'
<1>1. /\ Ended(r, TRUE) /\ UNCHANGED <<recVars, pageVars, epoch, floor, tick, begun>>
      /\ mark' = IF epoch = read[r].gen THEN [mark EXCEPT ![read[r].win] = read[r].reply.mark]
                 ELSE mark
  BY DEF MoveMark, Advance
<1>2. read[r] # NoRead
  BY DEF MoveMark, NoRead
<1>3. /\ read[r].gen \in 1..Len(begun) /\ read[r].reply.events = {}
      /\ AnsweredOk(read[r], log, begun, recording)
  BY DEF MoveMark, Inv, ReadInv, ReadOk, Bound, Answered
<1>4. epoch = read[r].gen =>
        MarkOk(log[read[r].win], read[r].reply.mark, epoch, begun, recording)
  BY <1>3 DEF AnsweredOk, MarkOk
<1>5. MarkStep
  <2>1. mark \in [Windows -> Nat \X Nat] /\ read[r].win \in Windows
        /\ read[r].reply.mark \in Nat \X Nat /\ recording' = recording
    BY <1>1, <1>3 DEF AnsweredOk, Inv, TypeInv, recVars
  <2> QED BY <1>1, <1>4, <2>1 DEF MarkStep
<1> QED BY <1>1, <1>2, <1>5, EndedStep, Zenon

(* A recording that takes an event in.                                     *)
LEMMA AppendedIs ==
  ASSUME NEW rec, {"generation", "all"} \subseteq DOMAIN rec, rec.all \in Seq(Nat), NEW e \in Nat
  PROVE  /\ Appended(rec, e).generation = rec.generation
         /\ Appended(rec, e).all = Append(rec.all, e)
         /\ Appended(rec, e).all \in Seq(Nat)
         /\ {"generation", "all"} \subseteq DOMAIN Appended(rec, e)
         /\ Held(Appended(rec, e)) = Held(rec) \cup {e}
<1>1. \E ev, n : Appended(rec, e) =
        [[[rec EXCEPT !.events = ev] EXCEPT !.counter = n] EXCEPT !.all = Append(rec.all, e)]
  BY DEF Appended
<1>2. PICK r2 : r2 = Appended(rec, e)
  OBVIOUS
<1>3. /\ r2.generation = rec.generation
      /\ r2.all = Append(rec.all, e)
      /\ {"generation", "all"} \subseteq DOMAIN r2
  BY <1>1, <1>2
<1>4. Held(r2) = Held(rec) \cup {e}
  <2>1. PICK a : a = rec.all /\ a \in Seq(Nat)
    OBVIOUS
  <2>2. /\ DOMAIN Append(a, e) = 1..(Len(a) + 1) /\ DOMAIN a = 1..Len(a)
        /\ \A k \in 1..Len(a) : Append(a, e)[k] = a[k]
        /\ Append(a, e)[Len(a) + 1] = e
    BY <2>1
  <2>3. Held(r2) = {Append(a, e)[k] : k \in 1..(Len(a) + 1)} /\ Held(rec) = {a[k] : k \in 1..Len(a)}
    BY <2>1, <2>2, <1>3 DEF Held
  <2>4. 1..(Len(a) + 1) = 1..Len(a) \cup {Len(a) + 1}
    BY <2>1
  <2> QED BY <2>2, <2>3, <2>4
<1>5. r2.all \in Seq(Nat)
  BY <1>3
<1> QED BY <1>2, <1>3, <1>4, <1>5

(* record_events_if takes an event in only for the recording it is meant for. *)
LEMMA RecordingTakesIn ==
  ASSUME Inv, NEW g, NEW e \in Nat, RecordEventIf(g, e)
  PROVE  /\ RecStep
         /\ For(recording', g) => For(recording, g) /\ Held(recording') = Held(recording) \cup {e}
<1>1. RecInv /\ lastSession' = lastSession /\ generations' = generations
  BY DEF Inv, RecordEventIf
<1>2. CASE For(recording, g)
  <2>1. recording' = Appended(recording, e)
    BY <1>2 DEF RecordEventIf, IsRecording, For
  <2>2. /\ recording'.generation = recording.generation
        /\ recording'.all \in Seq(Nat)
        /\ {"generation", "all"} \subseteq DOMAIN recording'
        /\ Held(recording') = Held(recording) \cup {e}
    BY <2>1, <1>1, <1>2, AppendedIs DEF RecInv, For
  <2>3. RecInv' /\ recording # None
    BY <1>1, <1>2, <2>2 DEF RecInv, For
  <2> QED BY <1>1, <1>2, <2>2, <2>3 DEF RecStep, RecKeeps, For
<1>3. CASE ~For(recording, g)
  <2>1. recording' = recording
    BY <1>3 DEF RecordEventIf, IsRecording, For
  <2> QED BY <1>1, <1>3, <2>1, SameRecording DEF recVars
<1> QED BY <1>2, <1>3

(* RecordOne: an event leaves the reply for the recording. *)
LEMMA RecordOneStep ==
  ASSUME Inv, NEW r \in Readers, RecordOne(r)
  PROVE  Inv'
<1>1. PICK rd : rd = read[r]
  OBVIOUS
<1>2. /\ rd.pc \in Answered
      /\ UNCHANGED <<pageVars, epoch, floor, mark, tick, begun, op>>
  BY <1>1 DEF RecordOne, markVars, callVars, Answered
<1>3. PICK e \in rd.reply.events :
        /\ RecordEventIf(rd.gen, e)
        /\ read' = [read EXCEPT ![r] =
                     [pc |-> "recording", win |-> rd.win, lock |-> rd.lock, gen |-> rd.gen,
                      reply |-> [mark |-> rd.reply.mark, events |-> rd.reply.events \ {e}]]]
  BY <1>1 DEF RecordOne
<1> DEFINE x == [pc |-> "recording", win |-> rd.win, lock |-> rd.lock, gen |-> rd.gen,
                 reply |-> [mark |-> rd.reply.mark, events |-> rd.reply.events \ {e}]]
<1>4. /\ rd.gen \in 1..Len(begun) /\ AnsweredOk(rd, log, begun, recording)
      /\ rd.pc \in Bound
  BY <1>1, <1>2 DEF Inv, ReadInv, ReadOk, Bound, Answered
<1>5. e \in Nat
  BY <1>4 DEF AnsweredOk
<1>6. /\ RecStep
      /\ For(recording', rd.gen) =>
           For(recording, rd.gen) /\ Held(recording') = Held(recording) \cup {e}
  BY <1>3, <1>5, RecordingTakesIn
<1>7. AnsweredOk(x, log, begun, recording')
  <2>1. For(recording', rd.gen) =>
          Covers(log[rd.win], rd.reply.mark, begun[rd.gen].floor,
                 Held(recording') \cup (rd.reply.events \ {e}))
    BY <1>4, <1>6 DEF AnsweredOk, Covers
  <2> QED BY <2>1, <1>4 DEF AnsweredOk
<1>8. ReadOk(x, log, begun, recording')
  BY <1>4, <1>7 DEF ReadOk, Bound, Answered
<1>9. op' = [c \in Clients |-> op'[c]] /\ \A c \in Clients : SameFlush(op[c], op'[c])
  BY <1>2 DEF Inv, TypeInv, SameFlush
<1>10. r \in Clients => op[r].pc = "flushing"
  BY <1>1, <1>2 DEF Inv, OpInv, NoRead, Answered
<1> HIDE DEF x
<1>11. x.pc \in Bound => rd.pc \in Bound /\ x.gen = rd.gen
  BY <1>4 DEF x
<1>12. read' = [read EXCEPT ![r] = x]
  BY <1>3 DEF x
<1> QED BY <1>1, <1>2, <1>6, <1>8, <1>9, <1>10, <1>11, <1>12, SameMarks, ReaderStep

(* Every step of a read keeps the invariant. *)
LEMMA ReadingStep ==
  ASSUME Inv, NEW r \in Readers, Reading(r)
  PROVE  Inv'
BY LockForStep, PinStep, AskStep, PageRepliesStep, ReadFailsStep, RecordOneStep, MoveMarkStep
   DEF Reading

(* FlushNext keeps the invariant. *)
LEMMA FlushNextStep ==
  ASSUME Inv, NEW c \in Clients, FlushNext(c)
  PROVE  Inv'
<1>1. PICK w : read' = [read EXCEPT ![c] = [pc |-> "enter", win |-> w]]
  BY DEF FlushNext
<1> DEFINE x == [pc |-> "enter", win |-> w]
<1>2. ReadOk(x, log, begun, recording') /\ x.pc \notin Bound
  BY DEF ReadOk, Bound, Answered
<1>3. /\ op[c].pc = "flushing" /\ UNCHANGED <<recVars, pageVars, epoch, floor, mark, tick, begun, op>>
  BY DEF FlushNext, markVars, callVars
<1>4. op' = [d \in Clients |-> op'[d]] /\ \A d \in Clients : SameFlush(op[d], op'[d])
  BY <1>3 DEF Inv, TypeInv, SameFlush
<1>5. RecStep /\ MarkStep /\ c \in Readers
  BY <1>3, SameRecording, SameMarks DEF Readers
<1> HIDE DEF x
<1> QED BY <1>1, <1>2, <1>3, <1>4, <1>5, ReaderStep DEF x

(* FlushTimeout keeps the invariant: the dropped read moves no mark. *)
LEMMA FlushTimeoutStep ==
  ASSUME Inv, NEW c \in Clients, FlushTimeout(c)
  PROVE  Inv'
<1>1. /\ op[c].pc = "flushing" /\ read' = [read EXCEPT ![c] = NoRead]
      /\ UNCHANGED <<recVars, pageVars, epoch, floor, mark, tick, begun>>
      /\ op' = [op EXCEPT ![c].todo = {}, ![c].missed = @ \cup op[c].todo]
  BY DEF FlushTimeout, markVars
<1>2. op = [d \in Clients |-> op[d]] /\ OpOk(op[c], now, begun)
  BY DEF Inv, TypeInv, OpInv
<1>3. /\ op' = [d \in Clients |-> op'[d]]
      /\ \A d \in Clients : d # c => op'[d] = op[d]
  BY <1>1, <1>2
<1>4. \E t, m : op'[c] = [[op[c] EXCEPT !.todo = t] EXCEPT !.missed = m]
  BY <1>1, <1>2
<1>5. "pc" \in DOMAIN op[c]
  BY <1>1, <1>2 DEF OpOk
<1>6. \A d \in Clients : SameFlush(op[d], op'[d])
  BY <1>1, <1>3, <1>4, <1>5 DEF SameFlush
<1>7. ReadOk(NoRead, log, begun, recording') /\ NoRead.pc \notin Bound
  BY DEF ReadOk, NoRead, Bound, Answered
<1>8. RecStep /\ MarkStep /\ c \in Readers
  BY <1>1, SameRecording, SameMarks DEF Readers
<1> QED BY <1>1, <1>3, <1>6, <1>7, <1>8, ReaderStep
-----------------------------------------------------------------------------
(* Calls that neither take nor use a generation.                           *)

(* A step of a call that holds no generation keeps the invariant. *)
LEMMA Calls ==
  ASSUME Inv, NEW c \in Clients, NEW x, RecStep,
         UNCHANGED <<pageVars, epoch, floor, mark, tick, read, begun>>,
         op' = [op EXCEPT ![c] = x],
         x.pc \in {"none", "count", "flushing"}, x.pc = "flushing" => "pc" \in DOMAIN x,
         op[c].pc # "reset", read[c] = NoRead
  PROVE  Inv'
<1>1. OpOk(x, now, begun) /\ x.pc \notin {"import", "reset"}
  BY DEF OpOk
<1> QED BY <1>1, CallStep

(* So does its end. *)
LEMMA Done ==
  ASSUME Inv, NEW c \in Clients, RecStep,
         UNCHANGED <<pageVars, epoch, floor, mark, tick, read, begun>>,
         op' = [op EXCEPT ![c] = NoOp],
         op[c].pc # "reset", read[c] = NoRead
  PROVE  Inv'
<1>1. NoOp.pc \in {"none", "count", "flushing"} /\ NoOp.pc # "flushing"
  BY DEF NoOp
<1> QED BY <1>1, Calls

(* BeginStart: the time of the call is not ahead of the clock. *)
LEMMA BeginStartStep ==
  ASSUME Inv, NEW c \in Clients, BeginStart(c)
  PROVE  Inv'
<1> DEFINE x == [pc |-> "start", floor |-> now]
<1>1. /\ op[c] = NoOp /\ op' = [op EXCEPT ![c] = x]
      /\ UNCHANGED <<recVars, pageVars, epoch, floor, mark, tick, read, begun>>
  BY DEF BeginStart, Begin, markVars
<1>2. OpOk(x, now, begun) /\ x.pc \notin {"import", "reset"}
  BY DEF OpOk, Inv, TypeInv
<1>3. op[c].pc # "reset" /\ read[c] = NoRead /\ RecStep
  BY <1>1, SameRecording DEF NoOp, Inv, OpInv
<1> HIDE DEF x
<1> QED BY <1>1, <1>2, <1>3, CallStep

(* BeginFlush keeps the invariant. *)
LEMMA BeginFlushStep ==
  ASSUME Inv, NEW c \in Clients, NEW kind, BeginFlush(c, kind)
  PROVE  Inv'
<1>1. /\ op[c] = NoOp
      /\ UNCHANGED <<recVars, pageVars, epoch, floor, mark, tick, read, begun>>
  BY DEF BeginFlush, Begin, markVars
<1>2. PICK todo :
        op' = [op EXCEPT ![c] =
                [pc |-> "flushing", kind |-> kind,
                 todo |-> IF IsRecording THEN todo ELSE {},
                 missed |-> IF IsRecording /\ todo = {} THEN Windows ELSE {},
                 gen |-> IF IsRecording /\ epoch = recording.generation THEN epoch ELSE 0,
                 from |-> page, upto |-> now]]
  BY Zenon DEF BeginFlush
<1> DEFINE x == [pc |-> "flushing", kind |-> kind,
                 todo |-> IF IsRecording THEN todo ELSE {},
                 missed |-> IF IsRecording /\ todo = {} THEN Windows ELSE {},
                 gen |-> IF IsRecording /\ epoch = recording.generation THEN epoch ELSE 0,
                 from |-> page, upto |-> now]
<1>3. x.pc = "flushing" /\ "pc" \in DOMAIN x
  OBVIOUS
<1>4. op[c].pc # "reset" /\ read[c] = NoRead /\ RecStep
  BY <1>1, SameRecording DEF NoOp, Inv, OpInv
<1> HIDE DEF x
<1>5. op' = [op EXCEPT ![c] = x]
  BY <1>2 DEF x
<1> QED BY <1>1, <1>3, <1>4, <1>5, Calls

(* CountCall keeps the invariant. *)
LEMMA CountCallStep ==
  ASSUME Inv, NEW c \in Clients, CountCall(c)
  PROVE  Inv'
<1>1. /\ op[c].pc = "count" /\ op' = [op EXCEPT ![c] = NoOp]
      /\ UNCHANGED <<recVars, pageVars, epoch, floor, mark, tick, read, begun>>
  BY DEF CountCall, markVars
<1>2. read[c] = NoRead /\ RecStep
  BY <1>1, SameRecording DEF Inv, OpInv
<1> QED BY <1>1, <1>2, Done

(* FlushCall keeps the invariant. *)
LEMMA FlushCallStep ==
  ASSUME Inv, NEW c \in Clients, FlushCall(c)
  PROVE  Inv'
<1>1. /\ op[c].pc = "flushing" /\ op' = [op EXCEPT ![c] = NoOp] /\ read[c] = NoRead
      /\ UNCHANGED <<recVars, pageVars, epoch, floor, mark, tick, read, begun>>
  BY DEF FlushCall, Flushed, markVars
<1>2. RecStep
  BY <1>1, SameRecording
<1> QED BY <1>1, <1>2, Done

(* StopCall: no read is for a recording that has ended. *)
LEMMA StopCallStep ==
  ASSUME Inv, NEW c \in Clients, StopCall(c)
  PROVE  Inv'
<1>1. /\ op[c].pc = "flushing" /\ op' = [op EXCEPT ![c] = NoOp] /\ read[c] = NoRead
      /\ UNCHANGED <<pageVars, epoch, floor, mark, tick, read, begun>>
      /\ Stop
  BY DEF StopCall, Flushed, markVars
<1>2. RecStep
  <2>1. CASE IsRecording
    <3>1. /\ recording' = None /\ lastSession'.all = recording.all
          /\ generations' = generations
      BY <1>1, <2>1 DEF Stop, Finish, SessionOf
    <3> QED BY <3>1, <2>1 DEF RecStep, RecInv, RecKeeps, For, Inv, IsRecording
  <2>2. CASE ~IsRecording
    BY <1>1, <2>2, SameRecording DEF Stop
  <2> QED BY <2>1, <2>2
<1> QED BY <1>1, <1>2, Done

(* CheckpointCall takes nothing from the recording. *)
LEMMA CheckpointCallStep ==
  ASSUME Inv, NEW c \in Clients, CheckpointCall(c)
  PROVE  Inv'
<1>1. /\ op[c].pc = "flushing" /\ read[c] = NoRead
      /\ UNCHANGED <<pageVars, epoch, floor, mark, tick, read, begun>>
  BY DEF CheckpointCall, Flushed, markVars
<1>2. CASE IsRecording
  <2> DEFINE x == [pc |-> "count"]
  <2>1. op' = [op EXCEPT ![c] = x] /\ Checkpoint(ops)
    BY <1>2 DEF CheckpointCall
  <2>2. PICK cps : recording' = [recording EXCEPT !.checkpoints = cps]
    BY <2>1 DEF Checkpoint
  <2>3. /\ recording'.generation = recording.generation /\ recording'.all = recording.all
        /\ {"generation", "all"} \subseteq DOMAIN recording'
        /\ lastSession' = lastSession /\ generations' = generations
    BY <1>2, <2>1, <2>2 DEF Checkpoint, Inv, RecInv, IsRecording
  <2>4. RecStep
    BY <1>2, <2>3 DEF RecStep, RecInv, RecKeeps, For, Held, Inv, IsRecording
  <2>5. x.pc = "count"
    OBVIOUS
  <2> HIDE DEF x
  <2> QED BY <1>1, <2>1, <2>4, <2>5, Calls
<1>3. CASE ~IsRecording
  <2>1. op' = [op EXCEPT ![c] = NoOp] /\ UNCHANGED recVars
    BY <1>3 DEF CheckpointCall
  <2> QED BY <1>1, <2>1, SameRecording, Done
<1> QED BY <1>2, <1>3
-----------------------------------------------------------------------------
(* Calls that take a generation or use one.                                *)

(* Steps that leave reads and marks alone, and of every recording something is
   read for keep what it holds. *)
LEMMA GrowStep ==
  ASSUME TypeInv, ReadInv, MarkInv, UNCHANGED <<read, mark, epoch>>,
         \A w \in Windows : PagesGrow(log[w], log'[w]),
         BegunGrows(begun, begun'),
         \A r \in Readers : read[r].pc \in Bound => RecKeeps(recording, recording', read[r].gen),
         epoch \in 1..Len(begun) => RecKeeps(recording, recording', epoch)
  PROVE  ReadInv' /\ MarkInv'
<1>1. ASSUME NEW r \in Readers
      PROVE  ReadOk(read[r], log', begun', recording')
  <2>1. ReadOk(read[r], log, begun, recording)
    BY DEF ReadInv
  <2> QED BY <2>1, ReadGrow
<1>2. ASSUME NEW w \in Windows
      PROVE  MarkOk(log'[w], mark[w], epoch, begun', recording')
  <2>1. MarkOk(log[w], mark[w], epoch, begun, recording)
    BY DEF MarkInv
  <2> QED BY <2>1, MarkGrow
<1> QED BY <1>1, <1>2 DEF ReadInv, MarkInv

(* Pages that stay have grown by nothing. *)
LEMMA SamePages ==
  ASSUME TypeInv
  PROVE  \A w \in Windows : PagesGrow(log[w], log[w])
<1>1. \A w \in Windows : log[w] \in Seq(Seq(Nat))
  BY DEF TypeInv
<1> QED BY <1>1 DEF PagesGrow

(* A generation that is handed out is added to the history. *)
LEMMA BegunAppended ==
  ASSUME TypeInv, NEW b \in Begun, b.floor <= now,
         begun' = Append(begun, b), generations' = generations + 1,
         UNCHANGED <<now, epoch, floor>>
  PROVE  /\ BegunGrows(begun, begun')
         /\ begun' \in Seq(Begun) /\ Len(begun') = generations'
         /\ begun'[generations + 1] = b
         /\ generations' \in Nat
         /\ \A g \in 1..generations' : begun'[g].floor <= now'
         /\ epoch' \in 0..generations'
         /\ epoch' # 0 => floor' = begun'[epoch'].floor
<1>1. begun \in Seq(Begun) /\ Len(begun) = generations /\ generations \in Nat
  BY DEF TypeInv
<1>2. /\ begun' \in Seq(Begun) /\ Len(begun') = generations + 1
      /\ begun'[generations + 1] = b
      /\ \A g \in 1..generations : begun'[g] = begun[g]
  BY <1>1
<1>3. BegunGrows(begun, begun')
  BY <1>1, <1>2 DEF BegunGrows
<1>4. \A g \in 1..generations' : begun'[g].floor <= now'
  BY <1>1, <1>2 DEF TypeInv
<1>5. epoch' \in 0..generations' /\ (epoch' # 0 => floor' = begun'[epoch'].floor)
  BY <1>1, <1>2 DEF TypeInv
<1> QED BY <1>1, <1>2, <1>3, <1>4, <1>5

(* StartCall: the new generation is above every other, and its reset is due. *)
LEMMA StartCallStep ==
  ASSUME Inv, NEW c \in Clients, StartCall(c)
  PROVE  Inv'
<1>0. /\ TypeInv /\ RecInv /\ ReadInv /\ MarkInv /\ OpInv /\ ImportInv
      /\ op[c].pc = "start" /\ read[c] = NoRead
      /\ UNCHANGED <<pageVars, epoch, floor, mark, tick, read>>
  BY DEF Inv, OpInv, StartCall, markVars
<1>1. CASE IsRecording
  <2>1. op' = [op EXCEPT ![c] = NoOp] /\ UNCHANGED <<recVars, begun>>
    BY <1>1 DEF StartCall
  <2> QED BY <1>0, <2>1, SameRecording, Done
<1>2. CASE ~IsRecording
  <2> DEFINE n == generations + 1
             b == [by |-> "start", floor |-> op[c].floor, had |-> 0]
             x == [pc |-> "reset", floor |-> op[c].floor, gen |-> n]
  <2>1. /\ recording' = [generation |-> n, counter |-> 0, events |-> <<>>,
                         checkpoints |-> <<>>, all |-> <<>>]
        /\ lastSession' = lastSession /\ generations' = n
        /\ begun' = Append(begun, b)
        /\ op' = [op EXCEPT ![c] = x]
    BY <1>2 DEF StartCall, StartSession
  <2>2. op[c].floor \in 0..now /\ now \in Nat /\ generations \in Nat /\ Len(begun) = generations
    BY <1>0 DEF OpInv, OpOk, TypeInv
  <2>3. b \in Begun /\ b.floor <= now
    BY <2>2 DEF Begun
  <2>4. /\ BegunGrows(begun, begun')
        /\ begun' \in Seq(Begun) /\ Len(begun') = generations'
        /\ begun'[n] = b
        /\ generations' \in Nat
        /\ \A g \in 1..generations' : begun'[g].floor <= now'
        /\ epoch' \in 0..generations'
        /\ epoch' # 0 => floor' = begun'[epoch'].floor
    <3> HIDE DEF b, x
    <3> QED BY <1>0, <2>1, <2>3, BegunAppended DEF pageVars
  <2>5. /\ op' = [d \in Clients |-> op'[d]] /\ op'[c] = x
        /\ \A d \in Clients : d # c => op'[d] = op[d]
    BY <1>0, <2>1 DEF TypeInv
  <2>6. TypeInv'
    <3> HIDE DEF b, x
    <3> QED BY <1>0, <2>4, <2>5 DEF TypeInv, pageVars
  <2>7. RecInv'
    <3>1. <<>> \in Seq(Nat)
      OBVIOUS
    <3> QED BY <1>0, <2>1, <2>2, <3>1 DEF RecInv
  <2>8. \A g \in 1..Len(begun) : RecKeeps(recording, recording', g)
    BY <2>1, <2>2 DEF RecKeeps, For
  <2>9. ReadInv' /\ MarkInv'
    <3>1. \A r \in Readers : read[r].pc \in Bound => read[r].gen \in 1..Len(begun)
      BY <1>0 DEF ReadInv, ReadOk
    <3>2. UNCHANGED <<read, mark, epoch, log>>
      BY <1>0 DEF pageVars
    <3> HIDE DEF b, x
    <3> QED BY <1>0, <2>4, <2>8, <3>1, <3>2, SamePages, GrowStep
  <2>10. OpInv'
    <3>1. OpOk(x, now, begun')
      <4>1. x.pc = "reset" /\ x.gen = n /\ x.floor = b.floor
        OBVIOUS
      <4> HIDE DEF x, b
      <4> QED BY <2>1, <2>2, <2>4, <4>1 DEF OpOk
    <3>2. ASSUME NEW d \in Clients, d # c
          PROVE  OpOk(op[d], now, begun')
      BY <1>0, <2>2, <2>4, OpGrow DEF OpInv
    <3> HIDE DEF b, x
    <3> QED BY <1>0, <2>5, <3>1, <3>2 DEF OpInv, pageVars
  <2>11. ImportInv'
    <3>1. ASSUME NEW g \in Nat, NEW d \in Clients, op'[d].pc = "import", op'[d].gen = g
          PROVE  Free(g)'
      <4>1. op'[d] = op[d] /\ d # c /\ g # n
        BY <3>1, <1>0, <2>2, <2>5 DEF OpInv, OpOk
      <4>2. Free(g)
        BY <3>1, <4>1, <1>0 DEF ImportInv
      <4> QED BY <1>0, <4>1, <4>2, <2>1, <2>5 DEF Free
    <3>2. \A d, e \in Clients :
            op'[d].pc = "import" /\ op'[e].pc = "import" /\ op'[d].gen = op'[e].gen => d = e
      BY <1>0, <2>5 DEF ImportInv
    <3> QED BY <3>1, <3>2 DEF ImportInv
  <2>12. ResetInv'
    <3>1. recording'.generation = n /\ epoch' <= n
      BY <1>0, <2>1, <2>2 DEF TypeInv
    <3>2. \A d \in Clients : op'[d].pc = "reset" => op'[d].gen <= n
      BY <1>0, <2>2, <2>5 DEF OpInv, OpOk
    <3>3. op'[c].pc = "reset" /\ op'[c].gen = n
      BY <2>5
    <3> QED BY <3>1, <3>2, <3>3 DEF ResetInv
  <2> QED BY <2>6, <2>7, <2>9, <2>10, <2>11, <2>12 DEF Inv
<1> QED BY <1>1, <1>2

(* BeginImport: a generation nobody else holds, kept until the import is done. *)
LEMMA BeginImportStep ==
  ASSUME Inv, NEW c \in Clients, BeginImport(c)
  PROVE  Inv'
<1> DEFINE n == generations + 1
           b == [by |-> "import", floor |-> now, had |-> Len(Source.all)]
           x == [pc |-> "import", floor |-> now, gen |-> n, session |-> Source]
<1>0. /\ TypeInv /\ RecInv /\ ReadInv /\ MarkInv /\ OpInv /\ ImportInv /\ ResetInv
      /\ op[c] = NoOp /\ read[c] = NoRead
      /\ UNCHANGED <<recording, lastSession, pageVars, epoch, floor, mark, tick, read>>
      /\ generations' = n /\ begun' = Append(begun, b) /\ op' = [op EXCEPT ![c] = x]
  BY DEF Inv, OpInv, NoOp, BeginImport, Begin, TakeGeneration, markVars
<1>1. Source.all \in Seq(Nat)
  <2>1. Source # None
    BY DEF BeginImport
  <2>2. CASE IsRecording
    BY <2>2, <1>0 DEF Source, SessionOf, IsRecording, RecInv
  <2>3. CASE ~IsRecording
    BY <2>1, <2>3, <1>0 DEF Source, RecInv
  <2> QED BY <2>2, <2>3
<1>2. now \in Nat /\ generations \in Nat /\ Len(begun) = generations
  BY <1>0 DEF TypeInv
<1>3. b \in Begun /\ b.floor <= now
  BY <1>1, <1>2 DEF Begun
<1>4. /\ BegunGrows(begun, begun')
      /\ begun' \in Seq(Begun) /\ Len(begun') = generations'
      /\ begun'[n] = b
      /\ generations' \in Nat
      /\ \A g \in 1..generations' : begun'[g].floor <= now'
      /\ epoch' \in 0..generations'
      /\ epoch' # 0 => floor' = begun'[epoch'].floor
  <2> HIDE DEF b, x
  <2> QED BY <1>0, <1>3, BegunAppended DEF pageVars
<1>5. /\ op' = [d \in Clients |-> op'[d]] /\ op'[c] = x
      /\ \A d \in Clients : d # c => op'[d] = op[d]
  BY <1>0 DEF TypeInv
<1>6. TypeInv'
  <2> HIDE DEF b, x
  <2> QED BY <1>0, <1>4, <1>5 DEF TypeInv, pageVars
<1>7. RecInv'
  BY <1>0, <1>2 DEF RecInv
<1>8. ReadInv' /\ MarkInv'
  <2>1. \A g : RecKeeps(recording, recording', g)
    BY <1>0 DEF RecKeeps
  <2>2. UNCHANGED <<read, mark, epoch, log>>
    BY <1>0 DEF pageVars
  <2> HIDE DEF b, x
  <2> QED BY <1>0, <1>4, <2>1, <2>2, SamePages, GrowStep
<1>9. OpInv'
  <2>1. OpOk(x, now, begun')
    <3>1. x.pc = "import" /\ x.gen = n /\ x.floor = now /\ x.session.all = Source.all
      OBVIOUS
    <3>2. b.floor = now /\ b.had = Len(Source.all) /\ b.by = "import"
      OBVIOUS
    <3> HIDE DEF x, b
    <3> QED BY <1>1, <1>2, <1>4, <1>0, <3>1, <3>2 DEF OpOk
  <2>2. ASSUME NEW d \in Clients, d # c
        PROVE  OpOk(op[d], now, begun')
    BY <1>0, <1>2, <1>4, OpGrow DEF OpInv
  <2> HIDE DEF b, x
  <2> QED BY <1>0, <1>5, <2>1, <2>2 DEF OpInv, pageVars
<1>10. ImportInv'
  <2>1. ASSUME NEW g \in Nat, NEW d \in Clients, op'[d].pc = "import", op'[d].gen = g
        PROVE  Free(g)'
    <3>1. CASE d # c
      <4>1. Free(g)
        BY <2>1, <3>1, <1>0, <1>5 DEF ImportInv
      <4> QED BY <4>1, <1>0, <1>5 DEF Free
    <3>2. CASE d = c
      <4>1. g = n
        BY <3>2, <2>1, <1>5
      <4>2. /\ epoch # n /\ (recording # None => recording.generation # n)
            /\ \A r \in Readers : read[r].pc \in Bound => read[r].gen # n
            /\ \A e \in Clients : op[e].pc = "reset" => op[e].gen # n
        <5>1. epoch # n /\ (recording # None => recording.generation # n)
          BY <1>0, <1>2 DEF TypeInv, RecInv
        <5>2. \A r \in Readers : read[r].pc \in Bound => read[r].gen \in 1..Len(begun)
          BY <1>0 DEF ReadInv, ReadOk
        <5>3. \A e \in Clients : op[e].pc = "reset" => op[e].gen \in 1..Len(begun)
          BY <1>0 DEF OpInv, OpOk
        <5> QED BY <1>2, <5>1, <5>2, <5>3
      <4> HIDE DEF n
      <4> QED BY <4>1, <4>2, <1>0, <1>5 DEF Free
    <3> QED BY <3>1, <3>2
  <2>2. \A d \in Clients : d # c /\ op[d].pc = "import" => op[d].gen # n
    BY <1>0, <1>2 DEF OpInv, OpOk
  <2>3. \A d, e \in Clients :
          op'[d].pc = "import" /\ op'[e].pc = "import" /\ op'[d].gen = op'[e].gen => d = e
    BY <1>0, <1>5, <2>2 DEF ImportInv
  <2> QED BY <2>1, <2>3 DEF ImportInv
<1>11. ResetInv'
  <2>1. \A d \in Clients : op'[d].pc = "reset" <=> d # c /\ op[d].pc = "reset"
    BY <1>5
  <2>2. op[c].pc # "reset"
    BY <1>0 DEF NoOp
  <2>3. recording # None =>
          /\ recording' # None /\ recording'.generation = recording.generation
          /\ begun'[recording.generation] = begun[recording.generation]
    BY <1>0, <1>2, <1>4 DEF RecInv, BegunGrows
  <2> HIDE DEF b, x
  <2> QED BY <1>0, <1>5, <2>1, <2>2, <2>3 DEF ResetInv
<1> QED BY <1>6, <1>7, <1>8, <1>9, <1>10, <1>11 DEF Inv

(* ImportCall: nothing was read yet for the generation it brings. *)
LEMMA ImportCallStep ==
  ASSUME Inv, NEW c \in Clients, ImportCall(c)
  PROVE  Inv'
<1>0. /\ TypeInv /\ RecInv /\ ReadInv /\ MarkInv /\ OpInv /\ ImportInv
      /\ op[c].pc = "import" /\ read[c] = NoRead
      /\ UNCHANGED <<pageVars, epoch, floor, mark, tick, read, begun>>
  BY DEF Inv, OpInv, ImportCall, markVars
<1>1. CASE IsRecording
  <2>1. op' = [op EXCEPT ![c] = NoOp] /\ UNCHANGED recVars
    BY <1>1 DEF ImportCall
  <2> QED BY <1>0, <2>1, SameRecording, Done
<1>2. CASE ~IsRecording
  <2>1. PICK o : o = op[c]
    OBVIOUS
  <2> DEFINE x == [pc |-> "reset", floor |-> o.floor, gen |-> o.gen]
  <2>2. /\ recording' = Imported(o.session, o.gen)
        /\ lastSession' = lastSession /\ generations' = generations
        /\ op' = [op EXCEPT ![c] = x]
    BY <1>2, <2>1 DEF ImportCall, ImportIfIdle
  <2>3. /\ recording'.generation = o.gen /\ recording'.all = o.session.all
        /\ {"generation", "all"} \subseteq DOMAIN recording'
    BY <2>2 DEF Imported
  <2>4. /\ o.gen \in 1..Len(begun) /\ o.floor = begun[o.gen].floor
        /\ o.session.all \in Seq(Nat) /\ begun[o.gen].by = "import"
    BY <1>0, <2>1 DEF OpInv, OpOk
  <2>5. Free(o.gen)
    <3>1. o.gen \in Nat
      BY <1>0, <2>4 DEF TypeInv
    <3> QED BY <1>0, <2>1, <3>1 DEF ImportInv
  <2>6. /\ op' = [d \in Clients |-> op'[d]] /\ op'[c] = x
        /\ \A d \in Clients : d # c => op'[d] = op[d]
    BY <1>0, <2>2 DEF TypeInv
  <2>7. TypeInv'
    <3> HIDE DEF x
    <3> QED BY <1>0, <2>2, <2>6 DEF TypeInv, pageVars
  <2>8. RecInv'
    BY <1>0, <2>2, <2>3, <2>4 DEF RecInv, TypeInv
  <2>9. ReadInv' /\ MarkInv'
    <3>1. \A r \in Readers : read[r].pc \in Bound => RecKeeps(recording, recording', read[r].gen)
      BY <2>3, <2>5 DEF RecKeeps, For, Free
    <3>2. RecKeeps(recording, recording', epoch)
      BY <2>3, <2>5 DEF RecKeeps, For, Free
    <3>3. BegunGrows(begun, begun') /\ UNCHANGED <<read, mark, epoch, log>>
      BY <1>0 DEF BegunGrows, pageVars, TypeInv
    <3> HIDE DEF x
    <3> QED BY <1>0, <3>1, <3>2, <3>3, SamePages, GrowStep
  <2>10. OpInv'
    <3>1. OpOk(x, now, begun)
      BY <2>4 DEF OpOk
    <3>2. x.pc = "reset"
      OBVIOUS
    <3> HIDE DEF x
    <3> QED BY <1>0, <2>6, <3>1, <3>2 DEF OpInv, pageVars
  <2>11. ImportInv'
    <3>1. ASSUME NEW g \in Nat, NEW d \in Clients, op'[d].pc = "import", op'[d].gen = g
          PROVE  Free(g)'
      <4>1. op'[d] = op[d] /\ d # c
        BY <3>1, <2>6
      <4>2. Free(g) /\ g # o.gen
        BY <3>1, <4>1, <1>0, <2>1 DEF ImportInv
      <4> QED BY <1>0, <4>1, <4>2, <2>3, <2>6 DEF Free
    <3>2. \A d, e \in Clients :
            op'[d].pc = "import" /\ op'[e].pc = "import" /\ op'[d].gen = op'[e].gen => d = e
      BY <1>0, <2>6 DEF ImportInv
    <3> QED BY <3>1, <3>2 DEF ImportInv
  <2>12. ResetInv'
    BY <1>0, <2>3, <2>4 DEF ResetInv
  <2> QED BY <2>7, <2>8, <2>9, <2>10, <2>11, <2>12 DEF Inv
<1> QED BY <1>1, <1>2

(* ResetCall: a later reset stands, and otherwise every window is read anew. *)
LEMMA ResetCallStep ==
  ASSUME Inv, NEW c \in Clients, ResetCall(c)
  PROVE  Inv'
<1>0. /\ TypeInv /\ RecInv /\ ReadInv /\ MarkInv /\ OpInv /\ ImportInv /\ ResetInv
      /\ op[c].pc = "reset" /\ read[c] = NoRead
      /\ UNCHANGED <<recording, lastSession, generations, pageVars, tick, read, begun>>
      /\ op' = [op EXCEPT ![c] = NoOp] /\ Reset(op[c].floor, op[c].gen)
  BY DEF Inv, OpInv, ResetCall, recVars
<1>1. PICK o : o = op[c]
  OBVIOUS
<1>2. /\ o.gen \in 1..Len(begun) /\ o.floor = begun[o.gen].floor
      /\ Len(begun) = generations /\ generations \in Nat /\ epoch \in 0..generations
  BY <1>0, <1>1 DEF OpInv, OpOk, TypeInv
<1>3. \/ o.gen <= epoch /\ UNCHANGED <<epoch, floor, mark>>
      \/ /\ o.gen > epoch /\ epoch' = o.gen /\ floor' = o.floor
         /\ mark' = [w \in Windows |-> NoMark]
  BY <1>0, <1>1, <1>2 DEF Reset
<1>4. /\ op' = [d \in Clients |-> op'[d]] /\ op'[c] = NoOp
      /\ \A d \in Clients : d # c => op'[d] = op[d]
  BY <1>0 DEF TypeInv
<1>5. epoch' \in 0..generations /\ (epoch' # 0 => floor' = begun[epoch'].floor)
  BY <1>0, <1>2, <1>3 DEF TypeInv
<1>6. mark' \in [Windows -> Nat \X Nat]
  BY <1>0, <1>3 DEF TypeInv, NoMark
<1>7. TypeInv'
  BY <1>0, <1>4, <1>5, <1>6 DEF TypeInv, pageVars
<1>8. RecInv' /\ ReadInv'
  BY <1>0 DEF RecInv, ReadInv, pageVars
<1>9. MarkInv'
  <2>1. CASE mark' = [w \in Windows |-> NoMark]
    BY <2>1 DEF MarkInv, MarkOk
  <2>2. CASE UNCHANGED <<epoch, mark>>
    BY <2>2, <1>0 DEF MarkInv, pageVars
  <2> QED BY <2>1, <2>2, <1>3
<1>10. OpInv'
  BY <1>0, <1>4 DEF OpInv, OpOk, NoOp, pageVars
<1>11. ImportInv'
  <2>1. ASSUME NEW g \in Nat, NEW d \in Clients, op'[d].pc = "import", op'[d].gen = g
        PROVE  Free(g)'
    <3>1. op'[d] = op[d] /\ Free(g)
      BY <2>1, <1>0, <1>4 DEF ImportInv, NoOp
    <3>2. epoch # g /\ o.gen # g
      BY <3>1, <1>0, <1>1 DEF Free
    <3>3. epoch' # g
      BY <3>2, <1>3
    <3> QED BY <1>0, <1>4, <3>1, <3>3 DEF Free, NoOp
  <2>2. \A d, e \in Clients :
          op'[d].pc = "import" /\ op'[e].pc = "import" /\ op'[d].gen = op'[e].gen => d = e
    BY <1>0, <1>4 DEF ImportInv, NoOp
  <2> QED BY <2>1, <2>2 DEF ImportInv
<1>12. ResetInv'
  <2> SUFFICES ASSUME recording # None, begun[recording.generation].by = "start"
               PROVE  /\ epoch' <= recording.generation
                      /\ \A d \in Clients : op'[d].pc = "reset" => op'[d].gen <= recording.generation
                      /\ \/ epoch' = recording.generation
                         \/ \E d \in Clients : op'[d].pc = "reset" /\ op'[d].gen = recording.generation
    BY <1>0 DEF ResetInv
  <2>1. PICK g : g = recording.generation
    OBVIOUS
  <2>2. /\ g \in 1..generations /\ epoch <= g /\ o.gen <= g
        /\ \A d \in Clients : op[d].pc = "reset" => op[d].gen <= g
        /\ epoch = g \/ \E d \in Clients : op[d].pc = "reset" /\ op[d].gen = g
    BY <2>1, <1>0, <1>1 DEF ResetInv, RecInv
  <2>3. epoch' <= g /\ (epoch = g \/ o.gen = g => epoch' = g)
    BY <1>2, <1>3, <2>2
  <2>4. \A d \in Clients : op'[d].pc = "reset" => op'[d].gen <= g
    BY <1>4, <2>2 DEF NoOp
  <2>5. epoch' = g \/ \E d \in Clients : op'[d].pc = "reset" /\ op'[d].gen = g
    <3>1. CASE epoch = g \/ o.gen = g
      BY <3>1, <2>3
    <3>2. CASE epoch # g /\ o.gen # g
      <4>1. PICK d \in Clients : op[d].pc = "reset" /\ op[d].gen = g
        BY <3>2, <2>2
      <4>2. d # c
        BY <3>2, <4>1, <1>1
      <4> QED BY <4>1, <4>2, <1>4
    <3> QED BY <3>1, <3>2
  <2> QED BY <2>1, <2>3, <2>4, <2>5
<1> QED BY <1>7, <1>8, <1>9, <1>10, <1>11, <1>12 DEF Inv

(* Requests keep the invariant. *)
LEMMA RequestStep ==
  ASSUME Inv, NEW c \in Clients, Request(c)
  PROVE  Inv'
BY BeginStartStep, BeginImportStep, BeginFlushStep DEF Request

(* And so do the steps of a call. *)
LEMMA CallingStep ==
  ASSUME Inv, NEW c \in Clients, Calling(c)
  PROVE  Inv'
BY StartCallStep, ImportCallStep, ResetCallStep, FlushNextStep, FlushTimeoutStep,
   StopCallStep, CheckpointCallStep, CountCallStep, FlushCallStep
   DEF Calling
-----------------------------------------------------------------------------
(* The pages and the loop.                                                 *)

(* Pages that grow keep the invariant. *)
LEMMA PagesStep ==
  ASSUME Inv, TypeInv', \A w \in Windows : PagesGrow(log[w], log'[w]), now <= now',
         UNCHANGED <<recVars, epoch, floor, mark, tick, read, op, begun>>
  PROVE  Inv'
<1>0. /\ TypeInv /\ RecInv /\ ReadInv /\ MarkInv /\ OpInv /\ ImportInv /\ ResetInv
      /\ recording' = recording /\ lastSession' = lastSession /\ generations' = generations
      /\ epoch' = epoch /\ mark' = mark /\ read' = read /\ op' = op /\ begun' = begun
  BY DEF Inv, recVars
<1>1. RecInv' /\ ImportInv' /\ ResetInv'
  BY <1>0 DEF RecInv, ImportInv, Free, ResetInv
<1>2. BegunGrows(begun, begun')
  BY <1>0 DEF TypeInv, BegunGrows
<1>3. ReadInv' /\ MarkInv'
  <2>1. \A g : RecKeeps(recording, recording', g)
    BY <1>0 DEF RecKeeps
  <2> QED BY <1>0, <1>2, <2>1, GrowStep
<1>4. OpInv'
  <2>1. now \in Nat /\ now' \in Nat
    BY <1>0 DEF TypeInv
  <2>2. \A c \in Clients : OpOk(op[c], now', begun')
    BY <1>0, <1>2, <2>1, OpGrow DEF OpInv
  <2> QED BY <1>0, <2>2 DEF OpInv
<1> QED BY <1>1, <1>3, <1>4 DEF Inv

(* One page of a window captures an event. *)
LEMMA CaptureGrows ==
  ASSUME NEW pages, NEW p, NEW e, NEW pages2,
         pages \in Seq(Seq(Nat)), p \in 1..Len(pages), e \in Nat,
         pages2 = [pages EXCEPT ![p] = Append(pages[p], e)]
  PROVE  /\ pages2 \in Seq(Seq(Nat)) /\ Len(pages2) = Len(pages)
         /\ \A q \in 1..Len(pages) : q # p => pages2[q] = pages[q]
         /\ Len(pages2[p]) = Len(pages[p]) + 1
         /\ \A k \in 1..Len(pages[p]) : pages2[p][k] = pages[p][k]
         /\ pages2[p][Len(pages[p]) + 1] = e
         /\ PagesGrow(pages, pages2)
<1>1. pages[p] \in Seq(Nat)
  BY ElementOfSeq
<1>2. /\ Append(pages[p], e) \in Seq(Nat) /\ Len(Append(pages[p], e)) = Len(pages[p]) + 1
      /\ \A k \in 1..Len(pages[p]) : Append(pages[p], e)[k] = pages[p][k]
      /\ Append(pages[p], e)[Len(pages[p]) + 1] = e
  BY <1>1
<1>3. /\ pages2 \in Seq(Seq(Nat)) /\ Len(pages2) = Len(pages)
      /\ pages2[p] = Append(pages[p], e)
      /\ \A q \in 1..Len(pages) : q # p => pages2[q] = pages[q]
  BY <1>2
<1>4. PagesGrow(pages, pages2)
  <2>1. Len(pages) \in Nat
    OBVIOUS
  <2>2. ASSUME NEW q \in 1..Len(pages)
        PROVE  /\ Len(pages[q]) \in Nat /\ Len(pages2[q]) \in Nat
               /\ Len(pages[q]) <= Len(pages2[q])
               /\ \A k \in 1..Len(pages[q]) : pages2[q][k] = pages[q][k]
    <3>1. pages[q] \in Seq(Nat)
      BY ElementOfSeq
    <3> QED BY <1>1, <1>2, <1>3, <3>1
  <2> QED BY <1>3, <2>1, <2>2 DEF PagesGrow
<1> QED BY <1>2, <1>3, <1>4

(* Capture keeps the invariant. *)
LEMMA CaptureStep ==
  ASSUME Inv, NEW w \in Windows, Capture(w)
  PROVE  Inv'
<1>0. /\ TypeInv /\ now' = now + 1 /\ page[w] # 0
      /\ log' = [log EXCEPT ![w] = [log[w] EXCEPT ![page[w]] = Append(@, now + 1)]]
      /\ UNCHANGED <<recVars, page, epoch, floor, mark, tick, read, op, begun>>
  BY DEF Inv, Capture, markVars, callVars, Open
<1>1. /\ now \in Nat /\ log[w] \in Seq(Seq(Nat)) /\ page[w] \in 1..Len(log[w])
      /\ log \in [Windows -> Seq(Seq(Nat))]
  BY <1>0 DEF TypeInv
<1>2. /\ log'[w] = [log[w] EXCEPT ![page[w]] = Append(@, now + 1)]
      /\ \A v \in Windows : v # w => log'[v] = log[v]
      /\ log' = [v \in Windows |-> log'[v]]
  BY <1>0, <1>1
<1>3. log'[w] \in Seq(Seq(Nat)) /\ Len(log'[w]) = Len(log[w]) /\ PagesGrow(log[w], log'[w])
  <2>1. now + 1 \in Nat
    BY <1>1
  <2>2. PICK p, e : p = page[w] /\ e = now + 1
    OBVIOUS
  <2>3. p \in 1..Len(log[w]) /\ e \in Nat /\ log'[w] = [log[w] EXCEPT ![p] = Append(@, e)]
    BY <1>1, <1>2, <2>1, <2>2
  <2>4. PICK pages, pages2 : pages = log[w] /\ pages2 = log'[w]
    OBVIOUS
  <2>5. /\ pages \in Seq(Seq(Nat)) /\ p \in 1..Len(pages)
        /\ pages2 = [pages EXCEPT ![p] = Append(pages[p], e)]
    BY <1>1, <2>3, <2>4
  <2>6. pages2 \in Seq(Seq(Nat)) /\ Len(pages2) = Len(pages) /\ PagesGrow(pages, pages2)
    <3>1. /\ pages \in Seq(Seq(Nat)) /\ p \in 1..Len(pages) /\ e \in Nat
          /\ pages2 = [pages EXCEPT ![p] = Append(pages[p], e)]
      BY <2>3, <2>5
    <3>2. pages2 \in Seq(Seq(Nat))
      BY <3>1, CaptureGrows
    <3>3. PagesGrow(pages, pages2)
      BY <3>1, CaptureGrows
    <3>4. Len(pages2) = Len(pages)
      BY <3>1
    <3> QED BY <3>2, <3>3, <3>4
  <2> QED BY <2>4, <2>6
<1>4. log' \in [Windows -> Seq(Seq(Nat))] /\ \A v \in Windows : Len(log'[v]) = Len(log[v])
  BY <1>1, <1>2, <1>3
<1>5. \A g \in 1..generations' : begun'[g].floor <= now'
  <2>1. \A g \in 1..generations : begun[g].floor <= now /\ begun[g].floor \in Nat
    <3>1. \A g \in 1..generations : begun[g] \in Begun /\ begun[g].floor <= now
      BY <1>0 DEF TypeInv
    <3> QED BY <3>1 DEF Begun
  <2> QED BY <2>1, <1>0, <1>1 DEF recVars
<1>6. TypeInv'
  BY <1>0, <1>1, <1>4, <1>5 DEF TypeInv, recVars
<1>7. \A v \in Windows : PagesGrow(log[v], log'[v])
  <2>1. \A v \in Windows : PagesGrow(log[v], log[v])
    BY <1>0, SamePages
  <2> QED BY <2>1, <1>2, <1>3
<1>8. now <= now' /\ UNCHANGED <<recVars, epoch, floor, mark, tick, read, op, begun>>
  BY <1>0, <1>1
<1> QED BY <1>6, <1>7, <1>8, PagesStep

(* Load keeps the invariant: a new page is a new place in the log. *)
LEMMA LoadStep ==
  ASSUME Inv, NEW w \in Windows, Load(w)
  PROVE  Inv'
<1>0. /\ TypeInv /\ now' = now
      /\ log' = [log EXCEPT ![w] = Append(@, <<>>)]
      /\ page' = [page EXCEPT ![w] = Len(log[w]) + 1]
      /\ UNCHANGED <<recVars, epoch, floor, mark, tick, read, op, begun>>
  BY DEF Inv, Load, Loads, markVars, callVars
<1>1. now \in Nat /\ log \in [Windows -> Seq(Seq(Nat))] /\ log[w] \in Seq(Seq(Nat))
      /\ page \in [Windows -> Nat]
  BY <1>0 DEF TypeInv
<1> DEFINE none == <<>>
<1>2. none \in Seq(Nat)
  OBVIOUS
<1> HIDE DEF none
<1>3. /\ log'[w] = Append(log[w], none)
      /\ \A v \in Windows : v # w => log'[v] = log[v]
      /\ log' = [v \in Windows |-> log'[v]]
  BY <1>0, <1>1 DEF none
<1>4. /\ log'[w] \in Seq(Seq(Nat)) /\ Len(log'[w]) = Len(log[w]) + 1
      /\ \A p \in 1..Len(log[w]) : log'[w][p] = log[w][p]
  BY <1>1, <1>2, <1>3
<1>5. PagesGrow(log[w], log'[w])
  BY <1>0, <1>4, SamePages DEF PagesGrow
<1>6. /\ log' \in [Windows -> Seq(Seq(Nat))] /\ page' \in [Windows -> Nat]
      /\ \A v \in Windows : page'[v] <= Len(log'[v])
  BY <1>0, <1>1, <1>3, <1>4 DEF TypeInv
<1>7. TypeInv'
  BY <1>0, <1>6 DEF TypeInv, recVars
<1>8. \A v \in Windows : PagesGrow(log[v], log'[v])
  BY <1>0, <1>3, <1>5, SamePages
<1> QED BY <1>0, <1>1, <1>7, <1>8, PagesStep

(* Back keeps the invariant: marks name pages, not what is shown. *)
LEMMA BackStep ==
  ASSUME Inv, NEW w \in Windows, Back(w)
  PROVE  Inv'
<1>0. /\ TypeInv
      /\ UNCHANGED <<recVars, now, log, epoch, floor, mark, tick, read, op, begun>>
  BY DEF Inv, Back, markVars, callVars
<1>1. PICK i \in 1..(page[w] - 1) : page' = [page EXCEPT ![w] = i]
  BY DEF Back
<1>2. /\ page' \in [Windows -> Nat]
      /\ \A v \in Windows : page'[v] <= Len(log[v])
  BY <1>0, <1>1 DEF TypeInv
<1>3. /\ generations' = generations /\ now' = now /\ log' = log /\ epoch' = epoch
      /\ floor' = floor /\ mark' = mark /\ tick' = tick /\ read' = read /\ op' = op
      /\ begun' = begun
  BY <1>0 DEF recVars
<1>4. TypeInv'
  BY <1>0, <1>2, <1>3 DEF TypeInv
<1>5. now <= now'
  BY <1>0, <1>3 DEF TypeInv
<1> QED BY <1>0, <1>4, <1>5, SamePages, PagesStep

(* Close keeps the invariant: what was asked of the window fails. *)
LEMMA CloseStep ==
  ASSUME Inv, NEW w \in Windows, Close(w)
  PROVE  Inv'
<1>0. /\ TypeInv /\ page' = [page EXCEPT ![w] = 0]
      /\ UNCHANGED <<recVars, now, log, epoch, floor, mark, tick, op, begun>>
      /\ read' = [r \in Readers |-> IF read[r].pc = "asked" /\ read[r].win = w
                                    THEN [pc |-> "unheard", win |-> w, lock |-> read[r].lock]
                                    ELSE read[r]]
  BY DEF Inv, Close, markVars, callVars
<1>1. /\ page' \in [Windows -> Nat]
      /\ \A v \in Windows : page'[v] <= Len(log[v])
  BY <1>0 DEF TypeInv
<1>2. TypeInv'
  BY <1>0, <1>1 DEF TypeInv, recVars
<1>3. ASSUME NEW r \in Readers PROVE ReadStep(r)
  <2> DEFINE x == [pc |-> "unheard", win |-> w, lock |-> read[r].lock]
  <2>1. CASE read[r].pc = "asked" /\ read[r].win = w
    <3>1. read'[r] = x
      BY <1>0, <2>1
    <3>2. ReadOk(x, log, begun, recording') /\ x.pc \notin Bound
      BY DEF ReadOk, Bound, Answered
    <3>3. r \in Clients => op[r].pc = "flushing"
      BY <2>1 DEF Inv, OpInv, NoRead
    <3> HIDE DEF x
    <3> QED BY <3>1, <3>2, <3>3 DEF ReadStep
  <2>2. CASE ~(read[r].pc = "asked" /\ read[r].win = w)
    BY <1>0, <2>2 DEF ReadStep
  <2> QED BY <2>1, <2>2
<1>4. \A c \in Clients : SameFlush(op[c], op'[c])
  BY <1>0 DEF SameFlush
<1>5. RecStep /\ MarkStep
  BY <1>0, SameRecording, SameMarks
<1> QED BY <1>0, <1>2, <1>3, <1>4, <1>5, ReadersStep

(* LoopTick, LoopSpawn and LoopJoin keep the invariant. *)
LEMMA LoopStep ==
  ASSUME Inv, Loop
  PROVE  Inv'
<1>0. /\ TypeInv /\ UNCHANGED <<recVars, now, page, log, epoch, floor, op, begun>>
  BY DEF Inv, Loop, LoopTick, LoopSpawn, LoopJoin, Retain, pageVars, markVars, callVars
<1>1. RecStep /\ \A c \in Clients : SameFlush(op[c], op'[c])
  BY <1>0, SameRecording DEF SameFlush
<1>2. CASE LoopTick \/ LoopJoin
  <2>1. UNCHANGED <<mark, read>> /\ (tick'.pc = "listed" => tick'.labels \subseteq Windows)
    BY <1>2 DEF LoopTick, LoopJoin, Open, Asleep, markVars
  <2>2. TypeInv'
    BY <1>0, <2>1 DEF TypeInv, recVars
  <2>3. \A r \in Readers : ReadStep(r)
    BY <2>1 DEF ReadStep
  <2> QED BY <1>0, <1>1, <2>1, <2>2, <2>3, SameMarks, ReadersStep
<1>3. CASE LoopSpawn
  <2>1. /\ tick.labels \subseteq Windows
        /\ tick' = [pc |-> "joining"]
        /\ mark' = [w \in Windows |-> IF w \in tick.labels THEN mark[w] ELSE NoMark]
        /\ read' = [r \in Readers |-> IF r \in tick.labels THEN [pc |-> "enter", win |-> r]
                                                           ELSE read[r]]
    BY <1>0, <1>3 DEF LoopSpawn, Retain, TypeInv
  <2>2. MarkStep
    BY <1>0, <2>1 DEF MarkStep, MarkOk, TypeInv, NoMark
  <2>3. TypeInv'
    BY <1>0, <2>1, <2>2 DEF TypeInv, recVars, MarkStep
  <2>4. ASSUME NEW r \in Readers PROVE ReadStep(r)
    <3> DEFINE x == [pc |-> "enter", win |-> r]
    <3>1. CASE r \in tick.labels
      <4>1. read'[r] = x /\ r \notin Clients
        BY <2>1, <3>1, DrainAssumption
      <4>2. ReadOk(x, log, begun, recording') /\ x.pc \notin Bound
        BY DEF ReadOk, Bound, Answered
      <4> HIDE DEF x
      <4> QED BY <4>1, <4>2 DEF ReadStep
    <3>2. CASE r \notin tick.labels
      BY <2>1, <3>2 DEF ReadStep
    <3> QED BY <3>1, <3>2
  <2> QED BY <1>0, <1>1, <2>2, <2>3, <2>4, ReadersStep
<1> QED BY <1>2, <1>3 DEF Loop
-----------------------------------------------------------------------------
(* Before anything was captured or recorded. *)
LEMMA InvInit == Init => Inv
<1> SUFFICES ASSUME Init PROVE Inv
  OBVIOUS
<1> USE DEF Init, RecInit
<1>1. <<>> \in Seq(Begun) /\ << <<>> >> \in Seq(Seq(Nat)) /\ Len(<< <<>> >>) = 1
  OBVIOUS
<1>2. TypeInv
  BY <1>1 DEF TypeInv, NoMark, Asleep
<1>3. RecInv /\ ImportInv /\ ResetInv
  BY DEF RecInv, ImportInv, ResetInv, NoOp
<1>4. ReadInv
  BY DEF ReadInv, ReadOk, NoRead, Bound, Answered
<1>5. MarkInv
  BY DEF MarkInv, MarkOk
<1>6. OpInv
  BY DEF OpInv, OpOk, NoOp, Readers
<1> QED BY <1>2, <1>3, <1>4, <1>5, <1>6 DEF Inv

(* The invariant is inductive, with a back/forward cache too. *)
LEMMA InvStep == Inv /\ [Next]_vars => Inv'
<1> SUFFICES ASSUME Inv, [Next]_vars PROVE Inv'
  OBVIOUS
<1>1. CASE Pages
  BY <1>1, CaptureStep, LoadStep, BackStep, CloseStep DEF Pages
<1>2. CASE Loop
  BY <1>2, LoopStep
<1>3. CASE \E r \in Readers : Reading(r)
  BY <1>3, ReadingStep
<1>4. CASE \E c \in Clients : Request(c) \/ Calling(c)
  BY <1>4, RequestStep, CallingStep
<1>5. CASE UNCHANGED vars
  <2>1. UNCHANGED <<recVars, now, page, log, epoch, floor, mark, tick, read, op, begun>>
    BY <1>5 DEF vars, pageVars, markVars, callVars
  <2>2. TypeInv' /\ now <= now'
    BY <2>1 DEF Inv, TypeInv, recVars
  <2>3. TypeInv
    BY DEF Inv
  <2> QED BY <2>1, <2>2, <2>3, SamePages, PagesStep
<1> QED BY <1>1, <1>2, <1>3, <1>4, <1>5 DEF Next
-----------------------------------------------------------------------------
(* Nothing older, without a back/forward cache.                            *)

NewAfter(p1, p2, f) ==
    \A p \in 1..Len(p2) : \A k \in 1..Len(p2[p]) :
        (p > Len(p1) \/ k > Len(p1[p])) => p2[p][k] > f

(* What lies behind a mark stays recent while recent entries are added. *)
LEMMA PastGrows ==
  ASSUME NEW p1, NEW p2, NEW m, NEW f, PagesGrow(p1, p2), NewAfter(p1, p2, f), Past(p1, m, f),
         \A p \in 1..Len(p2) : Len(p2[p]) \in Nat
  PROVE  Past(p2, m, f)
<1> SUFFICES ASSUME NEW p \in 1..Len(p2), NEW k \in 1..Len(p2[p]),
                    p > m[1] \/ (p = m[1] /\ k > m[2])
             PROVE  p2[p][k] > f
  BY DEF Past
<1>1. Len(p1) \in Nat /\ Len(p2) \in Nat /\ Len(p2[p]) \in Nat
  BY DEF PagesGrow
<1>2. CASE p > Len(p1)
  BY <1>2 DEF NewAfter
<1>3. CASE p \in 1..Len(p1)
  <2>1. Len(p1[p]) \in Nat /\ \A j \in 1..Len(p1[p]) : p2[p][j] = p1[p][j]
    BY <1>3 DEF PagesGrow
  <2>2. CASE k > Len(p1[p])
    BY <2>2 DEF NewAfter
  <2>3. CASE k \in 1..Len(p1[p])
    <3>1. p2[p][k] = p1[p][k]
      BY <2>1, <2>3
    <3>2. p1[p][k] > f
      BY <1>3, <2>3 DEF Past
    <3> QED BY <3>1, <3>2
  <2> QED BY <1>1, <2>1, <2>2, <2>3
<1> QED BY <1>1, <1>2, <1>3

(* Steps that add only recent entries, and leave reads and marks alone. *)
LEMMA OldGrow ==
  ASSUME Inv, OldInv, TypeInv', BegunGrows(begun, begun'),
         UNCHANGED <<read, mark, epoch>>,
         \A w \in Windows : PagesGrow(log[w], log'[w]),
         \A w \in Windows : \A f \in 0..now : NewAfter(log[w], log'[w], f),
         PageOldInv', NothingOlder'
  PROVE  OldInv'
<1>0. /\ TypeInv /\ ReadInv /\ MarkInv /\ ReadOldInv /\ MarkOldInv
      /\ \A g \in 1..Len(begun) : begun'[g] = begun[g]
  BY DEF Inv, OldInv, BegunGrows
<1>1. \A g \in 1..Len(begun) : begun[g].floor \in 0..now
  <2>1. \A g \in 1..Len(begun) : begun[g] \in Begun /\ begun[g].floor <= now /\ now \in Nat
    BY <1>0 DEF TypeInv
  <2> QED BY <2>1 DEF Begun
<1>2. ASSUME NEW w \in Windows, NEW m, NEW g \in 1..Len(begun), Past(log[w], m, begun[g].floor)
      PROVE  Past(log'[w], m, begun'[g].floor)
  <2>1. \A p \in 1..Len(log'[w]) : Len(log'[w][p]) \in Nat
    <3>1. log'[w] \in Seq(Seq(Nat))
      BY DEF TypeInv
    <3>2. \A p \in 1..Len(log'[w]) : log'[w][p] \in Seq(Nat)
      BY <3>1, ElementOfSeq
    <3> QED BY <3>2
  <2>2. NewAfter(log[w], log'[w], begun[g].floor)
    BY <1>1
  <2> QED BY <1>0, <1>2, <2>1, <2>2, PastGrows
<1>3. ASSUME NEW r \in Readers
      PROVE  ReadOld(read[r], log', begun')
  <2>1. ReadOld(read[r], log, begun) /\ ReadOk(read[r], log, begun, recording)
    BY <1>0 DEF ReadOldInv, ReadInv
  <2>2. PICK rd : rd = read[r]
    OBVIOUS
  <2>3. ASSUME rd.pc = "asked", rd.mark # NoMark
        PROVE  Past(log'[rd.win], rd.mark, begun'[rd.gen].floor)
    <3>1. rd.win \in Windows /\ rd.gen \in 1..Len(begun)
          /\ Past(log[rd.win], rd.mark, begun[rd.gen].floor)
      BY <2>1, <2>2, <2>3 DEF ReadOk, AskedOk, ReadOld, Bound
    <3> QED BY <3>1, <1>2
  <2>4. ASSUME rd.pc \in Answered
        PROVE  /\ Past(log'[rd.win], rd.reply.mark, begun'[rd.gen].floor)
               /\ \A e \in rd.reply.events : e > begun'[rd.gen].floor
    <3>1. rd.win \in Windows /\ rd.gen \in 1..Len(begun)
          /\ Past(log[rd.win], rd.reply.mark, begun[rd.gen].floor)
          /\ \A e \in rd.reply.events : e > begun[rd.gen].floor
      BY <2>1, <2>2, <2>4 DEF ReadOk, AnsweredOk, ReadOld, Bound, Answered
    <3> QED BY <3>1, <1>2, <1>0
  <2> QED BY <2>2, <2>3, <2>4 DEF ReadOld
<1>4. ASSUME NEW w \in Windows
      PROVE  MarkOld(log'[w], mark[w], epoch, begun')
  <2>1. MarkOld(log[w], mark[w], epoch, begun) /\ MarkOk(log[w], mark[w], epoch, begun, recording)
    BY <1>0 DEF MarkOldInv, MarkInv
  <2> QED BY <2>1, <1>2 DEF MarkOld, MarkOk
<1> QED BY <1>3, <1>4 DEF OldInv, ReadOldInv, MarkOldInv

(* A page that stays has no new entries. *)
LEMMA NoneNew ==
  ASSUME NEW pages \in Seq(Seq(Nat)), NEW f
  PROVE  NewAfter(pages, pages, f)
<1> SUFFICES ASSUME NEW p \in 1..Len(pages), NEW k \in 1..Len(pages[p]),
                    p > Len(pages) \/ k > Len(pages[p])
             PROVE  FALSE
  BY DEF NewAfter
<1>1. pages[p] \in Seq(Nat)
  BY ElementOfSeq
<1> QED BY <1>1

(* Nor has a log. *)
LEMMA NothingNew ==
  ASSUME TypeInv, log' = log
  PROVE  \A w \in Windows : \A f \in 0..now : NewAfter(log[w], log'[w], f)
<1>1. \A w \in Windows : log[w] \in Seq(Seq(Nat))
  BY DEF TypeInv
<1> QED BY <1>1, NoneNew

(* Steps in which reads and marks move on, nothing old behind them. *)
LEMMA OldStep ==
  ASSUME OldInv, UNCHANGED <<log, begun>>, PageOldInv', NothingOlder',
         \A r \in Readers : read'[r] = read[r] \/ ReadOld(read'[r], log, begun),
         \A w \in Windows : \/ mark'[w] = mark[w] /\ epoch' = epoch
                            \/ MarkOld(log[w], mark'[w], epoch', begun)
  PROVE  OldInv'
<1>1. ReadOldInv'
  BY DEF OldInv, ReadOldInv
<1>2. MarkOldInv'
  BY DEF OldInv, MarkOldInv
<1> QED BY <1>1, <1>2 DEF OldInv

(* The same where marks stay. *)
LEMMA QuietStep ==
  ASSUME OldInv, UNCHANGED <<page, log, begun, mark, epoch>>, NothingOlder',
         \A r \in Readers : read'[r] = read[r] \/ ReadOld(read'[r], log, begun)
  PROVE  OldInv'
<1>1. PageOldInv'
  BY DEF OldInv, PageOldInv
<1> QED BY <1>1, OldStep

(* A recording that stays has taken in nothing. *)
LEMMA SameOlder ==
  ASSUME OldInv, UNCHANGED <<recording, begun>>
  PROVE  NothingOlder'
BY DEF OldInv, NothingOlder, IsRecording

(* A step of one read. *)
LEMMA OldRead ==
  ASSUME Inv, OldInv, NEW r \in Readers, NEW x, read' = [read EXCEPT ![r] = x],
         UNCHANGED <<recording, page, log, begun, mark, epoch>>,
         ReadOld(x, log, begun)
  PROVE  OldInv'
<1>1. \A q \in Readers : read'[q] = read[q] \/ ReadOld(read'[q], log, begun)
  BY DEF Inv, TypeInv
<1> QED BY <1>1, SameOlder, QuietStep

(* The end of one. *)
LEMMA OldEnded ==
  ASSUME Inv, OldInv, NEW r \in Readers, read' = [read EXCEPT ![r] = NoRead],
         UNCHANGED <<recording, page, log, begun, mark, epoch>>
  PROVE  OldInv'
<1>1. ReadOld(NoRead, log, begun)
  BY DEF ReadOld, NoRead, Answered
<1> QED BY <1>1, OldRead

(* LockFor, Pin and ReadFails ask for nothing and record nothing. *)
LEMMA PinOld ==
  ASSUME Inv, OldInv, NEW r \in Readers, LockFor(r) \/ Pin(r) \/ ReadFails(r)
  PROVE  OldInv'
<1>1. UNCHANGED <<recording, page, log, begun, mark, epoch>>
  BY DEF LockFor, Pin, ReadFails, recVars, pageVars, markVars, callVars
<1>2. CASE LockFor(r)
  <2> DEFINE x == [pc |-> "want", win |-> read[r].win, lock |-> lockId[read[r].win]]
  <2>1. read' = [read EXCEPT ![r] = x]
    BY <1>2 DEF LockFor
  <2>2. ReadOld(x, log, begun)
    BY DEF ReadOld, Answered
  <2> QED BY <1>1, <2>1, <2>2, OldRead
<1>3. CASE Pin(r) /\ IsRecording
  <2> DEFINE x == [pc |-> "pinned", win |-> read[r].win, lock |-> read[r].lock,
                   gen |-> recording.generation]
  <2>1. read' = [read EXCEPT ![r] = x]
    BY <1>3 DEF Pin
  <2>2. ReadOld(x, log, begun)
    BY DEF ReadOld, Answered
  <2> QED BY <1>1, <2>1, <2>2, OldRead
<1>4. CASE (Pin(r) /\ ~IsRecording) \/ ReadFails(r)
  <2>1. read' = [read EXCEPT ![r] = NoRead]
    BY <1>4 DEF Pin, ReadFails, Ended
  <2> QED BY <1>1, <2>1, OldEnded
<1> QED BY <1>2, <1>3, <1>4

(* Ask takes the mark of its own recording. *)
LEMMA AskOld ==
  ASSUME Inv, OldInv, NEW r \in Readers, Ask(r)
  PROVE  OldInv'
<1>1. read[r].pc = "pinned" /\ UNCHANGED <<recording, page, log, begun, mark, epoch>>
  BY DEF Ask, recVars, pageVars, markVars
<1>2. CASE epoch # read[r].gen \/ read[r].win \notin Open
  <2>1. read' = [read EXCEPT ![r] = NoRead]
    BY <1>2 DEF Ask, Ended
  <2> QED BY <1>1, <2>1, OldEnded
<1>3. CASE epoch = read[r].gen /\ read[r].win \in Open
  <2> DEFINE w == read[r].win
             x == [pc |-> "asked", win |-> w, lock |-> read[r].lock, gen |-> read[r].gen,
                   mark |-> mark[w], floor |-> IF mark[w] = NoMark THEN floor ELSE 0]
  <2>1. read' = [read EXCEPT ![r] = x]
    BY <1>3 DEF Ask
  <2>2. w \in Windows /\ MarkOld(log[w], mark[w], epoch, begun)
    BY <1>3 DEF Open, OldInv, MarkOldInv
  <2>3. ReadOld(x, log, begun)
    BY <2>2, <1>3 DEF ReadOld, MarkOld, Answered
  <2> QED BY <1>1, <2>1, <2>3, OldRead
<1> QED BY <1>2, <1>3

(* A page that was never left shows its newest entries last, so what it
   answers lies behind what the mark covers.                               *)
LEMMA AnswerIsNotOld ==
  ASSUME TypeInv, PageOldInv, NEW rd, rd.gen \in 1..Len(begun), rd.pc = "asked",
         AskedOk(rd, log, begun, recording), ReadOld(rd, log, begun),
         page[rd.win] # 0,
         NEW x, x.win = rd.win, x.gen = rd.gen, x.pc = "replied",
         x.reply = DrainEvents(rd.win, rd.mark, rd.floor)
  PROVE  ReadOld(x, log, begun)
<1>1. PICK w, m, f, lo, pages, pg :
        /\ w = rd.win /\ m = rd.mark /\ f = begun[rd.gen].floor /\ lo = rd.floor
        /\ pages = log[w] /\ pg = page[w]
  OBVIOUS
<1>2. /\ w \in Windows
      /\ m = NoMark => lo = f
      /\ m # NoMark => lo = 0 /\ InPages(pages, m) /\ Past(pages, m, f)
  BY <1>1 DEF AskedOk, ReadOld
<1>3. /\ pages \in Seq(Seq(Nat)) /\ pg = Len(pages) /\ pg \in 1..Len(pages)
  <2>1. log[w] \in Seq(Seq(Nat)) /\ page[w] \in Nat /\ page[w] \in {0, Len(log[w])} /\ page[w] # 0
    BY <1>1, <1>2 DEF TypeInv, PageOldInv
  <2> QED BY <2>1, <1>1
<1>4. PICK entries : entries = pages[pg] /\ entries \in Seq(Nat)
  BY <1>3, ElementOfSeq
<1>5. f \in Nat
  <2>1. begun[rd.gen] \in Begun
    BY DEF TypeInv
  <2> QED BY <2>1, <1>1 DEF Begun
<1>6. PICK after : after = IF m[1] = pg THEN m[2] ELSE 0
  OBVIOUS
<1>7. PICK from : from = IF after = 0 THEN lo ELSE 0
  OBVIOUS
<1>8. PICK events : events = {entries[k] : k \in {j \in (after + 1)..Len(entries) : entries[j] > from}}
  OBVIOUS
<1>9. x.reply = [mark |-> <<pg, Len(entries)>>, events |-> events]
  BY <1>1, <1>4, <1>6, <1>7, <1>8 DEF DrainEvents
<1>10. after \in 0..Len(entries)
  <2>1. CASE m[1] # pg
    BY <2>1, <1>4, <1>6
  <2>2. CASE m[1] = pg
    <3>1. m # NoMark
      BY <2>2, <1>3 DEF NoMark
    <3> QED BY <3>1, <2>2, <1>2, <1>4, <1>6 DEF InPages
  <2> QED BY <2>1, <2>2
<1>11. \A k \in (after + 1)..Len(entries) : entries[k] > from => entries[k] > f
  <2> SUFFICES ASSUME NEW k \in (after + 1)..Len(entries), entries[k] > from
               PROVE  entries[k] > f
    OBVIOUS
  <2>1. k \in 1..Len(entries)
    BY <1>4, <1>10
  <2>2. CASE m = NoMark
    <3>1. after = 0 /\ from = f
      BY <2>2, <1>2, <1>3, <1>6, <1>7 DEF NoMark
    <3> QED BY <3>1
  <2>3. CASE m # NoMark
    <3>1. Past(pages, m, f) /\ InPages(pages, m)
      BY <2>3, <1>2
    <3>2. pg > m[1] \/ (pg = m[1] /\ k > m[2])
      <4>1. m[1] \in 1..Len(pages)
        BY <3>1 DEF InPages
      <4>2. CASE m[1] = pg
        <5>1. after = m[2]
          BY <4>2, <1>6
        <5> QED BY <5>1, <4>2, <1>10
      <4>3. CASE m[1] # pg
        BY <4>1, <4>3, <1>3
      <4> QED BY <4>2, <4>3
    <3>3. pages[pg][k] > f
      BY <3>1, <3>2, <2>1, <1>3, <1>4 DEF Past
    <3> QED BY <3>3, <1>4
  <2> QED BY <2>2, <2>3
<1>12. \A e \in events : e > f
  BY <1>8, <1>11
<1>13. Past(pages, <<pg, Len(entries)>>, f)
  <2> SUFFICES ASSUME NEW p \in 1..Len(pages), NEW k \in 1..Len(pages[p]),
                      p > pg \/ (p = pg /\ k > Len(entries))
               PROVE  FALSE
    BY DEF Past
  <2>1. CASE p > pg
    BY <2>1, <1>3
  <2>2. CASE p = pg /\ k > Len(entries)
    BY <2>2, <1>4
  <2> QED BY <2>1, <2>2
<1>14. x.reply.mark = <<pg, Len(entries)>> /\ x.reply.events = events
  BY <1>9
<1> QED BY <1>1, <1>12, <1>13, <1>14 DEF ReadOld

(* PageReplies answers nothing old. *)
LEMMA PageRepliesOld ==
  ASSUME Inv, OldInv, NEW r \in Readers, PageReplies(r)
  PROVE  OldInv'
<1> DEFINE w == read[r].win
           x == [pc |-> "replied", win |-> w, lock |-> read[r].lock, gen |-> read[r].gen,
                 reply |-> DrainEvents(w, read[r].mark, read[r].floor)]
<1>1. /\ read[r].pc = "asked" /\ read' = [read EXCEPT ![r] = x]
      /\ UNCHANGED <<recording, page, log, begun, mark, epoch>>
      /\ page[w] # 0
  BY DEF PageReplies, recVars, pageVars, markVars, callVars, Open
<1>2. read[r].gen \in 1..Len(begun) /\ AskedOk(read[r], log, begun, recording) /\ TypeInv
  BY <1>1 DEF Inv, ReadInv, ReadOk, Bound
<1>3. PageOldInv /\ ReadOld(read[r], log, begun)
  BY DEF OldInv, ReadOldInv
<1>4. ReadOld(x, log, begun)
  BY <1>1, <1>2, <1>3, AnswerIsNotOld
<1> QED BY <1>1, <1>4, OldRead

(* An event after the beginning is added to such events. *)
LEMMA NewestStillNewer ==
  ASSUME NEW a \in Seq(Nat), NEW e \in Nat, NEW h \in Nat, NEW f, e > f,
         \A k \in (h + 1)..Len(a) : a[k] > f
  PROVE  \A k \in (h + 1)..Len(Append(a, e)) : Append(a, e)[k] > f
<1> SUFFICES ASSUME NEW k \in (h + 1)..Len(Append(a, e))
             PROVE  Append(a, e)[k] > f
  OBVIOUS
<1>1. CASE k \in (h + 1)..Len(a)
  BY <1>1
<1>2. CASE k = Len(a) + 1
  BY <1>2
<1> QED BY <1>1, <1>2

(* RecordOne takes in nothing old. *)
LEMMA RecordOneOld ==
  ASSUME Inv, OldInv, NEW r \in Readers, RecordOne(r)
  PROVE  OldInv'
<1>1. PICK rd : rd = read[r]
  OBVIOUS
<1>2. rd.pc \in Answered /\ UNCHANGED <<page, log, begun, mark, epoch>>
  BY <1>1 DEF RecordOne, pageVars, markVars, callVars, Answered
<1>3. PICK e \in rd.reply.events :
        /\ RecordEventIf(rd.gen, e)
        /\ read' = [read EXCEPT ![r] =
                     [pc |-> "recording", win |-> rd.win, lock |-> rd.lock, gen |-> rd.gen,
                      reply |-> [mark |-> rd.reply.mark, events |-> rd.reply.events \ {e}]]]
  BY <1>1 DEF RecordOne
<1> DEFINE x == [pc |-> "recording", win |-> rd.win, lock |-> rd.lock, gen |-> rd.gen,
                 reply |-> [mark |-> rd.reply.mark, events |-> rd.reply.events \ {e}]]
<1>4. /\ rd.gen \in 1..Len(begun) /\ e \in Nat
      /\ Past(log[rd.win], rd.reply.mark, begun[rd.gen].floor)
      /\ \A d \in rd.reply.events : d > begun[rd.gen].floor
  BY <1>1, <1>2 DEF Inv, ReadInv, ReadOk, AnsweredOk, Bound, Answered, OldInv, ReadOldInv, ReadOld
<1>5. ReadOld(x, log, begun)
  BY <1>4 DEF ReadOld
<1>6. \A q \in Readers : read'[q] = read[q] \/ ReadOld(read'[q], log, begun)
  <2>1. read = [q \in Readers |-> read[q]]
    BY DEF Inv, TypeInv
  <2>2. read' = [read EXCEPT ![r] = x]
    BY <1>3
  <2> HIDE DEF x
  <2> QED BY <1>5, <2>1, <2>2
<1>7. NothingOlder'
  <2>1. CASE For(recording, rd.gen)
    <3>1. recording' = Appended(recording, e)
      BY <1>3, <2>1 DEF RecordEventIf, IsRecording, For
    <3>2. PICK a, g, h, f : a = recording.all /\ g = rd.gen /\ h = begun[g].had /\ f = begun[g].floor
      OBVIOUS
    <3>3. recording # None /\ recording.generation = g /\ a \in Seq(Nat)
          /\ {"generation", "all"} \subseteq DOMAIN recording
      BY <2>1, <3>2 DEF For, Inv, RecInv
    <3>4. recording'.generation = g /\ recording'.all = Append(a, e)
      BY <1>4, <3>1, <3>2, <3>3, AppendedIs
    <3>5. h \in Nat
      <4>1. begun[g] \in Begun
        BY <1>4, <3>2 DEF Inv, TypeInv
      <4> QED BY <4>1, <3>2 DEF Begun
    <3>6. e > f /\ \A k \in (h + 1)..Len(a) : a[k] > f
      BY <1>3, <1>4, <3>2, <3>3 DEF OldInv, NothingOlder, IsRecording
    <3>7. \A k \in (h + 1)..Len(Append(a, e)) : Append(a, e)[k] > f
      BY <1>4, <3>3, <3>5, <3>6, NewestStillNewer
    <3> QED BY <1>2, <3>2, <3>4, <3>7 DEF NothingOlder
  <2>2. CASE ~For(recording, rd.gen)
    <3>1. recording' = recording
      BY <1>3, <2>2 DEF RecordEventIf, IsRecording, For
    <3> QED BY <1>2, <3>1, SameOlder
  <2> QED BY <2>1, <2>2
<1> QED BY <1>2, <1>6, <1>7, QuietStep

(* MoveMark: nothing old lies behind the reply. *)
LEMMA MoveMarkOld ==
  ASSUME Inv, OldInv, NEW r \in Readers, MoveMark(r)
  PROVE  OldInv'
<1>1. PICK rd : rd = read[r]
  OBVIOUS
<1>2. /\ UNCHANGED <<recording, page, log, begun, epoch>>
      /\ read' = [read EXCEPT ![r] = NoRead]
      /\ mark' = IF epoch = rd.gen THEN [mark EXCEPT ![rd.win] = rd.reply.mark] ELSE mark
      /\ rd.pc \in Answered
  BY <1>1 DEF MoveMark, Advance, Ended, recVars, pageVars, Answered
<1>3. Past(log[rd.win], rd.reply.mark, begun[rd.gen].floor)
  BY <1>1, <1>2 DEF OldInv, ReadOldInv, ReadOld
<1>4. \A q \in Readers : read'[q] = read[q] \/ ReadOld(read'[q], log, begun)
  BY <1>2 DEF Inv, TypeInv, ReadOld, NoRead, Answered
<1>5. \A w \in Windows : \/ mark'[w] = mark[w] /\ epoch' = epoch
                         \/ MarkOld(log[w], mark'[w], epoch', begun)
  BY <1>2, <1>3 DEF Inv, TypeInv, MarkOld
<1>6. PageOldInv' /\ NothingOlder'
  BY <1>2, SameOlder DEF OldInv, PageOldInv
<1> QED BY <1>2, <1>4, <1>5, <1>6, OldStep

(* Every step of a read. *)
LEMMA ReadingOld ==
  ASSUME Inv, OldInv, NEW r \in Readers, Reading(r)
  PROVE  OldInv'
BY PinOld, AskOld, PageRepliesOld, RecordOneOld, MoveMarkOld DEF Reading

(* The loop, the windows, and the calls.                                   *)

(* Capture: in the newest page of its window, after everything that has begun. *)
LEMMA CaptureOld ==
  ASSUME Inv, OldInv, NEW w \in Windows, Capture(w)
  PROVE  OldInv'
<1>0. /\ TypeInv /\ page[w] # 0 /\ page[w] \in {0, Len(log[w])}
      /\ log' = [log EXCEPT ![w] = [log[w] EXCEPT ![page[w]] = Append(@, now + 1)]]
      /\ UNCHANGED <<recording, page, epoch, mark, read, begun>>
  BY DEF Inv, OldInv, PageOldInv, Capture, recVars, markVars, callVars, Open
<1>1. /\ now \in Nat /\ log[w] \in Seq(Seq(Nat)) /\ page[w] \in 1..Len(log[w])
      /\ log \in [Windows -> Seq(Seq(Nat))]
  BY <1>0 DEF TypeInv
<1>2. PICK p, e, pages, pages2 : p = page[w] /\ e = now + 1 /\ pages = log[w] /\ pages2 = log'[w]
  OBVIOUS
<1>3. /\ pages \in Seq(Seq(Nat)) /\ p \in 1..Len(pages) /\ e \in Nat
      /\ pages2 = [pages EXCEPT ![p] = Append(pages[p], e)]
      /\ \A v \in Windows : v # w => log'[v] = log[v]
  <2>1. log'[w] = [log[w] EXCEPT ![page[w]] = Append(@, now + 1)]
        /\ \A v \in Windows : v # w => log'[v] = log[v]
    BY <1>0, <1>1
  <2> QED BY <2>1, <1>1, <1>2
<1>4. /\ Len(pages2) = Len(pages)
      /\ \A q \in 1..Len(pages) : q # p => pages2[q] = pages[q]
      /\ Len(pages2[p]) = Len(pages[p]) + 1
      /\ pages2[p][Len(pages[p]) + 1] = e
  BY <1>3, CaptureGrows
<1>5. PagesGrow(pages, pages2)
  BY <1>3, CaptureGrows
<1>6. \A f \in 0..now : NewAfter(pages, pages2, f)
  <2> SUFFICES ASSUME NEW f \in 0..now, NEW q \in 1..Len(pages2), NEW k \in 1..Len(pages2[q]),
                      q > Len(pages) \/ k > Len(pages[q])
               PROVE  pages2[q][k] > f
    BY DEF NewAfter
  <2>1. pages[q] \in Seq(Nat) /\ q \in 1..Len(pages)
    BY <1>3, <1>4, ElementOfSeq
  <2>2. q = p
    BY <1>4, <2>1
  <2>3. k = Len(pages[p]) + 1
    BY <1>4, <2>1, <2>2
  <2> QED BY <1>1, <1>2, <1>4, <2>2, <2>3
<1>7. \A v \in Windows : PagesGrow(log[v], log'[v])
  BY <1>0, <1>2, <1>3, <1>5, SamePages
<1>8. ASSUME NEW v \in Windows, NEW f \in 0..now
      PROVE  NewAfter(log[v], log'[v], f)
  <2>1. CASE v = w
    BY <2>1, <1>2, <1>6
  <2>2. CASE v # w
    <3>1. log'[v] = log[v] /\ log[v] \in Seq(Seq(Nat))
      BY <1>1, <1>3, <2>2
    <3> QED BY <3>1, NoneNew
  <2> QED BY <2>1, <2>2
<1>9. PageOldInv'
  BY <1>0, <1>2, <1>3, <1>4 DEF OldInv, PageOldInv
<1>10. TypeInv' /\ BegunGrows(begun, begun') /\ NothingOlder'
  <2>1. TypeInv'
    BY CaptureStep DEF Inv
  <2> QED BY <1>0, <2>1, SameOlder DEF BegunGrows, TypeInv
<1> QED BY <1>0, <1>7, <1>8, <1>9, <1>10, OldGrow

(* Load: an empty page, and the newest. *)
LEMMA LoadOld ==
  ASSUME Inv, OldInv, NEW w \in Windows, Load(w)
  PROVE  OldInv'
<1>0. /\ TypeInv
      /\ log' = [log EXCEPT ![w] = Append(@, <<>>)]
      /\ page' = [page EXCEPT ![w] = Len(log[w]) + 1]
      /\ UNCHANGED <<recording, epoch, mark, read, begun>>
  BY DEF Inv, Load, Loads, recVars, markVars, callVars
<1>1. log \in [Windows -> Seq(Seq(Nat))] /\ log[w] \in Seq(Seq(Nat)) /\ page \in [Windows -> Nat]
  BY <1>0 DEF TypeInv
<1> DEFINE none == <<>>
<1>2. none \in Seq(Nat) /\ Len(none) = 0
  OBVIOUS
<1> HIDE DEF none
<1>3. log'[w] = Append(log[w], none) /\ \A v \in Windows : v # w => log'[v] = log[v]
  BY <1>0, <1>1 DEF none
<1>4. /\ Len(log'[w]) = Len(log[w]) + 1
      /\ \A p \in 1..Len(log[w]) : log'[w][p] = log[w][p]
      /\ log'[w][Len(log[w]) + 1] = none
  BY <1>1, <1>2, <1>3
<1>5. \A v \in Windows : PagesGrow(log[v], log'[v])
  BY <1>0, <1>3, <1>4, SamePages DEF PagesGrow
<1>6. ASSUME NEW v \in Windows, NEW f \in 0..now
      PROVE  NewAfter(log[v], log'[v], f)
  <2>1. CASE v = w
    <3> SUFFICES ASSUME NEW q \in 1..Len(log'[w]), NEW k \in 1..Len(log'[w][q]),
                        q > Len(log[w]) \/ k > Len(log[w][q])
                 PROVE  FALSE
      BY <2>1 DEF NewAfter
    <3>1. CASE q \in 1..Len(log[w])
      <4>1. log'[w][q] = log[w][q] /\ log[w][q] \in Seq(Nat)
        BY <3>1, <1>1, <1>4, ElementOfSeq
      <4> QED BY <4>1, <3>1, <1>1
    <3>2. CASE q = Len(log[w]) + 1
      BY <3>2, <1>2, <1>4
    <3> QED BY <3>1, <3>2, <1>1, <1>4
  <2>2. CASE v # w
    <3>1. log'[v] = log[v] /\ log[v] \in Seq(Seq(Nat))
      BY <1>1, <1>3, <2>2
    <3> QED BY <3>1, NoneNew
  <2> QED BY <2>1, <2>2
<1>7. PageOldInv'
  BY <1>0, <1>1, <1>3, <1>4 DEF OldInv, PageOldInv
<1>8. TypeInv' /\ BegunGrows(begun, begun') /\ NothingOlder'
  <2>1. TypeInv'
    BY LoadStep DEF Inv
  <2> QED BY <1>0, <2>1, SameOlder DEF BegunGrows, TypeInv
<1> QED BY <1>0, <1>5, <1>6, <1>7, <1>8, OldGrow

(* Close. *)
LEMMA CloseOld ==
  ASSUME Inv, OldInv, NEW w \in Windows, Close(w)
  PROVE  OldInv'
<1>0. /\ page' = [page EXCEPT ![w] = 0]
      /\ UNCHANGED <<recording, log, epoch, mark, begun>>
      /\ read' = [r \in Readers |-> IF read[r].pc = "asked" /\ read[r].win = w
                                    THEN [pc |-> "unheard", win |-> w, lock |-> read[r].lock]
                                    ELSE read[r]]
  BY DEF Close, recVars, markVars, callVars
<1>1. ASSUME NEW r \in Readers
      PROVE  read'[r] = read[r] \/ ReadOld(read'[r], log, begun)
  <2> DEFINE x == [pc |-> "unheard", win |-> w, lock |-> read[r].lock]
  <2>1. read'[r] = read[r] \/ read'[r] = x
    BY <1>0
  <2>2. ReadOld(x, log, begun)
    BY DEF ReadOld, Answered
  <2> HIDE DEF x
  <2> QED BY <2>1, <2>2
<1>2. PageOldInv'
  BY <1>0 DEF Inv, TypeInv, OldInv, PageOldInv
<1> QED BY <1>0, <1>1, <1>2, SameOlder, OldStep

(* The loop forgets marks, which is always safe. *)
LEMMA LoopOld ==
  ASSUME Inv, OldInv, Loop
  PROVE  OldInv'
<1>0. UNCHANGED <<recording, page, log, epoch, begun>>
  BY DEF Loop, LoopTick, LoopSpawn, LoopJoin, Retain, recVars, pageVars, markVars, callVars
<1>1. CASE LoopTick \/ LoopJoin
  <2>1. UNCHANGED <<mark, read>>
    BY <1>1 DEF LoopTick, LoopJoin, markVars
  <2> QED BY <1>0, <2>1, SameOlder, QuietStep
<1>2. CASE LoopSpawn
  <2>1. /\ mark' = [w \in Windows |-> IF w \in tick.labels THEN mark[w] ELSE NoMark]
        /\ read' = [r \in Readers |-> IF r \in tick.labels THEN [pc |-> "enter", win |-> r]
                                                           ELSE read[r]]
    BY <1>2 DEF LoopSpawn, Retain
  <2>2. ASSUME NEW r \in Readers
        PROVE  read'[r] = read[r] \/ ReadOld(read'[r], log, begun)
    <3> DEFINE x == [pc |-> "enter", win |-> r]
    <3>1. read'[r] = read[r] \/ read'[r] = x
      BY <2>1
    <3>2. ReadOld(x, log, begun)
      BY DEF ReadOld, Answered
    <3> HIDE DEF x
    <3> QED BY <3>1, <3>2
  <2>3. \A w \in Windows : \/ mark'[w] = mark[w] /\ epoch' = epoch
                           \/ MarkOld(log[w], mark'[w], epoch', begun)
    BY <1>0, <2>1 DEF MarkOld
  <2>4. PageOldInv'
    BY <1>0 DEF OldInv, PageOldInv
  <2> QED BY <1>0, <2>2, <2>3, <2>4, SameOlder, OldStep
<1> QED BY <1>1, <1>2 DEF Loop

(* FlushNext and FlushTimeout. *)
LEMMA FlushOld ==
  ASSUME Inv, OldInv, NEW c \in Clients, FlushNext(c) \/ FlushTimeout(c)
  PROVE  OldInv'
<1>1. c \in Readers /\ UNCHANGED <<recording, page, log, begun, mark, epoch>>
  BY DEF FlushNext, FlushTimeout, Readers, recVars, pageVars, markVars, callVars
<1>2. CASE FlushNext(c)
  <2>1. PICK w : read' = [read EXCEPT ![c] = [pc |-> "enter", win |-> w]]
    BY <1>2 DEF FlushNext
  <2> DEFINE x == [pc |-> "enter", win |-> w]
  <2>2. ReadOld(x, log, begun)
    BY DEF ReadOld, Answered
  <2> QED BY <1>1, <2>1, <2>2, OldRead
<1>3. CASE FlushTimeout(c)
  <2>1. read' = [read EXCEPT ![c] = NoRead]
    BY <1>3 DEF FlushTimeout
  <2> QED BY <1>1, <2>1, OldEnded
<1> QED BY <1>2, <1>3

(* Calls that take nothing in. *)
LEMMA EndsOld ==
  ASSUME Inv, OldInv, NEW c \in Clients,
         \/ BeginStart(c) \/ (\E kind : BeginFlush(c, kind)) \/ StopCall(c)
         \/ CheckpointCall(c) \/ CountCall(c) \/ FlushCall(c)
  PROVE  OldInv'
<1>1. UNCHANGED <<page, log, begun, mark, epoch, read>>
  BY DEF BeginStart, BeginFlush, StopCall, CheckpointCall, CountCall, FlushCall,
         pageVars, markVars
<1>2. NothingOlder'
  <2>1. CASE UNCHANGED recVars
    BY <2>1, <1>1, SameOlder DEF recVars
  <2>2. CASE StopCall(c)
    <3>1. recording' = None \/ recording' = recording
      BY <2>2 DEF StopCall, Stop, Finish, recVars
    <3> QED BY <3>1, <1>1, SameOlder DEF NothingOlder, IsRecording
  <2>3. CASE CheckpointCall(c) /\ IsRecording
    <3>1. Checkpoint(ops)
      BY <2>3 DEF CheckpointCall
    <3>2. PICK cps : recording' = [recording EXCEPT !.checkpoints = cps]
      BY <3>1 DEF Checkpoint
    <3>3. recording'.generation = recording.generation /\ recording'.all = recording.all
      BY <3>2, <2>3 DEF Inv, RecInv, IsRecording
    <3> QED BY <1>1, <2>3, <3>3 DEF OldInv, NothingOlder, IsRecording
  <2> QED BY <2>1, <2>2, <2>3
          DEF BeginStart, BeginFlush, CheckpointCall, CountCall, FlushCall
<1> QED BY <1>1, <1>2, QuietStep

(* A generation that is handed out changes no earlier one. *)
LEMMA BegunOld ==
  ASSUME Inv, OldInv, NEW b, begun' = Append(begun, b), TypeInv',
         UNCHANGED <<page, log, epoch, mark, read>>, NothingOlder'
  PROVE  OldInv'
<1>1. BegunGrows(begun, begun')
  BY DEF Inv, TypeInv, BegunGrows
<1>2. /\ \A w \in Windows : PagesGrow(log[w], log'[w])
      /\ \A w \in Windows : \A f \in 0..now : NewAfter(log[w], log'[w], f)
  BY SamePages, NothingNew DEF Inv
<1>3. PageOldInv'
  BY DEF OldInv, PageOldInv
<1> QED BY <1>1, <1>2, <1>3, OldGrow

(* StartCall: the recording is empty. *)
LEMMA StartCallOld ==
  ASSUME Inv, OldInv, NEW c \in Clients, StartCall(c)
  PROVE  OldInv'
<1>1. UNCHANGED <<page, log, epoch, mark, read>>
  BY DEF StartCall, pageVars, markVars
<1>2. CASE IsRecording
  <2>1. UNCHANGED <<recording, begun>>
    BY <1>2 DEF StartCall, recVars
  <2> QED BY <1>1, <2>1, SameOlder, QuietStep
<1>3. CASE ~IsRecording
  <2> DEFINE b == [by |-> "start", floor |-> op[c].floor, had |-> 0]
  <2>1. begun' = Append(begun, b) /\ recording'.all = <<>>
    BY <1>3 DEF StartCall, StartSession
  <2>2. begun'[recording'.generation] = b
    <3>1. recording'.generation = generations + 1
      BY <1>3 DEF StartCall, StartSession
    <3>2. begun \in Seq(Begun) /\ Len(begun) = generations
      BY DEF Inv, TypeInv
    <3> QED BY <2>1, <3>1, <3>2
  <2>3. NothingOlder'
    <3>1. b.had = 0
      OBVIOUS
    <3> HIDE DEF b
    <3> QED BY <2>1, <2>2, <3>1 DEF NothingOlder
  <2>4. TypeInv'
    BY StartCallStep DEF Inv
  <2> HIDE DEF b
  <2> QED BY <1>1, <2>1, <2>3, <2>4, BegunOld
<1> QED BY <1>2, <1>3

(* BeginImport: the active recording is another. *)
LEMMA BeginImportOld ==
  ASSUME Inv, OldInv, NEW c \in Clients, BeginImport(c)
  PROVE  OldInv'
<1>1. PICK b : begun' = Append(begun, b)
  BY DEF BeginImport
<1>2. UNCHANGED <<recording, page, log, epoch, mark, read>>
  BY DEF BeginImport, pageVars, markVars
<1>3. NothingOlder'
  <2>1. ASSUME recording # None
        PROVE  begun'[recording.generation] = begun[recording.generation]
    <3>1. begun \in Seq(Begun) /\ recording.generation \in 1..Len(begun)
      BY <2>1 DEF Inv, TypeInv, RecInv
    <3> QED BY <1>1, <3>1
  <2> QED BY <1>2, <2>1 DEF OldInv, NothingOlder, IsRecording
<1>4. TypeInv'
  BY BeginImportStep DEF Inv
<1> QED BY <1>1, <1>2, <1>3, <1>4, BegunOld

(* ImportCall: all it holds was imported. *)
LEMMA ImportCallOld ==
  ASSUME Inv, OldInv, NEW c \in Clients, ImportCall(c)
  PROVE  OldInv'
<1>1. UNCHANGED <<page, log, epoch, mark, read, begun>> /\ op[c].pc = "import"
  BY DEF ImportCall, pageVars, markVars
<1>2. NothingOlder'
  <2>1. CASE IsRecording
    BY <1>1, <2>1, SameOlder DEF ImportCall, recVars
  <2>2. CASE ~IsRecording
    <3>1. PICK a, g : a = op[c].session.all /\ g = op[c].gen
      OBVIOUS
    <3>2. recording' = Imported(op[c].session, op[c].gen)
      BY <2>2 DEF ImportCall, ImportIfIdle
    <3>3. recording'.all = a /\ recording'.generation = g
      BY <3>1, <3>2 DEF Imported
    <3>4. begun[g].had = Len(a) /\ a \in Seq(Nat)
      BY <1>1, <3>1 DEF Inv, OpInv, OpOk
    <3> QED BY <1>1, <3>3, <3>4 DEF NothingOlder
  <2> QED BY <2>1, <2>2
<1> QED BY <1>1, <1>2, QuietStep

(* ResetCall: without marks nothing lies behind one. *)
LEMMA ResetCallOld ==
  ASSUME Inv, OldInv, NEW c \in Clients, ResetCall(c)
  PROVE  OldInv'
<1>1. UNCHANGED <<recording, page, log, read, begun>> /\ Reset(op[c].floor, op[c].gen)
  BY DEF ResetCall, recVars, pageVars
<1>2. \A w \in Windows : \/ mark'[w] = mark[w] /\ epoch' = epoch
                         \/ MarkOld(log[w], mark'[w], epoch', begun)
  BY <1>1 DEF Reset, MarkOld
<1>3. PageOldInv'
  BY <1>1 DEF OldInv, PageOldInv
<1> QED BY <1>1, <1>2, <1>3, SameOlder, OldStep
-----------------------------------------------------------------------------
(* Before any event was captured, and any recording begun.                 *)
LEMMA OldInit == Init => OldInv
<1> SUFFICES ASSUME Init PROVE OldInv
  OBVIOUS
<1> USE DEF Init, RecInit
<1>1. Len(<< <<>> >>) = 1
  OBVIOUS
<1>2. PageOldInv
  BY <1>1 DEF PageOldInv
<1>3. ReadOldInv
  BY DEF ReadOldInv, ReadOld, NoRead, Answered
<1>4. MarkOldInv /\ NothingOlder
  BY DEF MarkOldInv, MarkOld, NothingOlder, IsRecording
<1> QED BY <1>2, <1>3, <1>4 DEF OldInv

(* Inductive as long as no page is shown again after it was left. *)
LEMMA OldNext == ~BfCache /\ Inv /\ OldInv /\ [Next]_vars => OldInv'
<1> SUFFICES ASSUME ~BfCache, Inv, OldInv, [Next]_vars PROVE OldInv'
  OBVIOUS
<1>1. CASE Pages
  <2>1. \A w \in Windows : ~Back(w)
    BY DEF Back
  <2> QED BY <1>1, <2>1, CaptureOld, LoadOld, CloseOld DEF Pages
<1>2. CASE Loop
  BY <1>2, LoopOld
<1>3. CASE \E r \in Readers : Reading(r)
  BY <1>3, ReadingOld
<1>4. CASE \E c \in Clients : Request(c)
  BY <1>4, EndsOld, BeginImportOld DEF Request
<1>5. CASE \E c \in Clients : Calling(c)
  BY <1>5, FlushOld, EndsOld, StartCallOld, ImportCallOld, ResetCallOld DEF Calling
<1>6. CASE UNCHANGED vars
  <2>1. UNCHANGED <<recording, page, log, begun, mark, epoch, read>>
    BY <1>6 DEF vars, recVars, pageVars, markVars, callVars
  <2> QED BY <2>1, SameOlder, QuietStep
<1> QED BY <1>1, <1>2, <1>3, <1>4, <1>5, <1>6 DEF Next

(* A sound mark covers only what the recording holds. *)
LEMMA InvSkipsNothing == Inv => NothingSkipped
<1> SUFFICES ASSUME Inv, IsRecording, recording.generation = epoch,
                    NEW w \in Windows, mark[w] # NoMark, NEW k \in 1..mark[w][2],
                    log[w][mark[w][1]][k] > begun[epoch].floor
             PROVE  Took(log[w][mark[w][1]][k])
  BY DEF NothingSkipped
<1>1. MarkOk(log[w], mark[w], epoch, begun, recording) /\ For(recording, epoch)
  BY DEF Inv, MarkInv, For, IsRecording
<1>2. Covers(log[w], mark[w], begun[epoch].floor, Held(recording))
  BY <1>1 DEF MarkOk
<1>3. log[w][mark[w][1]][k] \in Held(recording)
  BY <1>2 DEF Covers
<1> QED BY <1>3 DEF Held, Took

(* A started recording whose reset is not due has been reset to. *)
LEMMA InvDrains == Inv => StartedIsDrained
BY DEF Inv, ResetInv, StartedIsDrained, Drained, IsRecording

(* For every number of windows and clients, with and without a back/forward
   cache: the loop's and the flushes' reads, failing, retried, timed out,
   racing one another or straddling a stop and a start, never pass over an
   event of the recording they are for, and a started recording is drained
   however the handlers of several starts and stops overtook one another.  *)
THEOREM NothingIsSkippedAlways == Spec => [](StartedIsDrained /\ NothingSkipped)
<1>1. Init => Inv
  BY InvInit
<1>2. Inv /\ [Next]_vars => Inv'
  BY InvStep
<1>3. Inv => StartedIsDrained /\ NothingSkipped
  BY InvSkipsNothing, InvDrains
<1> QED BY <1>1, <1>2, <1>3, PTL DEF Spec

(* The same, and that nothing captured before a recording began is taken into
   it, as long as no window shows a page again that it left: the entries of
   such a page may be older than the recording whose mark lies elsewhere.  *)
THEOREM RecordingsAreFaithfulAlways ==
  ASSUME ~BfCache
  PROVE  Spec => []RecordingsAreFaithful
<1>1. Init => Inv /\ OldInv
  BY InvInit, OldInit
<1>2. Inv /\ OldInv /\ [Next]_vars => Inv' /\ OldInv'
  BY InvStep, OldNext
<1>3. Inv /\ OldInv => RecordingsAreFaithful
  BY InvSkipsNothing, InvDrains DEF RecordingsAreFaithful, OldInv
<1> QED BY <1>1, <1>2, <1>3, PTL DEF Spec
-----------------------------------------------------------------------------
(* What a recording holds is where its index says.                         *)

Entry == [index : Nat, event : Nat]
Marker == [id : Nat, index : Nat, at : Nat]

(* A session holds the newest events of everything it ever took in, each with
   its place there, and its checkpoints lie within.                        *)
InPlace(s) ==
    /\ s.all \in Seq(Nat)
    /\ s.events \in Seq(Entry)
    /\ Len(s.events) = IF Len(s.all) > MaxEvents THEN MaxEvents ELSE Len(s.all)
    /\ \A k \in 1..Len(s.events) :
         /\ s.events[k].index = Len(s.all) - (Len(s.events) - k) - 1
         /\ s.events[k].event = s.all[s.events[k].index + 1]
    /\ s.checkpoints \in Seq(Marker)
    /\ Len(s.checkpoints) <= MaxCheckpoints
    /\ \A k \in 1..Len(s.checkpoints) : s.checkpoints[k].index <= Len(s.all)

Recordings == [generation : Nat, counter : Nat, events : Seq(Entry),
               checkpoints : Seq(Marker), all : Seq(Nat)]

ActiveOk(rec) == rec \in Recordings /\ InPlace(rec) /\ rec.counter = Len(rec.all)

(* The active recording, the last session, and the sessions that imports hold
   on to while other clients start, stop and record.                       *)
PlaceInv ==
    /\ ops \in Nat
    /\ recording # None => ActiveOk(recording)
    /\ lastSession # None => InPlace(lastSession)
    /\ \A c \in Clients : op[c].pc = "import" => InPlace(op[c].session)

(* Places are numbers. *)
LEMMA PlaceIsNumber ==
  ASSUME NEW s \in Seq(Entry), NEW k \in 1..Len(s)
  PROVE  s[k].index \in Nat
<1>1. s[k] \in Entry
  BY ElementOfSeq
<1> QED BY <1>1 DEF Entry

(* A ring keeps the newest entries, in order. *)
LEMMA NewestIs ==
  ASSUME NEW S, NEW s \in Seq(S), NEW n \in Nat \ {0}
  PROVE  /\ Newest(s, n) \in Seq(S)
         /\ Len(Newest(s, n)) = IF Len(s) > n THEN n ELSE Len(s)
         /\ \A k \in 1..Len(Newest(s, n)) :
              Newest(s, n)[k] = s[k + (Len(s) - Len(Newest(s, n)))]
<1>1. CASE Len(s) > n
  <2>1. PICK t : t = SubSeq(s, Len(s) - n + 1, Len(s))
    OBVIOUS
  <2>2. /\ Len(t) = n /\ t \in Seq(S)
        /\ \A k \in 1..n : t[k] = s[k + (Len(s) - n)]
    BY <1>1, <2>1
  <2> QED BY <1>1, <2>1, <2>2 DEF Newest
<1>2. CASE ~(Len(s) > n)
  BY <1>2 DEF Newest
<1> QED BY <1>1, <1>2

(* The entry that joins the ring takes the place behind the last one, and the
   ring keeps its end whatever it evicts at the other.                     *)
LEMMA AppendedActive ==
  ASSUME NEW rec, ActiveOk(rec), NEW e \in Nat
  PROVE  ActiveOk(Appended(rec, e))
<1> DEFINE x == [index |-> rec.counter, event |-> e]
           ev == Append(rec.events, x)
           ev2 == Newest(ev, MaxEvents)
           all2 == Append(rec.all, e)
<1>1. /\ rec \in Recordings /\ rec.counter = Len(rec.all) /\ rec.all \in Seq(Nat)
      /\ rec.events \in Seq(Entry) /\ Len(rec.all) \in Nat /\ Len(rec.events) \in Nat
      /\ x \in Entry
  BY DEF ActiveOk, InPlace, Recordings, Entry
<1>2. /\ ev \in Seq(Entry) /\ Len(ev) = Len(rec.events) + 1
      /\ ev[Len(ev)] = x
      /\ \A k \in 1..Len(rec.events) : ev[k] = rec.events[k]
  BY <1>1
<1>3. /\ all2 \in Seq(Nat) /\ Len(all2) = Len(rec.all) + 1
      /\ all2[Len(all2)] = e
      /\ \A k \in 1..Len(rec.all) : all2[k] = rec.all[k]
  BY <1>1
<1>4. /\ ev2 \in Seq(Entry)
      /\ Len(ev2) = IF Len(ev) > MaxEvents THEN MaxEvents ELSE Len(ev)
      /\ \A k \in 1..Len(ev2) : ev2[k] = ev[k + (Len(ev) - Len(ev2))]
  BY <1>2, NewestIs, RecorderAssumption
<1>5. Appended(rec, e) = [rec EXCEPT !.events = ev2, !.counter = rec.counter + 1, !.all = all2]
  BY DEF Appended
<1>a. x.index = Len(rec.all) /\ x.event = e
  BY <1>1
<1>b. Len(ev) \in Nat /\ Len(all2) \in Nat /\ Len(ev2) \in Nat
  BY <1>1, <1>2, <1>3, <1>4, RecorderAssumption
<1> HIDE DEF x, ev, all2, ev2
<1>6. Len(ev2) = IF Len(all2) > MaxEvents THEN MaxEvents ELSE Len(all2)
  BY <1>1, <1>2, <1>3, <1>4, RecorderAssumption DEF ActiveOk, InPlace
<1>7. ASSUME NEW k \in 1..Len(ev)
      PROVE  /\ ev[k].index = Len(all2) - (Len(ev) - k) - 1
             /\ ev[k].index \in 0..Len(rec.all)
             /\ ev[k].event = all2[ev[k].index + 1]
  <2>1. CASE k = Len(ev)
    BY <2>1, <1>1, <1>2, <1>3, <1>a, <1>b
  <2>2. CASE k # Len(ev)
    <3>1. k \in 1..Len(rec.events) /\ ev[k] = rec.events[k]
      BY <2>2, <1>1, <1>2, <1>b
    <3>2. PICK p \in Nat : p = rec.events[k].index
      BY <1>1, <3>1, PlaceIsNumber
    <3>3. p = Len(rec.all) - (Len(rec.events) - k) - 1 /\ rec.events[k].event = rec.all[p + 1]
      BY <3>1, <3>2 DEF ActiveOk, InPlace
    <3>4. Len(rec.events) <= Len(rec.all)
      BY <1>1, RecorderAssumption DEF ActiveOk, InPlace
    <3>5. p + 1 \in 1..Len(rec.all) /\ p = Len(all2) - (Len(ev) - k) - 1
      <4>1. PICK n \in Nat, m \in Nat : n = Len(rec.all) /\ m = Len(rec.events)
        BY <1>1
      <4>2. k \in 1..m /\ m <= n /\ p = n - (m - k) - 1
        BY <3>1, <3>3, <3>4, <4>1
      <4>3. Len(all2) = n + 1 /\ Len(ev) = m + 1
        BY <1>2, <1>3, <4>1
      <4>4. p + 1 \in 1..n /\ p = (n + 1) - ((m + 1) - k) - 1
        BY <4>2
      <4> QED BY <4>1, <4>3, <4>4
    <3>6. all2[p + 1] = rec.all[p + 1]
      BY <1>3, <3>5
    <3>7. p \in 0..Len(rec.all)
      BY <1>1, <3>5
    <3> QED BY <3>1, <3>2, <3>3, <3>5, <3>6, <3>7
  <2> QED BY <2>1, <2>2
<1>8. ASSUME NEW k \in 1..Len(ev2)
      PROVE  /\ ev2[k].index = Len(all2) - (Len(ev2) - k) - 1
             /\ ev2[k].event = all2[ev2[k].index + 1]
  <2>1. Len(ev2) \in Nat /\ Len(ev2) <= Len(ev) /\ Len(ev) \in Nat
    BY <1>1, <1>2, <1>4, RecorderAssumption
  <2>2. k + (Len(ev) - Len(ev2)) \in 1..Len(ev)
    BY <2>1
  <2>3. ev2[k] = ev[k + (Len(ev) - Len(ev2))]
    BY <1>4
  <2>4. /\ ev2[k].index = Len(all2) - (Len(ev) - (k + (Len(ev) - Len(ev2)))) - 1
        /\ ev2[k].event = all2[ev2[k].index + 1]
    BY <1>7, <2>2, <2>3
  <2> QED BY <2>1, <2>4, <1>b
<1>9. PICK r2 : r2 = Appended(rec, e)
  OBVIOUS
<1>10. /\ r2.counter = rec.counter + 1 /\ r2.all = all2 /\ r2.events = ev2
       /\ r2.checkpoints = rec.checkpoints
       /\ r2 \in Recordings
  <2>1. rec.counter + 1 \in Nat
    BY <1>1 DEF Recordings
  <2> QED BY <2>1, <1>1, <1>3, <1>4, <1>5, <1>9 DEF Recordings
<1>13. r2.counter = Len(r2.all)
  BY <1>1, <1>3, <1>10
<1>11. \A k \in 1..Len(rec.checkpoints) : rec.checkpoints[k].index <= Len(all2)
  <2> SUFFICES ASSUME NEW k \in 1..Len(rec.checkpoints) PROVE rec.checkpoints[k].index <= Len(all2)
    OBVIOUS
  <2>1. rec.checkpoints[k] \in Marker /\ rec.checkpoints[k].index <= Len(rec.all)
    BY ElementOfSeq DEF ActiveOk, InPlace
  <2> QED BY <2>1, <1>1, <1>3 DEF Marker
<1>12. InPlace(r2)
  BY <1>3, <1>4, <1>6, <1>8, <1>10, <1>11 DEF InPlace, ActiveOk
<1> QED BY <1>9, <1>10, <1>12, <1>13 DEF ActiveOk

(* A checkpoint points behind the last event. *)
LEMMA CheckpointActive ==
  ASSUME ops \in Nat, ActiveOk(recording), Checkpoint(ops)
  PROVE  ActiveOk(recording')
<1> DEFINE x == [id |-> ops, index |-> recording.counter, at |-> Len(recording.all)]
           cps == Append(recording.checkpoints, x)
           cps2 == Newest(cps, MaxCheckpoints)
<1>1. /\ recording \in Recordings /\ recording.counter = Len(recording.all)
      /\ Len(recording.all) \in Nat /\ recording.checkpoints \in Seq(Marker)
      /\ x \in Marker
  BY DEF ActiveOk, InPlace, Recordings, Marker
<1>2. /\ cps \in Seq(Marker) /\ Len(cps) = Len(recording.checkpoints) + 1
      /\ Len(cps) \in Nat
      /\ \A k \in 1..Len(cps) : cps[k].index <= Len(recording.all)
  BY <1>1 DEF ActiveOk, InPlace
<1>3. /\ cps2 \in Seq(Marker)
      /\ Len(cps2) = IF Len(cps) > MaxCheckpoints THEN MaxCheckpoints ELSE Len(cps)
      /\ \A k \in 1..Len(cps2) : cps2[k] = cps[k + (Len(cps) - Len(cps2))]
  BY <1>2, NewestIs, RecorderAssumption
<1>4. recording' = [recording EXCEPT !.checkpoints = cps2]
  BY DEF Checkpoint
<1> HIDE DEF cps, cps2
<1>5. /\ Len(cps2) <= MaxCheckpoints
      /\ \A k \in 1..Len(cps2) : cps2[k].index <= Len(recording.all)
  <2>1. Len(cps2) \in Nat /\ Len(cps2) <= Len(cps) /\ Len(cps2) <= MaxCheckpoints
    BY <1>2, <1>3, RecorderAssumption
  <2>2. ASSUME NEW k \in 1..Len(cps2) PROVE cps2[k].index <= Len(recording.all)
    <3>1. k + (Len(cps) - Len(cps2)) \in 1..Len(cps)
      BY <1>2, <2>1
    <3> QED BY <1>2, <1>3, <3>1
  <2> QED BY <2>1, <2>2
<1>6. /\ recording' \in Recordings
      /\ recording'.counter = recording.counter /\ recording'.all = recording.all
      /\ recording'.events = recording.events /\ recording'.checkpoints = cps2
  BY <1>1, <1>3, <1>4 DEF Recordings
<1> QED BY <1>1, <1>3, <1>5, <1>6 DEF ActiveOk, InPlace

(* An imported recording goes on where the session ended: its counter, the
   largest index in use, is the number of events ever taken in.            *)
LEMMA ImportedActive ==
  ASSUME NEW s, InPlace(s), NEW g \in Nat
  PROVE  ActiveOk(Imported(s, g))
<1> DEFINE ev == Newest(s.events, MaxEvents)
           cps == Newest(s.checkpoints, MaxCheckpoints)
           used == {0} \cup {ev[k].index + 1 : k \in DOMAIN ev}
                       \cup {cps[k].index : k \in DOMAIN cps}
           n == Len(s.all)
<1>1. /\ n \in Nat /\ Len(s.events) <= MaxEvents /\ Len(s.events) \in Nat
      /\ s.events \in Seq(Entry) /\ s.checkpoints \in Seq(Marker) /\ s.all \in Seq(Nat)
      /\ Len(s.checkpoints) <= MaxCheckpoints /\ Len(s.checkpoints) \in Nat
  BY RecorderAssumption DEF InPlace
<1>2. ev = s.events /\ cps = s.checkpoints
  BY <1>1, RecorderAssumption DEF Newest
<1>3. ASSUME NEW m \in used PROVE m \in Nat /\ m <= n
  <2>1. CASE m = 0
    BY <1>1, <2>1
  <2>2. ASSUME NEW k \in 1..Len(s.events), m = s.events[k].index + 1
        PROVE  m \in Nat /\ m <= n
    <3>1. PICK p \in Nat : p = s.events[k].index
      BY <1>1, PlaceIsNumber
    <3>2. p = n - (Len(s.events) - k) - 1
      BY <3>1 DEF InPlace
    <3> HIDE DEF n
    <3> QED BY <1>1, <2>2, <3>1, <3>2
  <2>3. ASSUME NEW k \in 1..Len(s.checkpoints), m = s.checkpoints[k].index
        PROVE  m \in Nat /\ m <= n
    <3>1. s.checkpoints[k] \in Marker /\ s.checkpoints[k].index <= n
      BY <1>1, ElementOfSeq DEF InPlace
    <3> QED BY <2>3, <3>1 DEF Marker
  <2> QED BY <1>1, <1>2, <2>1, <2>2, <2>3
<1>4. n \in used
  <2>1. CASE n = 0
    BY <2>1
  <2>2. CASE n # 0
    <3>1. Len(s.events) \in 1..Len(s.events)
      BY <1>1, <2>2, RecorderAssumption DEF InPlace
    <3>2. s.events[Len(s.events)].index + 1 = n
      <4>1. PICK p \in Nat : p = s.events[Len(s.events)].index
        BY <1>1, <3>1, PlaceIsNumber
      <4>2. p = n - (Len(s.events) - Len(s.events)) - 1
        BY <3>1, <4>1 DEF InPlace
      <4> HIDE DEF n
      <4> QED BY <1>1, <4>1, <4>2
    <3>3. DOMAIN ev = 1..Len(s.events)
      BY <1>1, <1>2
    <3> QED BY <1>2, <3>1, <3>2, <3>3
  <2> QED BY <2>1, <2>2
<1> HIDE DEF used, n
<1>5. (CHOOSE i \in used : \A m \in used : m <= i) = n
  <2>1. PICK i : i = (CHOOSE j \in used : \A m \in used : m <= j)
    OBVIOUS
  <2>2. i \in used /\ \A m \in used : m <= i
    BY <1>3, <1>4, <2>1
  <2>3. i \in Nat /\ i <= n /\ n <= i
    BY <1>3, <1>4, <2>2
  <2> QED BY <1>1, <2>1, <2>3
<1> HIDE DEF ev, cps
<1>6. Imported(s, g) = [generation |-> g, events |-> s.events, checkpoints |-> s.checkpoints,
                        counter |-> n, all |-> s.all]
  <2>1. Imported(s, g) = [generation |-> g, events |-> ev, checkpoints |-> cps,
          counter |-> CHOOSE i \in used : \A m \in used : m <= i, all |-> s.all]
    BY DEF Imported, ev, cps, used
  <2> QED BY <2>1, <1>2, <1>5
<1>7. n = Len(s.all)
  BY DEF n
<1>8. Imported(s, g) \in Recordings /\ Imported(s, g).counter = Len(Imported(s, g).all)
  BY <1>1, <1>6, <1>7 DEF Recordings
<1>9. InPlace(Imported(s, g))
  <2>1. PICK r2 : r2 = Imported(s, g)
    OBVIOUS
  <2>2. r2.events = s.events /\ r2.checkpoints = s.checkpoints /\ r2.all = s.all
    BY <1>6, <2>1
  <2>3. InPlace(r2)
    BY <2>2 DEF InPlace
  <2> QED BY <2>1, <2>3
<1> QED BY <1>8, <1>9 DEF ActiveOk

(* Stopping and exporting keep the places. *)
LEMMA SessionInPlace ==
  ASSUME NEW rec, ActiveOk(rec)
  PROVE  InPlace(SessionOf(rec))
<1>1. PICK s : s = SessionOf(rec)
  OBVIOUS
<1>2. s.events = rec.events /\ s.checkpoints = rec.checkpoints /\ s.all = rec.all
  BY <1>1 DEF SessionOf
<1>3. InPlace(s)
  BY <1>2 DEF ActiveOk, InPlace
<1> QED BY <1>1, <1>3

(* Calls in progress that hold a session to import hold it unchanged. *)
Sessions == \A c \in Clients : op'[c] = op[c] \/ op'[c].pc # "import"

(* A step that leaves the recorder alone and begins no import keeps them. *)
LEMMA PlacesKept ==
  ASSUME PlaceInv, UNCHANGED <<recording, lastSession>>, ops' \in Nat, Sessions
  PROVE  PlaceInv'
BY DEF PlaceInv, Sessions

(* A step of a call that does not begin an import. *)
LEMMA CallKeeps ==
  ASSUME Inv, PlaceInv, NEW c \in Clients, NEW x, op' = [op EXCEPT ![c] = x], x.pc # "import"
  PROVE  Sessions
<1>1. op'[c] = x /\ \A d \in Clients : d # c => op'[d] = op[d]
  BY DEF Inv, TypeInv
<1> QED BY <1>1 DEF Sessions

(* Reads change of a call only what it still has to read and what it missed. *)
LEMMA EndedKeeps ==
  ASSUME Inv, NEW r \in Readers, NEW ok, read[r] # NoRead, Ended(r, ok)
  PROVE  Sessions
<1>1. op = [c \in Clients |-> op[c]] /\ \A c \in Clients : OpOk(op[c], now, begun)
      /\ (r \in Clients => op[r].pc = "flushing")
  BY DEF Inv, TypeInv, OpInv
<1>2. \A c \in Clients : c # r => op'[c] = op[c]
  BY <1>1 DEF Ended
<1>3. r \in Clients => op'[r].pc # "import"
  <2> HAVE r \in Clients
  <2>1. op[r].pc = "flushing" /\ "pc" \in DOMAIN op[r]
    BY <1>1 DEF OpOk
  <2>2. \E t, m : op'[r] = [[op[r] EXCEPT !.todo = t] EXCEPT !.missed = m]
    BY <1>1 DEF Ended
  <2> QED BY <2>1, <2>2
<1> QED BY <1>2, <1>3 DEF Sessions

(* Reads change the recorder only by taking events in. *)
LEMMA ReadingPlaces ==
  ASSUME Inv, PlaceInv, NEW r \in Readers, Reading(r)
  PROVE  PlaceInv'
<1>0. ops \in Nat
  BY DEF PlaceInv
<1>1. CASE LockFor(r) \/ PageReplies(r)
  BY <1>0, <1>1, PlacesKept DEF LockFor, PageReplies, recVars, callVars, Sessions
<1>2. CASE Pin(r) \/ Ask(r) \/ ReadFails(r) \/ MoveMark(r)
  <2>1. read[r] # NoRead
    <3>1. read[r].pc \in {"want", "pinned", "asked", "unheard", "replied", "recording"}
      BY <1>2 DEF Pin, Ask, ReadFails, MoveMark
    <3> QED BY <3>1 DEF NoRead
  <2>2. UNCHANGED <<recording, lastSession, ops>>
    BY <1>2 DEF Pin, Ask, ReadFails, MoveMark, recVars
  <2>3. op' = op \/ \E ok : Ended(r, ok)
    BY <1>2 DEF Pin, Ask, ReadFails, MoveMark
  <2>4. Sessions
    BY <2>1, <2>3, EndedKeeps DEF Sessions
  <2> QED BY <1>0, <2>2, <2>4, PlacesKept
<1>3. CASE RecordOne(r)
  <2>1. read[r].pc \in Answered /\ op' = op /\ ops' = ops
    BY <1>3 DEF RecordOne, callVars, Answered
  <2>2. AnsweredOk(read[r], log, begun, recording)
    BY <2>1 DEF Inv, ReadInv, ReadOk
  <2>3. PICK e \in read[r].reply.events : RecordEventIf(read[r].gen, e)
    BY <1>3 DEF RecordOne
  <2>4. e \in Nat
    BY <2>2, <2>3 DEF AnsweredOk
  <2>5. recording' # None => ActiveOk(recording')
    BY <2>3, <2>4, AppendedActive DEF PlaceInv, RecordEventIf, IsRecording
  <2> QED BY <2>1, <2>3, <2>5 DEF PlaceInv, RecordEventIf
<1> QED BY <1>1, <1>2, <1>3 DEF Reading

(* An import begins with what was exported, the active recording or the last. *)
LEMMA RequestPlaces ==
  ASSUME Inv, PlaceInv, NEW c \in Clients, Request(c)
  PROVE  PlaceInv'
<1>0. ops' \in Nat
  BY DEF PlaceInv, Request, BeginStart, BeginImport, BeginFlush, Begin
<1>1. CASE BeginStart(c)
  <2> DEFINE x == [pc |-> "start", floor |-> now]
  <2>1. UNCHANGED <<recording, lastSession>> /\ op' = [op EXCEPT ![c] = x] /\ x.pc # "import"
    BY <1>1 DEF BeginStart, recVars
  <2> HIDE DEF x
  <2> QED BY <1>0, <2>1, CallKeeps, PlacesKept
<1>2. ASSUME NEW kind, BeginFlush(c, kind)
      PROVE  PlaceInv'
  <2>1. UNCHANGED <<recording, lastSession>>
    BY <1>2 DEF BeginFlush, recVars
  <2>2. \E x : op' = [op EXCEPT ![c] = x] /\ x.pc # "import"
    <3>1. PICK todo : op' = [op EXCEPT ![c] =
                [pc |-> "flushing", kind |-> kind,
                 todo |-> IF IsRecording THEN todo ELSE {},
                 missed |-> IF IsRecording /\ todo = {} THEN Windows ELSE {},
                 gen |-> IF IsRecording /\ epoch = recording.generation THEN epoch ELSE 0,
                 from |-> page, upto |-> now]]
      BY <1>2, Zenon DEF BeginFlush
    <3> DEFINE x == [pc |-> "flushing", kind |-> kind,
                 todo |-> IF IsRecording THEN todo ELSE {},
                 missed |-> IF IsRecording /\ todo = {} THEN Windows ELSE {},
                 gen |-> IF IsRecording /\ epoch = recording.generation THEN epoch ELSE 0,
                 from |-> page, upto |-> now]
    <3>2. x.pc # "import"
      OBVIOUS
    <3> HIDE DEF x
    <3>3. op' = [op EXCEPT ![c] = x]
      BY <3>1 DEF x
    <3> QED BY <3>2, <3>3
  <2> QED BY <1>0, <2>1, <2>2, CallKeeps, PlacesKept
<1>3. CASE BeginImport(c)
  <2> DEFINE x == [pc |-> "import", floor |-> now, gen |-> generations + 1, session |-> Source]
  <2>1. op' = [op EXCEPT ![c] = x] /\ Source # None /\ UNCHANGED <<recording, lastSession>>
    BY <1>3 DEF BeginImport
  <2>2. InPlace(Source)
    <3>1. CASE IsRecording
      <4>1. Source = SessionOf(recording) /\ ActiveOk(recording)
        BY <3>1 DEF Source, IsRecording, PlaceInv
      <4> QED BY <4>1, SessionInPlace
    <3>2. CASE ~IsRecording
      BY <2>1, <3>2 DEF Source, PlaceInv
    <3> QED BY <3>1, <3>2
  <2>3. op'[c].session = Source /\ \A d \in Clients : d # c => op'[d] = op[d]
    BY <2>1 DEF Inv, TypeInv
  <2> QED BY <1>0, <2>1, <2>2, <2>3 DEF PlaceInv
<1> QED BY <1>1, <1>2, <1>3 DEF Request

(* Start, import, stop and checkpoint keep the places; the others do not matter. *)
LEMMA CallingPlaces ==
  ASSUME Inv, PlaceInv, NEW c \in Clients, Calling(c)
  PROVE  PlaceInv'
<1>0. ops' = ops /\ ops \in Nat
  BY DEF PlaceInv, Calling, StartCall, ImportCall, ResetCall, FlushNext, FlushTimeout,
         StopCall, CheckpointCall, CountCall, FlushCall, callVars
<1>n. NoOp.pc # "import"
  BY DEF NoOp
<1>1. CASE StartCall(c)
  <2>1. CASE IsRecording
    BY <1>0, <1>1, <1>n, <2>1, CallKeeps, PlacesKept DEF StartCall, recVars
  <2>2. CASE ~IsRecording
    <3> DEFINE x == [pc |-> "reset", floor |-> op[c].floor, gen |-> generations + 1]
    <3>1. StartSession /\ op' = [op EXCEPT ![c] = x]
      BY <1>1, <2>2 DEF StartCall
    <3>2. x.pc # "import"
      OBVIOUS
    <3> HIDE DEF x
    <3>3. Sessions
      BY <3>1, <3>2, CallKeeps
    <3>4. ActiveOk(recording') /\ lastSession' = lastSession
      <4>1. generations + 1 \in Nat
        BY DEF Inv, TypeInv
      <4>2. <<>> \in Seq(Nat) /\ <<>> \in Seq(Entry) /\ <<>> \in Seq(Marker) /\ Len(<<>>) = 0
        OBVIOUS
      <4>3. PICK r2 : r2 = recording'
        OBVIOUS
      <4>4. r2 = [generation |-> generations + 1, counter |-> 0, events |-> <<>>,
                  checkpoints |-> <<>>, all |-> <<>>] /\ lastSession' = lastSession
        BY <3>1, <4>3 DEF StartSession
      <4>5. /\ r2 \in Recordings /\ r2.counter = 0 /\ r2.events = <<>>
            /\ r2.checkpoints = <<>> /\ r2.all = <<>>
        BY <4>1, <4>2, <4>4 DEF Recordings
      <4>6. InPlace(r2)
        BY <4>2, <4>5, RecorderAssumption DEF InPlace
      <4> QED BY <4>2, <4>3, <4>4, <4>5, <4>6 DEF ActiveOk
    <3> QED BY <1>0, <3>3, <3>4 DEF PlaceInv, Sessions
  <2> QED BY <2>1, <2>2
<1>2. CASE ImportCall(c)
  <2>1. CASE IsRecording
    BY <1>0, <1>2, <1>n, <2>1, CallKeeps, PlacesKept DEF ImportCall, recVars
  <2>2. CASE ~IsRecording
    <3> DEFINE x == [pc |-> "reset", floor |-> op[c].floor, gen |-> op[c].gen]
    <3>1. ImportIfIdle(op[c].session, op[c].gen) /\ op' = [op EXCEPT ![c] = x]
          /\ op[c].pc = "import"
      BY <1>2, <2>2 DEF ImportCall
    <3>2. x.pc # "import"
      OBVIOUS
    <3> HIDE DEF x
    <3>3. Sessions
      BY <3>1, <3>2, CallKeeps
    <3>4. op[c].gen \in Nat
      <4>1. op[c].gen \in 1..Len(begun) /\ Len(begun) \in Nat
        BY <3>1 DEF Inv, OpInv, OpOk, TypeInv
      <4> QED BY <4>1
    <3>5. ActiveOk(recording') /\ lastSession' = lastSession
      BY <3>1, <3>4, ImportedActive DEF ImportIfIdle, PlaceInv
    <3> QED BY <1>0, <3>3, <3>5 DEF PlaceInv, Sessions
  <2> QED BY <2>1, <2>2
<1>3. CASE ResetCall(c) \/ CountCall(c) \/ FlushCall(c)
  BY <1>0, <1>3, <1>n, CallKeeps, PlacesKept DEF ResetCall, CountCall, FlushCall, recVars
<1>4. CASE FlushNext(c)
  BY <1>0, <1>4, PlacesKept DEF FlushNext, recVars, callVars, Sessions
<1>5. CASE FlushTimeout(c)
  <2>1. /\ op[c].pc = "flushing" /\ op = [d \in Clients |-> op[d]] /\ OpOk(op[c], now, begun)
        /\ op' = [op EXCEPT ![c].todo = {}, ![c].missed = @ \cup op[c].todo]
        /\ UNCHANGED <<recording, lastSession>>
    BY <1>5 DEF FlushTimeout, Inv, TypeInv, OpInv, recVars
  <2>2. /\ \A d \in Clients : d # c => op'[d] = op[d]
        /\ \E t, m : op'[c] = [[op[c] EXCEPT !.todo = t] EXCEPT !.missed = m]
    BY <2>1
  <2>3. "pc" \in DOMAIN op[c]
    BY <2>1 DEF OpOk
  <2>4. op'[c].pc # "import"
    BY <2>1, <2>2, <2>3
  <2> QED BY <1>0, <2>1, <2>2, <2>4, PlacesKept DEF Sessions
<1>6. CASE StopCall(c)
  <2>1. Stop /\ op' = [op EXCEPT ![c] = NoOp]
    BY <1>6 DEF StopCall
  <2>2. Sessions
    BY <1>n, <2>1, CallKeeps
  <2>3. CASE IsRecording
    <3>1. recording' = None /\ lastSession' = SessionOf(recording) /\ ActiveOk(recording)
      BY <2>1, <2>3 DEF Stop, Finish, IsRecording, PlaceInv
    <3>2. InPlace(lastSession')
      BY <3>1, SessionInPlace
    <3> QED BY <1>0, <2>2, <3>1, <3>2 DEF PlaceInv, Sessions
  <2>4. CASE ~IsRecording
    BY <1>0, <2>1, <2>2, <2>4, PlacesKept DEF Stop, recVars
  <2> QED BY <2>3, <2>4
<1>7. CASE CheckpointCall(c)
  <2>1. CASE IsRecording
    <3>1. Checkpoint(ops) /\ op' = [op EXCEPT ![c] = [pc |-> "count"]]
      BY <1>7, <2>1 DEF CheckpointCall
    <3>2. ActiveOk(recording') /\ lastSession' = lastSession
      BY <1>0, <2>1, <3>1, CheckpointActive DEF PlaceInv, IsRecording, Checkpoint
    <3>3. Sessions
      <4> DEFINE x == [pc |-> "count"]
      <4>1. op' = [op EXCEPT ![c] = x] /\ x.pc # "import"
        BY <3>1
      <4> HIDE DEF x
      <4> QED BY <4>1, CallKeeps
    <3> QED BY <1>0, <3>2, <3>3 DEF PlaceInv, Sessions
  <2>2. CASE ~IsRecording
    BY <1>0, <1>7, <1>n, <2>2, CallKeeps, PlacesKept DEF CheckpointCall, recVars
  <2> QED BY <2>1, <2>2
<1> QED BY <1>1, <1>2, <1>3, <1>4, <1>5, <1>6, <1>7 DEF Calling

(* PlaceInv is inductive, beside Inv. *)
LEMMA PlaceNext == Inv /\ PlaceInv /\ [Next]_vars => PlaceInv'
<1> SUFFICES ASSUME Inv, PlaceInv, [Next]_vars PROVE PlaceInv'
  OBVIOUS
<1>1. CASE Pages \/ Loop \/ UNCHANGED vars
  <2>1. UNCHANGED <<recording, lastSession, op, ops>>
    BY <1>1 DEF Pages, Capture, Load, Back, Close, Loop, LoopTick, LoopSpawn, LoopJoin,
                recVars, callVars, vars
  <2> QED BY <2>1 DEF PlaceInv
<1> QED BY <1>1, ReadingPlaces, RequestPlaces, CallingPlaces DEF Next

(* At first nothing has been recorded. *)
LEMMA PlaceInit == Init => PlaceInv
BY DEF Init, RecInit, PlaceInv, NoOp

(* Places within the caps are what the recorder promises. *)
LEMMA PlacesName == Inv /\ PlaceInv => RecTypeOK /\ IndicesNameEvents
<1> SUFFICES ASSUME Inv, PlaceInv PROVE RecTypeOK /\ IndicesNameEvents
  OBVIOUS
<1>1. ASSUME NEW s, InPlace(s) PROVE EventsAreInPlace(s) /\ Len(s.events) <= MaxEvents
  <2>1. DOMAIN s.events = 1..Len(s.events) /\ Len(s.all) \in Nat
    BY <1>1 DEF InPlace
  <2>2. EventsAreInPlace(s)
    BY <1>1, <2>1 DEF InPlace, EventsAreInPlace
  <2>3. Len(s.events) <= MaxEvents
    BY <1>1, <2>1, RecorderAssumption DEF InPlace
  <2> QED BY <2>2, <2>3
<1>2. IndicesNameEvents
  BY <1>1 DEF PlaceInv, ActiveOk, IndicesNameEvents, IsRecording
<1>3. recording # None => RecordingType(recording)
  <2> HAVE recording # None
  <2>1. ActiveOk(recording) /\ recording.generation \in 1..generations
    BY DEF PlaceInv, Inv, RecInv
  <2> QED BY <1>1, <2>1 DEF ActiveOk, Recordings, InPlace, RecordingType
<1> QED BY <1>2, <1>3 DEF RecTypeOK, Inv, TypeInv

(* However reads, starts, stops, checkpoints and imports interleave, and
   whatever the rings evict: an event's index names one event of everything
   the recording ever took in, also after it was exported and imported
   again; the counter is never behind; and no ring outgrows its cap.       *)
THEOREM IndicesNameEventsAlways == Spec => [](RecTypeOK /\ IndicesNameEvents)
<1>1. Init => Inv /\ PlaceInv
  BY InvInit, PlaceInit
<1>2. Inv /\ PlaceInv /\ [Next]_vars => Inv' /\ PlaceInv'
  BY InvStep, PlaceNext
<1>3. Inv /\ PlaceInv => RecTypeOK /\ IndicesNameEvents
  BY PlacesName
<1> QED BY <1>1, <1>2, <1>3, PTL DEF Spec
=============================================================================
