------------------------------- MODULE Recorder -------------------------------
(***************************************************************************)
(* The session recorder (victauri-core recording.rs).  One recording is    *)
(* active at a time, under one lock; every start and every import takes a  *)
(* fresh generation, the token an owner uses to touch only its own         *)
(* recording.  Events live in a ring of MaxEvents, checkpoints in a ring   *)
(* of MaxCheckpoints, and both are placed by an event counter that never   *)
(* goes back.  The operators below are the recorder's methods, one lock    *)
(* acquisition each: a client of MCServing calls them in any order, and    *)
(* RecordingDrain and TraceOwner compose them with their other callers.    *)
(*                                                                         *)
(* The field `all` of a recording, and `at` of a checkpoint, are history:  *)
(* every event ever taken in, and how many there were at the checkpoint.   *)
(***************************************************************************)
EXTENDS Naturals, Sequences

CONSTANTS None,            \* no active recording, no stopped session
          MaxEvents,       \* EventRecorder.max_events
          MaxCheckpoints   \* DEFAULT_MAX_CHECKPOINTS

ASSUME RecorderAssumption ==
    /\ MaxEvents \in Nat \ {0}
    /\ MaxCheckpoints \in Nat \ {0}
    /\ None \notin Nat

VARIABLES recording,    \* EventRecorder.recording
          lastSession,  \* EventRecorder.last_session
          generations   \* EventRecorder.generations

recVars == <<recording, lastSession, generations>>

RecInit ==
    /\ recording = None
    /\ lastSession = None
    /\ generations = 0
-----------------------------------------------------------------------------
IsRecording == recording # None

(* A ring that has reached its cap loses its oldest entry to the new one. *)
Newest(s, n) == IF Len(s) > n THEN SubSeq(s, Len(s) - n + 1, Len(s)) ELSE s

Appended(r, e) ==
    [r EXCEPT !.events = Newest(Append(@, [index |-> r.counter, event |-> e]), MaxEvents),
              !.counter = @ + 1,
              !.all = Append(@, e)]

SessionOf(r) == [events |-> r.events, checkpoints |-> r.checkpoints, all |-> r.all]

(* Reads fall back to the last stopped session. *)
Source ==
    IF IsRecording THEN SessionOf(recording) ELSE lastSession

StartSession ==
    /\ ~IsRecording
    /\ generations' = generations + 1
    /\ recording' = [generation |-> generations + 1, counter |-> 0,
                     events |-> <<>>, checkpoints |-> <<>>, all |-> <<>>]
    /\ UNCHANGED lastSession

Finish ==
    /\ recording' = None
    /\ lastSession' = SessionOf(recording)
    /\ UNCHANGED generations

Stop == IF IsRecording THEN Finish ELSE UNCHANGED recVars

StopIfGeneration(g) ==
    IF IsRecording /\ recording.generation = g THEN Finish ELSE UNCHANGED recVars

RecordEvent(e) ==
    /\ recording' = IF IsRecording THEN Appended(recording, e) ELSE recording
    /\ UNCHANGED <<lastSession, generations>>

RecordEventIf(g, e) ==
    /\ recording' = IF IsRecording /\ recording.generation = g
                    THEN Appended(recording, e)
                    ELSE recording
    /\ UNCHANGED <<lastSession, generations>>

HasCheckpoint(cps, id) == \E k \in DOMAIN cps : cps[k].id = id

(* Mutant: placed by the ring, not by the counter. *)
CheckpointByLength(id) ==
    /\ IsRecording
    /\ ~HasCheckpoint(recording.checkpoints, id)
    /\ recording' =
         [recording EXCEPT !.checkpoints =
            Newest(Append(@, [id |-> id, index |-> Len(recording.events),
                              at |-> Len(recording.all)]), MaxCheckpoints)]
    /\ UNCHANGED <<lastSession, generations>>

(* A repeated id is refused: a lookup could only find one of the two. *)
Checkpoint(id) ==
    /\ IsRecording
    /\ ~HasCheckpoint(recording.checkpoints, id)
    /\ recording' =
         [recording EXCEPT !.checkpoints =
            Newest(Append(@, [id |-> id, index |-> recording.counter,
                              at |-> Len(recording.all)]), MaxCheckpoints)]
    /\ UNCHANGED <<lastSession, generations>>

(* imported: clamped to the caps, and counted past every index in use. *)
Imported(session, g) ==
    LET events == Newest(session.events, MaxEvents)
        cps == Newest(session.checkpoints, MaxCheckpoints)
        used == {0} \cup {events[k].index + 1 : k \in DOMAIN events}
                    \cup {cps[k].index : k \in DOMAIN cps}
    IN  [generation |-> g, events |-> events, checkpoints |-> cps,
         counter |-> CHOOSE n \in used : \A m \in used : m <= n,
         all |-> session.all]

(* The generation of an import is taken before the lock. *)
TakeGeneration == generations' = generations + 1

ImportIfIdle(session, g) ==
    /\ ~IsRecording
    /\ recording' = Imported(session, g)
    /\ UNCHANGED lastSession

EventCount == IF IsRecording THEN Len(recording.events) ELSE 0

(* checkpoint_window: the events still retained between two checkpoints, and
   how many of that window the ring has evicted.                           *)
CheckpointWindow(s, from, to) ==
    LET index(id) == s.checkpoints[CHOOSE k \in DOMAIN s.checkpoints :
                                        /\ s.checkpoints[k].id = id
                                        /\ \A j \in 1..(k - 1) : s.checkpoints[j].id # id].index
        lo == IF index(from) <= index(to) THEN index(from) ELSE index(to)
        hi == IF index(from) <= index(to) THEN index(to) ELSE index(from)
        kept == SelectSeq(s.events, LAMBDA e : e.index >= lo /\ e.index < hi)
    IN  [events |-> kept,
         dropped |-> IF hi - lo > Len(kept) THEN (hi - lo) - Len(kept) ELSE 0]
-----------------------------------------------------------------------------
(* Wherever a session is read (active, stopped, exported or imported), its
   events carry consecutive indices that end where the counter stands, so
   an index names one event of everything that was ever taken in.          *)
EventsAreInPlace(s) ==
    \A k \in DOMAIN s.events :
        /\ s.events[k].event = s.all[s.events[k].index + 1]
        /\ s.events[k].index = Len(s.all) - (Len(s.events) - k) - 1

IndicesNameEvents ==
    /\ lastSession # None => EventsAreInPlace(lastSession)
    /\ IsRecording => EventsAreInPlace(recording) /\ recording.counter = Len(recording.all)
-----------------------------------------------------------------------------
RecordingType(r) ==
    /\ r.generation \in 1..generations
    /\ r.counter \in Nat
    /\ Len(r.events) <= MaxEvents
    /\ Len(r.checkpoints) <= MaxCheckpoints

(* The recorder never holds more than its two caps, over any sequence of
   records, checkpoints and imports, and its generation was handed out.    *)
RecTypeOK ==
    /\ generations \in Nat
    /\ recording # None => RecordingType(recording)
=============================================================================
