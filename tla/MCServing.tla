------------------------------ MODULE MCServing ------------------------------
(***************************************************************************)
(* Serving a call: the front door, the rate limiter, the tool gate and the *)
(* recorder behind the recording tools, each in a scenario of its own.     *)
(* They share no variables; the scenario is chosen in the initial state    *)
(* and the others stand still.                                             *)
(*                                                                         *)
(* The recorder has no scenario of its own in Recorder, whose operators    *)
(* several modules compose: here a client starts, records, checkpoints,    *)
(* stops, exports and imports in any order, and what is asked is what the  *)
(* indices, the two rings and checkpoint_window promise over long          *)
(* sequences of calls.                                                     *)
(***************************************************************************)
EXTENDS FrontDoor, RateLimiter, ToolGate, Recorder

CONSTANTS Ids,            \* checkpoint ids
          MaxTaken,       \* bound on the events of a recording
          MaxGenerations  \* bound on starts and imports

VARIABLES saved,     \* a session the client exported and may import again
          scenario
-----------------------------------------------------------------------------
SessionInit == RecInit /\ saved = None

ClientStart == StartSession /\ UNCHANGED saved
ClientStop == IsRecording /\ Stop /\ UNCHANGED saved

(* Events are numbered, so that `all` tells them apart. *)
ClientRecord ==
    /\ IsRecording
    /\ Len(recording.all) < MaxTaken
    /\ RecordEvent(Len(recording.all) + 1)
    /\ UNCHANGED saved

ClientCheckpoint == (\E id \in Ids : Checkpoint(id)) /\ UNCHANGED saved

Export ==
    /\ Source # None
    /\ saved' = Source
    /\ UNCHANGED recVars

ClientImport ==
    /\ saved # None
    /\ TakeGeneration
    /\ ImportIfIdle(saved, generations + 1)
    /\ UNCHANGED saved

SessionNext ==
    \/ generations < MaxGenerations /\ (ClientStart \/ ClientImport)
    \/ ClientStop \/ ClientRecord \/ ClientCheckpoint \/ Export
-----------------------------------------------------------------------------
(* checkpoint_window is exact: between any two checkpoints it returns the
   newest events of the true window and counts precisely the evicted rest,
   also in a session that was exported and imported after evictions.       *)
WindowIsExact(s) ==
    \A i, j \in DOMAIN s.checkpoints :
        s.checkpoints[i].at <= s.checkpoints[j].at =>
        LET truth == SubSeq(s.all, s.checkpoints[i].at + 1, s.checkpoints[j].at)
            w == CheckpointWindow(s, s.checkpoints[i].id, s.checkpoints[j].id)
            back == CheckpointWindow(s, s.checkpoints[j].id, s.checkpoints[i].id)
        IN  /\ back = w
            /\ w.dropped + Len(w.events) = Len(truth)
            /\ \A k \in DOMAIN w.events : w.events[k].event = truth[w.dropped + k]

WindowsAreExact ==
    \A s \in {Source, saved} \ {None} : WindowIsExact(s)

(* Together: a session reads as it was recorded, whatever was evicted, and
   however often it was exported and imported since.                       *)
SessionsAreExact ==
    /\ IndicesNameEvents
    /\ saved # None => EventsAreInPlace(saved)
    /\ WindowsAreExact
-----------------------------------------------------------------------------
sessionVars == <<recVars, saved>>
servingVars == <<scenario, frontVars, rateVars, gateVars, sessionVars>>

MCCommands == {"c1", "c2"}
MCDisableable ==
  {{}} \cup {{n} : n \in {<<"eval_js">>, <<"screenshot">>, <<"invoke_command">>,
                          <<"logs", "backend">>, <<"introspect", "event_bus">>,
                          <<"navigate">>}}
MCLists == {[allow |-> {}, block |-> {}], [allow |-> {{"c1"}}, block |-> {}],
            [allow |-> {{"c1", "c2"}}, block |-> {"c2"}]}

(* A server that has ended: none of the door's actions is enabled.         *)
FrontStopped ==
  /\ loop = "ended" /\ conn = [c \in FrontClients |-> "away"]
  /\ backlog = <<>> /\ slotQueue = <<>> /\ callQueue = <<>>

IdleConfig == [profile |-> "Observe", disabled |-> {}, allow |-> {}, block |-> {}]

ServingInit ==
  /\ scenario \in {"door", "rate", "gate", "sessions"}
  /\ IF scenario = "door" THEN FrontInit ELSE FrontStopped
  /\ RateInit /\ GateInit /\ SessionInit
  /\ scenario # "gate" => config = IdleConfig

ServingNext ==
  \/ /\ scenario = "door" /\ FrontNext
     /\ UNCHANGED <<scenario, rateVars, gateVars, sessionVars>>
  \/ /\ scenario = "rate" /\ RateNext
     /\ UNCHANGED <<scenario, frontVars, gateVars, sessionVars>>
  \/ /\ scenario = "gate" /\ GateNext
     /\ UNCHANGED <<scenario, frontVars, rateVars, sessionVars>>
  \/ /\ scenario = "sessions" /\ SessionNext
     /\ UNCHANGED <<scenario, frontVars, rateVars, gateVars>>

ServingSpec ==
  ServingInit /\ [][ServingNext]_servingVars /\ FrontFairness
-----------------------------------------------------------------------------
(* Whatever strangers hold open, a health probe is answered and so is a    *)
(* call (FrontDoor).                                                       *)
DoorsStayOpen == HealthIsAnswered /\ CallsAreAnswered
=============================================================================
