------------------------------ MODULE TraceOwner ------------------------------
(***************************************************************************)
(* The trace tool (victauri-plugin mcp/mod.rs trace, screencast.rs): a     *)
(* trace captures frames from a background task and may start a recording  *)
(* of its own.  A start takes over from the trace before it, a stop and    *)
(* the task's own end (its maximum duration, or a panic) race, and other   *)
(* clients start and stop recordings of theirs meanwhile.  Trace state and *)
(* recorder have a lock each, so every handler takes several steps.        *)
(***************************************************************************)
EXTENDS Recorder

CONSTANTS Clients,
          MaxFrames,  \* the frame ring
          MaxOps      \* bound on the clients' calls

ASSUME TraceAssumption == MaxFrames \in Nat \ {0} /\ MaxOps \in Nat

VARIABLES
    trace,   \* Screencast.trace: active, generation, owned
    frames,  \* Screencast.frames: of each frame, the trace it was captured for
    task,    \* the capture task of each trace generation
    epoch,   \* DrainWatermarks: the recording that is drained
    op,      \* what each client's call is doing
    ops,     \* calls made so far
    by,      \* who started each recording
    latest   \* the generation of the latest start (history)

traceVars == <<trace, frames>>
traceAllVars == <<recVars, traceVars, task, epoch, op, ops, by, latest>>

(* A start, a stop and a task's own end each take one. *)
Generations == 1..(2 * MaxOps)
NoOp == [pc |-> "idle"]
NoTask == [pc |-> "none"]

TraceInit ==
    /\ RecInit
    /\ trace = [active |-> FALSE, generation |-> 0, owned |-> None]
    /\ frames = <<>>
    /\ task = [g \in Generations |-> NoTask]
    /\ epoch = 0
    /\ op = [c \in Clients |-> NoOp]
    /\ ops = 0
    /\ by = <<>>
    /\ latest = 0
-----------------------------------------------------------------------------
(* Screencast. *)

IsCurrent(g) == trace.active /\ trace.generation = g

ScreencastStart ==
    /\ trace' = [active |-> TRUE, generation |-> trace.generation + 1, owned |-> None]
    /\ frames' = <<>>
    /\ latest' = trace.generation + 1

ScreencastStop ==
    trace' = [active |-> FALSE, generation |-> trace.generation + 1, owned |-> None]

PushFrameIfCurrent(g) ==
    frames' = IF IsCurrent(g) THEN Newest(Append(frames, g), MaxFrames) ELSE frames

SetOwnedRecording(g, rec) ==
    trace' = IF IsCurrent(g) THEN [trace EXCEPT !.owned = rec] ELSE trace
-----------------------------------------------------------------------------
(* trace start. *)

Begin(c) == op[c] = NoOp /\ ops < MaxOps /\ ops' = ops + 1

StartTrace(c, withEvents) ==
    /\ Begin(c)
    /\ ScreencastStart
    /\ op' = [op EXCEPT ![c] = [pc |-> "supersede", gen |-> trace.generation + 1,
                                prev |-> trace.owned, events |-> withEvents]]
    /\ UNCHANGED <<recVars, task, epoch, by>>

(* The recording of the trace that was taken over is ended. *)
Supersede(c) ==
    /\ op[c].pc = "supersede"
    /\ StopIfGeneration(op[c].prev)
    /\ op' = [op EXCEPT ![c].pc = IF op[c].events THEN "record" ELSE "spawn"]
    /\ UNCHANGED <<traceVars, task, epoch, ops, by, latest>>

(* A recording already running is left alone, and is not the trace's. *)
Record(c) ==
    /\ op[c].pc = "record"
    /\ IF IsRecording
       THEN /\ op' = [op EXCEPT ![c].pc = "spawn"]
            /\ UNCHANGED <<recVars, by>>
       ELSE /\ StartSession
            /\ by' = Append(by, "trace")
            /\ op' = [op EXCEPT ![c] = [pc |-> "reset", gen |-> @.gen, rec |-> generations + 1]]
    /\ UNCHANGED <<traceVars, task, epoch, ops, latest>>

ResetMarks(rec) == epoch' = IF rec > epoch THEN rec ELSE epoch

Reset(c) ==
    /\ op[c].pc = "reset"
    /\ ResetMarks(op[c].rec)
    /\ op' = [op EXCEPT ![c].pc = "own"]
    /\ UNCHANGED <<recVars, traceVars, task, ops, by, latest>>

(* Mutant: a recording the trace could not take is forgotten. *)
OwnUnchecked(c) ==
    /\ op[c].pc = "own"
    /\ SetOwnedRecording(op[c].gen, op[c].rec)
    /\ op' = [op EXCEPT ![c].pc = "spawn"]
    /\ UNCHANGED <<recVars, frames, task, epoch, ops, by, latest>>

(* A trace that is over by now cannot own it: the handler must end it. *)
Own(c) ==
    /\ op[c].pc = "own"
    /\ SetOwnedRecording(op[c].gen, op[c].rec)
    /\ op' = [op EXCEPT ![c].pc = IF IsCurrent(op[c].gen) THEN "spawn" ELSE "disown"]
    /\ UNCHANGED <<recVars, frames, task, epoch, ops, by, latest>>

Disown(c) ==
    /\ op[c].pc = "disown"
    /\ StopIfGeneration(op[c].rec)
    /\ op' = [op EXCEPT ![c].pc = "spawn"]
    /\ UNCHANGED <<traceVars, task, epoch, ops, by, latest>>

SpawnTask(c) ==
    /\ op[c].pc = "spawn"
    /\ task' = [task EXCEPT ![op[c].gen] = [pc |-> "loop"]]
    /\ op' = [op EXCEPT ![c] = NoOp]
    /\ UNCHANGED <<recVars, traceVars, epoch, ops, by, latest>>
-----------------------------------------------------------------------------
(* trace stop, and a client's own recording. *)

StopTrace(c) ==
    /\ Begin(c)
    /\ ScreencastStop
    /\ op' = [op EXCEPT ![c] = [pc |-> "stop", rec |-> trace.owned]]
    /\ UNCHANGED <<recVars, frames, task, epoch, by, latest>>

StopOwned(c) ==
    /\ op[c].pc = "stop"
    /\ StopIfGeneration(op[c].rec)
    /\ op' = [op EXCEPT ![c] = NoOp]
    /\ UNCHANGED <<traceVars, task, epoch, ops, by, latest>>

StartRecording(c) ==
    /\ Begin(c)
    /\ StartSession
    /\ by' = Append(by, "client")
    /\ op' = [op EXCEPT ![c] = [pc |-> "mark", rec |-> generations + 1]]
    /\ UNCHANGED <<traceVars, task, epoch, latest>>

MarkRecording(c) ==
    /\ op[c].pc = "mark"
    /\ ResetMarks(op[c].rec)
    /\ op' = [op EXCEPT ![c] = NoOp]
    /\ UNCHANGED <<recVars, traceVars, task, ops, by, latest>>

StopRecording(c) ==
    /\ Begin(c)
    /\ IsRecording
    /\ Stop
    /\ UNCHANGED <<traceVars, task, epoch, op, by, latest>>

RequestTrace(c) ==
    \/ \E withEvents \in BOOLEAN : StartTrace(c, withEvents)
    \/ StopTrace(c) \/ StartRecording(c) \/ StopRecording(c)

Handler(c) ==
    \/ Supersede(c) \/ Record(c) \/ Reset(c) \/ Own(c) \/ Disown(c) \/ SpawnTask(c)
    \/ StopOwned(c) \/ MarkRecording(c)
-----------------------------------------------------------------------------
(* The capture task: it checks, captures for a while, and pushes. *)

Capture(g) ==
    /\ task[g].pc = "loop"
    /\ IsCurrent(g)
    /\ task' = [task EXCEPT ![g].pc = "capturing"]
    /\ UNCHANGED <<recVars, traceVars, epoch, op, ops, by, latest>>

PushFrame(g) ==
    /\ task[g].pc = "capturing"
    /\ PushFrameIfCurrent(g)
    /\ task' = [task EXCEPT ![g].pc = "loop"]
    /\ UNCHANGED <<recVars, trace, epoch, op, ops, by, latest>>

(* The loop ends (stopped, superseded, out of time) or panics: either way
   CaptureTaskGuard::drop ends the trace if it is still this one.           *)
TaskEnds(g) ==
    /\ task[g].pc \in {"loop", "capturing"}
    /\ IF IsCurrent(g)
       THEN /\ ScreencastStop
            /\ task' = [task EXCEPT ![g] = [pc |-> "dropping", rec |-> trace.owned]]
       ELSE /\ task' = [task EXCEPT ![g] = NoTask]
            /\ UNCHANGED trace
    /\ UNCHANGED <<recVars, frames, epoch, op, ops, by, latest>>

TaskStops(g) ==
    /\ task[g].pc = "dropping"
    /\ StopIfGeneration(task[g].rec)
    /\ task' = [task EXCEPT ![g] = NoTask]
    /\ UNCHANGED <<traceVars, epoch, op, ops, by, latest>>

Ending(g) == TaskEnds(g) \/ TaskStops(g)

TraceNext ==
    \/ \E c \in Clients : RequestTrace(c) \/ Handler(c)
    \/ \E g \in Generations : Capture(g) \/ PushFrame(g) \/ Ending(g)

(* Handlers run, and MAX_TRACE_DURATION ends every capture task. *)
TraceFairness ==
    /\ \A c \in Clients : WF_traceAllVars(Handler(c))
    /\ \A g \in Generations : WF_traceAllVars(Ending(g))

TraceSpec == TraceInit /\ [][TraceNext]_traceAllVars /\ TraceFairness
-----------------------------------------------------------------------------
(* The states of the trace, its tasks and handlers: the frames stay within
   the ring, and every recording was started by someone.                   *)
OpStates ==
    {NoOp}
    \cup [pc : {"supersede", "record", "spawn"}, gen : Generations,
          prev : Nat \cup {None}, events : BOOLEAN]
    \cup [pc : {"reset", "own", "disown", "spawn"}, gen : Generations, rec : Nat]
    \cup [pc : {"stop"}, rec : Nat \cup {None}]
    \cup [pc : {"mark"}, rec : Nat]

TaskStates ==
    {NoTask} \cup [pc : {"loop", "capturing"}] \cup [pc : {"dropping"}, rec : Nat \cup {None}]

TraceTypeOK ==
    /\ generations \in Nat
    /\ IsRecording => recording.generation \in 1..generations
    /\ trace \in [active : BOOLEAN, generation : 0..(2 * MaxOps), owned : Nat \cup {None}]
    /\ frames \in Seq(Nat) /\ Len(frames) <= MaxFrames
    /\ task \in [Generations -> TaskStates]
    /\ op \in [Clients -> OpStates]
    /\ epoch \in Nat /\ latest \in Nat
    /\ ops \in 0..MaxOps
    /\ by \in Seq({"trace", "client"}) /\ Len(by) = generations

ByTrace == IsRecording /\ by[recording.generation] = "trace"

TaskAlive(g) == trace.active /\ trace.generation = g /\
                (task[g].pc \in {"loop", "capturing"} \/ \E c \in Clients : op[c].pc = "spawn" /\ op[c].gen = g)

(* Who will end a recording: the live trace that owns it and has its capture
   task, or a handler or a task on its way to stop it.                      *)
WithTrace(rec) == trace.owned = rec /\ TaskAlive(trace.generation)
Minds(c, rec) ==
    \/ op[c].pc = "supersede" /\ op[c].prev = rec
    \/ op[c].pc \in {"reset", "own", "disown", "stop"} /\ op[c].rec = rec
WithHandler(rec) == \E c \in Clients : Minds(c, rec)
WithTask(rec) == \E g \in Generations : task[g].pc = "dropping" /\ task[g].rec = rec

(* "left running with no owner": a recording a trace started is always in the
   hands of someone who will end it.                                        *)
NoOwnerlessRecording ==
    ByTrace =>
        LET rec == recording.generation
        IN  WithTrace(rec) \/ WithHandler(rec) \/ WithTask(rec)

(* A trace ends only the recording it started itself: one a client started
   ends by a client's recording stop.                                      *)
ClientsEndTheirOwn ==
    [][IsRecording /\ by[recording.generation] = "client" /\ recording' # recording
         => \E c \in Clients : StopRecording(c)]_traceAllVars

(* R4-RACE2: a capture begun for an earlier trace never ends up among the
   frames of a later one.                                                  *)
FramesAreOfOneTrace == \A k \in DOMAIN frames : frames[k] = latest

(* However starts, stops and tasks that end by themselves interleave: a trace's
   recording has an owner, and its frames are its own.                      *)
TracesOwnTheirs == NoOwnerlessRecording /\ FramesAreOfOneTrace

(* An abandoned trace does not go on forever, nor does its recording. *)
TracesEnd == []<>(~trace.active /\ ~ByTrace)
=============================================================================
