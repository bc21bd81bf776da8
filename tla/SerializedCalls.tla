--------------------------- MODULE SerializedCalls ---------------------------
(***************************************************************************)
(* What the main-thread dispatcher promises its callers, without locks,    *)
(* queues, clocks or compare-and-swaps: calls are in flight one at a time, *)
(* a call has its effect only while it is in flight, and what its caller   *)
(* is told is, and stays, true.  MainDispatch implements this module.      *)
(***************************************************************************)
CONSTANTS Calls    \* the round trips that background threads make

VARIABLES open,    \* calls whose closure may still start or is running
          effect,  \* calls whose closure has had its effect
          verdict  \* what each caller was told

absVars == <<open, effect, verdict>>

(* "ran": it ran; "not_run": it did not and never will; "maybe": it started
   (its effect, if not there yet, will still come or was cut short).       *)
Verdicts == {"none", "ran", "not_run", "maybe"}

AbsTypeOK ==
    /\ open \in SUBSET Calls
    /\ effect \in SUBSET Calls
    /\ verdict \in [Calls -> Verdicts]

AbsInit ==
    /\ open = {}
    /\ effect = {}
    /\ verdict = [c \in Calls |-> "none"]

(* A call is put in flight only when no other is. *)
Launch(c) ==
    /\ open = {}
    /\ verdict[c] = "none"
    /\ c \notin effect
    /\ open' = {c}
    /\ UNCHANGED <<effect, verdict>>

(* The closure of a call in flight runs on the main thread. *)
TakeEffect(c) ==
    /\ c \in open
    /\ c \notin effect
    /\ effect' = effect \cup {c}
    /\ UNCHANGED <<open, verdict>>

(* The main thread is done with a call, or dropped it unstarted. *)
Land(c) ==
    /\ c \in open
    /\ open' = open \ {c}
    /\ UNCHANGED <<effect, verdict>>

(* The caller is told an outcome; a caller that gives up on a call that has
   not started takes it out of flight in the same step.                    *)
Answer(c, v) ==
    /\ verdict[c] = "none"
    /\ v # "none"
    /\ \/ open' = open
       \/ open' = open \ {c}
    /\ v = "ran" => c \in effect
    /\ v = "not_run" => c \notin effect /\ c \notin open'
    /\ verdict' = [verdict EXCEPT ![c] = v]
    /\ UNCHANGED effect

AbsNext ==
    \E c \in Calls :
        \/ Launch(c)
        \/ TakeEffect(c)
        \/ Land(c)
        \/ \E v \in Verdicts : Answer(c, v)

AbsSpec == AbsInit /\ [][AbsNext]_absVars
=============================================================================
