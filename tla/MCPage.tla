------------------------------- MODULE MCPage -------------------------------
(***************************************************************************)
(* The in-page bridge: requests of the page, calls of the application,     *)
(* refs of elements, and animations, each in a scenario of its own.  They  *)
(* share no variables; the scenario is chosen in the initial state and the *)
(* others stand still.                                                     *)
(***************************************************************************)
EXTENDS PageXhr, PageIpc, PageRefs, PageAnimations

VARIABLE scenario

(* Calls, nodes, scrubs and elements are compared for equality only. *)
PageSymmetry ==
  Permutations(Calls) \cup Permutations(Nodes) \cup Permutations(Scrubs) \cup Permutations(Elements)

pageAllVars == <<scenario, xhrVars, ipcVars, refVars, animVars>>

(* The choices of a scenario that is not being run do not matter.          *)
OnlyHere ==
  /\ scenario # "ipc" => ~tauriPosts /\ mapped
  /\ scenario # "scrub" =>
       /\ anim = [t \in Elements |-> "idle"]
       /\ want = [c \in Scrubs |-> CHOOSE w \in [el: Elements, resume: Restore] : TRUE]

PageInit ==
  /\ scenario \in {"xhr", "ipc", "refs", "scrub", "sweep"}
  /\ XhrInit /\ IpcInit /\ RefsInit /\ AnimInit
  /\ OnlyHere

PageNext ==
  \/ scenario = "xhr" /\ XhrNext /\ UNCHANGED <<scenario, ipcVars, refVars, animVars>>
  \/ scenario = "ipc" /\ IpcNext /\ UNCHANGED <<scenario, xhrVars, refVars, animVars>>
  \/ scenario = "refs" /\ RefsNext /\ UNCHANGED <<scenario, xhrVars, ipcVars, animVars>>
  \/ scenario = "scrub" /\ ScrubNext /\ UNCHANGED <<scenario, xhrVars, ipcVars, refVars>>
  \/ scenario = "sweep" /\ SweepNext /\ UNCHANGED <<scenario, xhrVars, ipcVars, refVars>>

PageSpec == PageInit /\ [][PageNext]_pageAllVars
-----------------------------------------------------------------------------
(* What an agent is shown and acts upon is the page: the log says what     *)
(* went out, an action reaches the element that was named, and a snapshot  *)
(* leaves out no change.                                                   *)
AgentsSeeThePage ==
  [][LogStaysTrue /\ ActsOnWhatWasNamed /\ SnapshotTellsAll]_pageAllVars
=============================================================================
