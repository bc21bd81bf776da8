------------------------------ MODULE MCClients ------------------------------
(***************************************************************************)
(* What stands on the other side of the server: how a client finds its     *)
(* application and stays with it, what init and setup write, what the      *)
(* commands and the test library tell their callers, and how pages and     *)
(* recordings are read, each in a scenario of its own.  They share no      *)
(* variables; the scenario is chosen in the initial state and the others   *)
(* stand still.                                                            *)
(***************************************************************************)
EXTENDS Rendezvous, ProjectSetup, CliVerdicts, TestClient, PageTree,
        RecordedSelectors

CONSTANT Scenarios

VARIABLE scenario

readVars == <<treeVars, selectorVars>>
testVars == <<locatorVars, verdictVars>>
clientsVars == <<scenario, rvVars, rootVars, setupVars, cliVars, testVars, readVars>>
-----------------------------------------------------------------------------
(* The inputs.                                                             *)
AppSymmetry == Permutations(Pids) \cup Permutations(Ids)
MCTargets == <<"claude", "windsurf">>
MCOrder == <<1, 2>>
MCForms ==
  {Form(FALSE, "hidden", FALSE, FALSE, "plain", FALSE), Form(TRUE, "hidden", TRUE, TRUE, "native", FALSE),
   Form(TRUE, "seen", TRUE, TRUE, "native", TRUE), Form(TRUE, "flat", FALSE, TRUE, "plain", FALSE),
   Form(TRUE, "seen", FALSE, TRUE, "aria", FALSE), Form(TRUE, "seen", TRUE, FALSE, "radio", TRUE)}
Actions == {"check", "uncheck", "click", "get"}
Matchers == {"visible", "hidden", "enabled", "disabled", "count", "attached", "detached",
             "checked", "unchecked"}
MCExpectations ==
  {x \in [what : Matchers \cup Actions, neg : BOOLEAN, cond : BOOLEAN, old : BOOLEAN,
          pick : {"first", "last", "second"}] :
     /\ x.old => x.cond
     /\ x.neg => x.what \in Matchers
     /\ x.pick = "second" => x.what \in {"hidden", "attached", "enabled"}
     /\ x.pick = "last" => x.what \in {"visible", "disabled", "check"}}
-----------------------------------------------------------------------------
On(name) == scenario = name

(* Bounds on where a scenario starts: one root stands already, where the   *)
(* system tells whose processes live; one configuration is out of the      *)
(* ordinary, in a project of the usual shape.                              *)
Standing == {r \in Roots : root[r] # NoDir}
OneRootStands == Cardinality(Standing) <= 1 /\ (Standing # {} => setting.kill /\ setting.proc)
Odd == {t \in Target : config[t].text = "other" \/ config[t].entry # "none"
                       \/ config[t].link \/ config[t].locked}
OneConfigIsOdd == Cardinality(Odd) <= 1 /\ (Odd # {} => source.builder = "chain")

(* A page with something collapsed hides nothing in another way.           *)
Collapsed == \E n \in Elems : page[n].vis = "collapse"
CollapsedAlone == Collapsed => \A n \in Elems : ~page[n].none /\ ~page[n].clear

(* The choices of a scenario that is not being run do not matter.          *)

VerdictRest == capture = "full" /\ answers
RootsRest ==
  /\ setting = CHOOSE s \in Settings : TRUE
  /\ root = [r \in Roots |-> NoDir] /\ listing = root
  /\ app = [at |-> "choose", root |-> NoDir, refused |-> FALSE]
  /\ holder = "app" /\ foreign = 0
  /\ reader = [kind |-> NoDir, left |-> <<>>, found |-> {}, gone |-> FALSE, registered |-> FALSE]
SetupRest ==
  /\ manifest = [plugin |-> "absent", core |-> "absent", turnsOn |-> {}, text |-> "whole"]
  /\ source = [builder |-> "none", wiring |-> "none", text |-> "whole"]
  /\ grant = "absent" /\ made = [f \in Made |-> "absent"]
  /\ config = [t \in Target |-> CHOOSE c \in UserConfigs : ~c.link /\ ~c.locked]
  /\ docs = [d \in Docs |-> [text |-> "absent", blocks |-> 0]]
  /\ command = Idle /\ commands = 0
CliRest ==
  /\ cmd = [name |-> "tools", args |-> TRUE, pinned |-> FALSE]
  /\ at = "start" /\ apps = 0 /\ appChanges = 0 /\ executed = 0 /\ reply = Unset /\ images = 0
  /\ saved = {} /\ junit = Unset /\ recording = FALSE
  /\ tally = [pass |-> 0, fail |-> 0, warn |-> 0] /\ said = {} /\ code = Unset
LocatorRest ==
  /\ dom = [at |-> "empty", el |-> [e \in Elements |-> CHOOSE f \in Forms : ~f.in]]
  /\ stated = Stated("get", FALSE, FALSE, "first", FALSE)
  /\ step = "find" /\ found = <<>> /\ polls = 0 /\ changes = 0 /\ outcome = "none"
  /\ rendering = {} /\ steady = TRUE /\ asked = {}
TreeRest ==
  /\ page = <<>> /\ query = NoQuery /\ shownTree = <<>> /\ shownLines = <<>>
  /\ foundAll = <<>> /\ foundText = <<>>
SelectorRest == session = <<>> /\ style = "none" /\ test = <<>>

ClientsInit ==
  /\ scenario \in Scenarios
  /\ RvInit
  /\ VerdictInit /\ (On("checks") \/ VerdictRest)
  /\ IF On("roots") THEN RootsInit /\ OneRootStands ELSE RootsRest
  /\ IF On("setup") THEN SetupInit /\ OneConfigIsOdd ELSE SetupRest
  /\ IF On("commands") THEN CliInit ELSE CliRest
  /\ IF On("locators") THEN LocatorInit ELSE LocatorRest
  /\ IF On("tree") THEN TreeInit /\ CollapsedAlone ELSE TreeRest
  /\ IF On("recordings") THEN SelectorInit ELSE SelectorRest

ClientsNext ==
  \/ On("rendezvous") /\ RvNext /\ UNCHANGED
       <<scenario, rootVars, setupVars, cliVars, testVars, readVars>>
  \/ On("roots") /\ RootsNext /\ UNCHANGED
       <<scenario, rvVars, setupVars, cliVars, testVars, readVars>>
  \/ On("setup") /\ SetupNext /\ UNCHANGED
       <<scenario, rvVars, rootVars, cliVars, testVars, readVars>>
  \/ On("commands") /\ CliNext /\ UNCHANGED
       <<scenario, rvVars, rootVars, setupVars, testVars, readVars>>
  \/ On("locators") /\ LocatorNext /\ UNCHANGED
       <<scenario, rvVars, rootVars, setupVars, cliVars, verdictVars, readVars>>
  \/ On("checks") /\ VerdictNext /\ UNCHANGED
       <<scenario, rvVars, rootVars, setupVars, cliVars, locatorVars, readVars>>
  \/ On("tree") /\ TreeNext /\ UNCHANGED
       <<scenario, rvVars, rootVars, setupVars, cliVars, testVars, selectorVars>>
  \/ On("recordings") /\ SelectorNext /\ UNCHANGED
       <<scenario, rvVars, rootVars, setupVars, cliVars, testVars, treeVars>>

ClientsSpec == ClientsInit /\ [][ClientsNext]_clientsVars
-----------------------------------------------------------------------------
(* A test passes for what is so: of the elements of a page that stands     *)
(* still and of the commands the page invoked.                             *)
TestsJudgeTruly == SteadyPagesAreJudged /\ ChecksAreTrue

(* What is on a page reads alike in a snapshot, in a search and in a test  *)
(* generated from a recording.                                             *)
PageIsReadRight ==
  (On("tree") => TreeIsReadRight) /\ (On("recordings") => RecordedIsReplayed)
=============================================================================
