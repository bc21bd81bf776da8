---------------------------- MODULE CliVerdicts ----------------------------
(***************************************************************************)
(* What a `victauri` command tells its caller: the exit code, the files it *)
(* wrote and what it said (crates/victauri-cli/src/main.rs and call.rs).   *)
(* A shell script or CI step acts on these alone, so they have to be true  *)
(* of what happened in the app, which may start, die or stop answering     *)
(* between any two requests of the command.                                *)
(*                                                                         *)
(* One behaviour is one command.  What a tool returns, what a project      *)
(* holds and what the checks of a suite find is chosen by the environment; *)
(* the wording of messages is left out.                                    *)
(***************************************************************************)
EXTENDS Integers, FiniteSets, Sequences

CONSTANTS MaxImages,    \* bound: images in a tool's result
          MaxAppChanges, \* bound: times the app starts or dies
          Unset

ASSUME CliAssumption ==
    /\ MaxImages \in Nat /\ MaxAppChanges \in Nat
    /\ Unset \notin 0..3 /\ Unset \notin BOOLEAN
    /\ Unset \notin {"ok", "error", "undecodable", "refused", "lost", "passed", "failed",
                    "nothing_registered"}

VARIABLES cmd,          \* the command and its options
          at,           \* where it is
          apps,         \* 0, 1 or 2 apps running
          appChanges,
          executed,     \* times the app ran the tool asked for
          reply,        \* what the app returned to the command's request
          images,       \* how many images the result holds
          saved,        \* the images written
          junit,        \* the report this run wrote, or Unset
          recording,    \* the app is recording for this command
          tally,        \* doctor's counts
          said,         \* what the command has said on the way
          code          \* the exit code, or Unset

cliVars == <<cmd, at, apps, appChanges, executed, reply, images, saved, junit, recording, tally, said, code>>

Facts == [manifest : BOOLEAN, tauri : BOOLEAN, plugin : BOOLEAN, tests : BOOLEAN,
          wired : BOOLEAN, grant : {"file", "runtime", "some", "none", "no_directory"}]

CliCommands ==
    [name : {"call"}, args : BOOLEAN, out : {"none", "file", "directory"}, pinned : BOOLEAN]
    \cup [name : {"invoke", "tools"}, args : BOOLEAN, pinned : BOOLEAN]
    \cup [name : {"check", "test"}, junit : BOOLEAN, pinned : BOOLEAN]
    \cup [name : {"coverage"}, junit : BOOLEAN, threshold : BOOLEAN, empty : BOOLEAN, pinned : BOOLEAN]
    \cup [name : {"record"}, output : BOOLEAN, pinned : BOOLEAN]
    \cup {[name |-> "doctor", facts |-> f, pinned |-> FALSE] : f \in Facts}

CliInit ==
    /\ cmd \in CliCommands
    /\ at = "start"
    /\ apps \in 0..2
    /\ appChanges = 0
    /\ executed = 0
    /\ reply = Unset
    /\ images = 0
    /\ saved = {}
    /\ junit = Unset
    /\ recording = FALSE
    /\ tally = [pass |-> 0, fail |-> 0, warn |-> 0]
    /\ said = {}
    /\ code = Unset

----------------------------------------------------------------------------
(* The app starts or dies; a recording dies with it. *)
AppChanges ==
    /\ at # "exited"
    /\ appChanges < MaxAppChanges
    /\ appChanges' = appChanges + 1
    /\ apps' \in 0..1
    /\ apps' # apps
    /\ recording' = FALSE
    /\ UNCHANGED <<cmd, at, executed, reply, images, saved, junit, tally, said, code>>

Exit(c) == at' = "exited" /\ code' = c

EXIT_TOOL_ERROR == 1
EXIT_USAGE == 2
EXIT_OUTCOME_UNKNOWN == 3

(* An error that leaves `call` and `tools` is a local one, from the others anyhow's 1. *)
LocalFailure == IF cmd.name \in {"call", "tools"} THEN EXIT_USAGE ELSE 1

(* Arguments, an output that cannot be written to: before the app is asked anything. *)
Refused ==
    \/ cmd.name = "call" /\ (~cmd.args \/ cmd.out = "directory")
    \/ cmd.name = "record" /\ ~cmd.output

RefuseUsage ==
    /\ at = "start"
    /\ Refused
    /\ Exit(LocalFailure)
    /\ UNCHANGED <<cmd, apps, appChanges, executed, reply, images, saved, junit, recording, tally, said>>

(* discover_target: one app, or the one the project or --app names among several. *)
Found == apps = 1 \/ (apps = 2 /\ cmd.pinned)

FindApp ==
    /\ at = "start"
    /\ cmd.name # "doctor"
    /\ ~Refused
    /\ IF Found THEN at' = "connected" /\ UNCHANGED <<code, said>>
       ELSE IF cmd.name = "tools" /\ apps = 0
       THEN at' = "print" /\ said' = said \cup {"built_in"} /\ UNCHANGED code
       ELSE Exit(LocalFailure) /\ UNCHANGED said
    /\ UNCHANGED <<cmd, apps, appChanges, executed, reply, images, saved, junit, recording, tally>>

----------------------------------------------------------------------------
(* The tool is called: the request may never leave, be refused, run and be answered, or    *)
(* run or not with the answer lost.                                                        *)
Requests == {"call", "invoke"}

Answered(r, n) ==
    /\ reply' = r
    /\ images' = n
    /\ executed' = IF r = "refused" THEN executed ELSE executed + 1
    /\ at' = "answered"

(* A mistaken LostAnswer: an answer that did not come is a local problem like any other. *)
LostIsLocal == IF cmd.name = "call" THEN EXIT_USAGE ELSE 1

LostAnswer == IF cmd.name = "call" THEN EXIT_OUTCOME_UNKNOWN ELSE 1

CallOnce ==
    /\ at = "connected"
    /\ cmd.name \in Requests
    /\ IF cmd.name = "invoke" /\ ~cmd.args
       THEN Exit(LocalFailure) /\ UNCHANGED <<executed, reply, images>>
       ELSE \/ apps = 0 /\ Exit(LocalFailure) /\ UNCHANGED <<executed, reply, images>>
            \/ apps > 0 /\ UNCHANGED code
                 /\ \/ \E n \in 0..MaxImages : Answered("ok", n)
                    \/ \E r \in {"error", "undecodable", "refused"} : Answered(r, 0)
            \/ /\ Exit(LostAnswer)
               /\ executed' \in (IF apps > 0 THEN {executed, executed + 1} ELSE {executed})
               /\ reply' = "lost"
               /\ UNCHANGED images
    /\ UNCHANGED <<cmd, apps, appChanges, saved, junit, recording, tally, said>>

(* A refusal, a tool's error and a result that cannot be decoded are all the tool's error, *)
(* unless even that cannot be printed.                                                     *)
ToolFailed ==
    /\ at = "answered"
    /\ reply # "ok"
    /\ \/ Exit(EXIT_TOOL_ERROR) /\ UNCHANGED said
       \/ Exit(LocalFailure) /\ said' = said \cup {"output_failed"}
    /\ UNCHANGED <<cmd, apps, appChanges, executed, reply, images, saved, junit, recording, tally>>

(* The images still to be written: none without --out. *)
ToSave == IF cmd.name = "call" /\ cmd.out = "file" THEN (1..images) \ saved ELSE {}

SaveImage ==
    /\ at = "answered"
    /\ reply = "ok"
    /\ ToSave # {}
    /\ \/ /\ saved' = saved \cup {CHOOSE i \in ToSave : \A j \in ToSave : i <= j}
          /\ UNCHANGED <<at, code, said>>
       \/ /\ Exit(EXIT_USAGE)
          /\ said' = said \cup {"output_failed"}
          /\ UNCHANGED saved
    /\ UNCHANGED <<cmd, apps, appChanges, executed, reply, images, junit, recording, tally>>

AllSaved ==
    /\ at = "answered"
    /\ reply = "ok"
    /\ ToSave \subseteq saved
    /\ at' = "print"
    /\ UNCHANGED <<cmd, apps, appChanges, executed, reply, images, saved, junit, recording, tally, said, code>>

(* cmd_tools: the live list, in which the tool asked for (args) is found or not. *)
ListTools ==
    /\ at = "connected"
    /\ cmd.name = "tools"
    /\ IF apps > 0 THEN \/ at' = "print" /\ UNCHANGED code
                        \/ Exit(EXIT_USAGE)
       ELSE Exit(EXIT_USAGE)
    /\ UNCHANGED <<cmd, apps, appChanges, executed, reply, images, saved, junit, recording, tally, said>>

(* Standard output takes the result, or cannot. *)
PrintResult ==
    /\ at = "print"
    /\ \/ cmd.name = "tools" /\ ~cmd.args /\ Exit(EXIT_USAGE) /\ UNCHANGED said
       \/ (cmd.name = "tools" => cmd.args) /\ Exit(0) /\ UNCHANGED said
       \/ Exit(LocalFailure) /\ said' = said \cup {"output_failed"}
    /\ UNCHANGED <<cmd, apps, appChanges, executed, reply, images, saved, junit, recording, tally>>

----------------------------------------------------------------------------
(* check, test and coverage: the suite's findings, or an error on the way. *)
Suites == {"check", "test", "coverage"}

RunSuite ==
    /\ at = "connected"
    /\ cmd.name \in Suites
    /\ \/ Exit(1) /\ UNCHANGED reply
       \/ /\ apps > 0
          /\ reply' \in (IF cmd.name = "coverage" THEN {"passed", "failed", "nothing_registered"}
                         ELSE {"passed", "failed"})
          /\ IF reply' = "nothing_registered" /\ ~cmd.empty THEN Exit(1)
             ELSE at' = "report" /\ UNCHANGED code
    /\ UNCHANGED <<cmd, apps, appChanges, executed, images, saved, junit, recording, tally, said>>

(* What the report says, an empty registry included, which covers all there is. *)
Verdict ==
    IF cmd.name = "coverage" THEN reply # "failed" \/ ~cmd.threshold ELSE reply = "passed"

WriteReport ==
    /\ at = "report"
    /\ cmd.junit
    /\ \/ junit' = Verdict /\ at' = "verdict" /\ UNCHANGED code
       \/ Exit(1) /\ UNCHANGED junit
    /\ UNCHANGED <<cmd, apps, appChanges, executed, reply, images, saved, recording, tally, said>>

NoReport ==
    /\ at = "report"
    /\ ~cmd.junit
    /\ at' = "verdict"
    /\ UNCHANGED <<cmd, apps, appChanges, executed, reply, images, saved, junit, recording, tally, said, code>>

(* `check` reports; `test` and `coverage` decide. *)
ExitWithVerdict ==
    /\ at = "verdict"
    /\ Exit(IF cmd.name = "check" \/ Verdict THEN 0 ELSE 1)
    /\ UNCHANGED <<cmd, apps, appChanges, executed, reply, images, saved, junit, recording, tally, said>>

----------------------------------------------------------------------------
(* cmd_record: started, stopped by Ctrl+C, turned into a test and written. *)
StartRecording ==
    /\ at = "connected"
    /\ cmd.name = "record"
    /\ \/ apps > 0 /\ recording' = TRUE /\ at' = "recording" /\ UNCHANGED code
       \/ Exit(1) /\ UNCHANGED recording
    /\ UNCHANGED <<cmd, apps, appChanges, executed, reply, images, saved, junit, tally, said>>

(* An app that has restarted meanwhile has no recording to stop. *)
StopRecording ==
    /\ at = "recording"
    /\ \/ /\ recording
          /\ recording' = FALSE
          /\ at' = "session"
          /\ UNCHANGED code
       \/ Exit(1) /\ UNCHANGED recording
    /\ UNCHANGED <<cmd, apps, appChanges, executed, reply, images, saved, junit, tally, said>>

WriteTest ==
    /\ at = "session"
    /\ \/ saved' = {"test"} /\ Exit(0) /\ UNCHANGED said
       \/ Exit(1) /\ said' = said \cup {"output_failed"} /\ UNCHANGED saved
    /\ UNCHANGED <<cmd, apps, appChanges, executed, reply, images, junit, recording, tally>>

----------------------------------------------------------------------------
(* cmd_doctor: the project first, then the running app, if there is one. *)
Count(passes, failures, warnings) ==
    [pass |-> tally.pass + passes, fail |-> tally.fail + failures, warn |-> tally.warn + warnings]

One(b) == IF b THEN 1 ELSE 0

(* A project with no capabilities directory is not told about the missing grant. *)
GrantPasses(f) == f.grant \in {"file", "runtime"}
GrantWarns(f) == f.grant \in {"some", "none"}

CheckProject ==
    /\ at = "start"
    /\ cmd.name = "doctor"
    /\ LET f == cmd.facts IN
       IF ~f.manifest
       THEN tally' = Count(0, 1, 0) /\ Exit(1)
       ELSE /\ tally' = Count(1 + One(f.tauri) + One(f.plugin) + One(f.tests) + One(f.wired) + One(GrantPasses(f)),
                              One(~f.tauri) + One(~f.plugin) + One(~f.wired),
                              One(~f.tests) + One(GrantWarns(f)))
            /\ at' = "server"
            /\ UNCHANGED code
    /\ UNCHANGED <<cmd, apps, appChanges, executed, reply, images, saved, junit, recording, said>>

CheckServer ==
    /\ at = "server"
    /\ IF apps = 1 THEN at' = "probes" /\ tally' = Count(1, 0, 0) /\ UNCHANGED said
       ELSE /\ at' = "summary"
            /\ tally' = Count(0, 0, One(apps = 2))
            /\ said' = IF apps = 0 THEN said \cup {"skipped"} ELSE said
    /\ UNCHANGED <<cmd, apps, appChanges, executed, reply, images, saved, junit, recording, code>>

(* Plugin info, the bridge, a snapshot, IPC: whether each answers.  Without the grant the *)
(* page cannot.                                                                           *)
Probe(info, page, healthy) ==
    /\ at = "probes"
    /\ apps = 0 => ~info /\ ~page
    /\ cmd.facts.grant \in {"none", "no_directory"} => ~page
    /\ tally' = Count(One(info) + 2 * One(page) + One(page /\ healthy),
                      One(~info) + 3 * One(~page), One(page /\ ~healthy))
    /\ at' = "summary"
    /\ UNCHANGED <<cmd, apps, appChanges, executed, reply, images, saved, junit, recording, said, code>>

Summarise ==
    /\ at = "summary"
    /\ said' = said \cup {IF tally.fail = 0 /\ tally.warn = 0 THEN "looks_good"
                          ELSE IF tally.fail = 0 THEN "functional" ELSE "needs_attention"}
    /\ Exit(One(tally.fail > 0))
    /\ UNCHANGED <<cmd, apps, appChanges, executed, reply, images, saved, junit, recording, tally>>

CliNext ==
    \/ AppChanges \/ RefuseUsage \/ FindApp
    \/ CallOnce \/ ToolFailed \/ SaveImage \/ AllSaved \/ ListTools \/ PrintResult
    \/ RunSuite \/ WriteReport \/ NoReport \/ ExitWithVerdict
    \/ StartRecording \/ StopRecording \/ WriteTest
    \/ CheckProject \/ CheckServer \/ Summarise
    \/ \E info, page, healthy \in BOOLEAN : Probe(info, page, healthy)

CliSpec == CliInit /\ [][CliNext]_cliVars

----------------------------------------------------------------------------
(* `victauri call`: 0 says the tool ran once, without error, and everything asked for is *)
(* on disk; 1 that the app answered with an error; 2 that nothing ran, unless only the   *)
(* output failed; so a script may repeat a call after 2 and must look first after 3.     *)
CallCodes ==
    cmd.name = "call" /\ code # Unset =>
        /\ code = 0 => executed = 1 /\ reply = "ok" /\ (cmd.out = "file" => saved = 1..images)
        /\ code = EXIT_TOOL_ERROR => reply \in {"error", "undecodable", "refused"}
        /\ code = EXIT_USAGE => executed = 0 \/ "output_failed" \in said
        /\ reply = "lost" => code = EXIT_OUTCOME_UNKNOWN

(* `test` and `coverage`: success means a suite that ran to its end and passed, and a    *)
(* report on disk never disagrees with the code.                                         *)
SuiteCodes ==
    cmd.name \in {"test", "coverage"} /\ code # Unset =>
        /\ code = 0 => reply # Unset /\ Verdict /\ (cmd.junit => junit = TRUE)
        /\ junit = FALSE => code = 1

(* `record`: success means the test is on disk and nothing is left recording; `doctor`:  *)
(* success means nothing it looks at is missing, and "looks_good" that the page could be *)
(* reached too, unless the server was not running.                                       *)
OtherCodes ==
    /\ cmd.name = "record" /\ code = 0 => saved = {"test"} /\ ~recording
    /\ cmd.name = "doctor" /\ code = 0 =>
         LET f == cmd.facts IN
         /\ f.manifest /\ f.tauri /\ f.plugin /\ f.wired
         /\ "looks_good" \in said => GrantPasses(f) \/ "skipped" \in said

(* What a finished command tells its caller is true of what happened, whenever the app   *)
(* started, died or stopped answering meanwhile (victauri-cli main.rs, call.rs).         *)
VerdictsAreTrue == CallCodes /\ SuiteCodes /\ OtherCodes
============================================================================
