---------------------------- MODULE ProjectSetup ----------------------------
(***************************************************************************)
(* victauri init and victauri setup on one project.  init adds the          *)
(* dependencies, wires the plugin into the source, grants the capability,   *)
(* generates tests and a workflow, and then does what setup does: it merges *)
(* the server into the configuration of each client and adds instructions.  *)
(* A command may be killed at any point, between the two halves of a write  *)
(* too, and is simply run again, with the same options or with others.      *)
(***************************************************************************)
EXTENDS Integers, Sequences, FiniteSets

CONSTANTS Targets,     \* configuration files, in the order they are written
          UserLevel,   \* those of the user rather than of the project
          MaxCommands  \* bound: commands run

ASSUME ProjectSetupAssumption ==
  /\ Targets \in Seq({"claude", "codex", "windsurf"}) /\ MaxCommands \in Nat
  /\ UserLevel \subseteq {Targets[i] : i \in DOMAIN Targets}

VARIABLES manifest,  \* Cargo.toml
          source,    \* the file with the Tauri builder
          grant,     \* capabilities/victauri.json
          made,      \* the files init generates: tests and workflow
          config,    \* the configuration files
          docs,      \* the instruction files
          command,   \* the command that runs
          commands   \* commands run so far
setupVars == <<manifest, source, grant, made, config, docs, command, commands>>
projectFiles == <<manifest, source, grant, made, docs>>

Target == {Targets[i] : i \in DOMAIN Targets}
Made == {"smoke", "integration", "workflow"}
Docs == {"CLAUDE.md", "SKILL.md"}

Absent == [text |-> "absent", entry |-> "none", link |-> FALSE, locked |-> FALSE,
           user |-> FALSE]
Idle == [kind |-> "none", at |-> "idle", optional |-> FALSE, feature |-> FALSE, dry |-> FALSE,
         next |-> 1, status |-> [t \in Target |-> "none"], temp |-> FALSE, exit |-> "none"]

(* What the user may have before the first command: `text' is "json" for a  *)
(* configuration that can be merged into and "other" for one that cannot.   *)
UserConfigs ==
  {Absent} \cup
  {c \in [text: {"json", "other"}, entry: {"none", "bridge", "foreign", "pinned", "own"},
          link: BOOLEAN, locked: BOOLEAN, user: {TRUE}] :
     /\ c.text = "other" => c.entry = "none"
     /\ Cardinality({x \in {"t", "e", "k", "l"} :
          CASE x = "t" -> c.text = "other" [] x = "e" -> c.entry # "none"
            [] x = "k" -> c.link [] x = "l" -> c.locked}) <= 1}

SetupInit ==
  /\ manifest \in {m \in [plugin: {"absent", "ordinary", "optional"},
                          core: {"absent", "ordinary", "optional"},
                          turnsOn: SUBSET {"plugin", "core"}, text: {"whole"}] :
       /\ "plugin" \in m.turnsOn => m.plugin = "optional"
       /\ "core" \in m.turnsOn => m.core = "optional" /\ "plugin" \in m.turnsOn}
  /\ source \in [builder: {"chain", "oneline", "none"}, wiring: {"none"}, text: {"whole"}]
  /\ grant \in {"absent"} /\ made \in [Made -> {"absent"}]
  /\ config \in [Target -> UserConfigs]
  /\ docs = [d \in Docs |-> [text |-> "absent", blocks |-> 0]]
  /\ command = Idle /\ commands = 0
-----------------------------------------------------------------------------
(* The command starts: every path of the project is checked before anything *)
(* is written, and a link among them ends the command.                      *)
check_project_paths == \A t \in Target \ UserLevel : ~config[t].link

StartCommand(kind, optional, dry) ==
  /\ command.at = "idle" /\ commands < MaxCommands
  /\ kind = "setup" => ~optional
  /\ kind = "init" => ~dry
  /\ commands' = commands + 1
  /\ command' = IF ~check_project_paths THEN [Idle EXCEPT !.exit = "failed"]
                ELSE [Idle EXCEPT !.kind = kind, !.optional = optional, !.dry = dry,
                                  !.at = IF kind = "init" THEN "dependencies" ELSE "configs"]
  /\ UNCHANGED <<projectFiles, config>>

Goto(at) == command' = [command EXCEPT !.at = at]
Fails == command' = [Idle EXCEPT !.exit = "failed"]

(* add_dependencies: what the manifest should be.  Whether the rest is      *)
(* behind a feature follows from what the manifest says of the plugin, and  *)
(* not from the flag, unless the plugin is added now.                       *)
WithDependencies(m, optional) ==
  LET plugin == IF m.plugin # "absent" THEN m.plugin
                ELSE IF optional THEN "optional" ELSE "ordinary"
      gated == plugin = "optional"
      added == m.core = "absent"
      core == IF ~added THEN m.core ELSE IF gated THEN "optional" ELSE "ordinary"
      on == IF ~gated THEN m.turnsOn
            ELSE IF "plugin" \in m.turnsOn
            THEN m.turnsOn \cup (IF added THEN {"core"} ELSE {})
            ELSE m.turnsOn \cup {"plugin"} \cup (IF core = "optional" THEN {"core"} ELSE {})
  IN [m EXCEPT !.plugin = plugin, !.core = core, !.turnsOn = on]

(* A manifest that a killed command left without any text parses, as one    *)
(* that declares nothing; half a text does not parse.                       *)
Emptied == [plugin |-> "absent", core |-> "absent", turnsOn |-> {}, text |-> "torn"]
AddDependencies ==
  /\ command.at = "dependencies"
  /\ \/ manifest.text = "torn" /\ Fails /\ UNCHANGED manifest
     \/ manifest.text = "torn" /\ Goto("writes manifest") /\ manifest' = Emptied
     \/ /\ manifest.text = "whole"
        /\ IF WithDependencies(manifest, command.optional) = manifest
           THEN Goto("feature") /\ UNCHANGED manifest
           ELSE Goto("writes manifest") /\ manifest' = [manifest EXCEPT !.text = "torn"]
  /\ UNCHANGED <<source, grant, made, docs, config, commands>>
ManifestWritten ==
  /\ command.at = "writes manifest"
  /\ manifest' = [WithDependencies(manifest, command.optional) EXCEPT !.text = "whole"]
  /\ Goto("feature")
  /\ UNCHANGED <<source, grant, made, docs, config, commands>>

(* Later steps follow what the manifest really is.  The first is a mistaken *)
(* version, which follows the flag.                                         *)
FollowsTheFlag == command' = [command EXCEPT !.at = "wiring", !.feature = command.optional]
project_victauri_feature ==
  command' = [command EXCEPT !.at = "wiring", !.feature = manifest.plugin = "optional"]
ReadFeature ==
  /\ command.at = "feature" /\ project_victauri_feature
  /\ UNCHANGED <<projectFiles, config, commands>>

(* try_patch_tauri_builder.  A plain line fits only into a chain; the gated *)
(* wrapper fits around any single builder.                                  *)
try_patch_tauri_builder ==
  /\ command.at = "wiring"
  /\ LET fits == IF command.feature THEN source.builder # "none" ELSE source.builder = "chain"
     IN IF source.text = "torn" \/ source.wiring # "none" \/ ~fits
        THEN Goto("capability") /\ UNCHANGED source
        ELSE Goto("writes source") /\ source' = [source EXCEPT !.text = "torn"]
  /\ UNCHANGED <<manifest, grant, made, docs, config, commands>>
SourceWritten ==
  /\ command.at = "writes source"
  /\ source' = [source EXCEPT !.text = "whole",
                              !.wiring = IF command.feature THEN "gated" ELSE "plain"]
  /\ Goto("capability")
  /\ UNCHANGED <<manifest, grant, made, docs, config, commands>>

(* A capability file only where nothing is gated; whatever is there is kept. *)
GrantCapability ==
  /\ command.at = "capability"
  /\ \/ /\ command.feature \/ grant # "absent"
        /\ command' = [command EXCEPT !.at = "files", !.next = 1] /\ UNCHANGED grant
     \/ /\ ~command.feature /\ grant = "absent"
        /\ grant' = "torn" /\ Goto("writes capability")
  /\ UNCHANGED <<manifest, source, made, docs, config, commands>>
CapabilityWritten ==
  /\ command.at = "writes capability"
  /\ grant' = "whole" /\ command' = [command EXCEPT !.at = "files", !.next = 1]
  /\ UNCHANGED <<manifest, source, made, docs, config, commands>>

(* Tests and workflow, each created only where there is none.               *)
TestFiles == <<"smoke", "integration", "workflow">>
GenerateFiles ==
  /\ command.at = "files"
  /\ IF command.next > Len(TestFiles)
     THEN command' = [command EXCEPT !.at = "configs", !.next = 1] /\ UNCHANGED made
     ELSE IF made[TestFiles[command.next]] # "absent"
     THEN command' = [command EXCEPT !.next = @ + 1] /\ UNCHANGED made
     ELSE made' = [made EXCEPT ![TestFiles[command.next]] = "torn"] /\ Goto("writes file")
  /\ UNCHANGED <<manifest, source, grant, docs, config, commands>>
FileWritten ==
  /\ command.at = "writes file"
  /\ made' = [made EXCEPT ![TestFiles[command.next]] = "whole"]
  /\ command' = [command EXCEPT !.at = "files", !.next = @ + 1]
  /\ UNCHANGED <<manifest, source, grant, docs, config, commands>>
-----------------------------------------------------------------------------
(* apply_config: the entry is merged into the text of the file, which is    *)
(* then replaced as a whole, through a temporary file.                      *)
Now == Targets[command.next]

(* An entry that does not run the bridge, or not as it is; and one pinned   *)
(* to another application, where the product name is as good as the         *)
(* identifier.                                                              *)
unexpected_command(entry) == entry = "foreign"
other_pin(entry) == entry = "pinned"

MergeStatus(c) ==
  CASE c.text = "other" -> "skipped"
    [] c.text # "other" /\ c.entry # "none" ->
         IF unexpected_command(c.entry) \/ other_pin(c.entry) THEN "unexpected" ELSE "unchanged"
    [] c.text # "other" /\ c.entry = "none" -> "write"

Report(status) ==
  command' = [command EXCEPT !.status[Now] = status, !.next = @ + 1, !.at = "configs",
                             !.temp = FALSE]

apply_config ==
  /\ command.at = "configs" /\ command.next <= Len(Targets)
  /\ LET c == config[Now] IN
     CASE c.link -> Report("skipped")
       [] ~c.link /\ MergeStatus(c) # "write" -> Report(MergeStatus(c))
       [] ~c.link /\ MergeStatus(c) = "write" ->
            IF command.dry THEN Report("written")
            ELSE IF c.locked THEN Report("skipped")
            ELSE command' = [command EXCEPT !.at = "writes config", !.temp = TRUE]
  /\ UNCHANGED <<projectFiles, config, commands>>

(* write_atomically: the temporary file is complete, and takes its place.   *)
(* The first is a mistaken version, which writes the file in place.         *)
Merged(c) == [c EXCEPT !.text = "json",
                       !.entry = IF Now \in UserLevel THEN "bridge" ELSE "own"]
WritesInPlace(c) == IF command.temp THEN [c EXCEPT !.text = "torn", !.user = FALSE] ELSE Merged(c)
Replaced(c) == IF command.temp THEN c ELSE Merged(c)
write_atomically ==
  /\ command.at = "writes config"
  /\ config' = [config EXCEPT ![Now] = Replaced(@)]
  /\ IF command.temp THEN command' = [command EXCEPT !.temp = FALSE] ELSE Report("written")
  /\ UNCHANGED <<projectFiles, commands>>

(* The file cannot be written after all: reported, and the run goes on.     *)
WriteFails ==
  /\ command.at = "writes config" /\ command.temp
  /\ Report("skipped")
  /\ UNCHANGED <<projectFiles, config, commands>>

(* apply_marker_block and apply_new_file: one block, once.                  *)
DocOrder == <<"CLAUDE.md", "SKILL.md">>
StartDocs ==
  /\ command.at = "configs" /\ command.next > Len(Targets)
  /\ command' = [command EXCEPT !.at = "docs", !.next = 1]
  /\ UNCHANGED <<projectFiles, config, commands>>
Instruct ==
  /\ command.at = "docs" /\ command.next <= Len(DocOrder)
  /\ LET d == DocOrder[command.next]
         there == IF d = "SKILL.md" THEN docs[d].text # "absent" ELSE docs[d].blocks > 0
     IN docs' = IF there \/ command.dry THEN docs
                ELSE [docs EXCEPT ![d].text = "whole", ![d].blocks = @ + 1]
  /\ command' = [command EXCEPT !.next = @ + 1]
  /\ UNCHANGED <<manifest, source, grant, made, config, commands>>

(* init prints its reports; setup fails for an entry that does not reach    *)
(* this application, and for a file that could not be written.              *)
SetupFails == {t \in Target : command.status[t] \in {"unexpected", "skipped"}} # {}
Finish ==
  /\ command.at = "docs" /\ command.next > Len(DocOrder)
  /\ command' = [command EXCEPT !.at = "idle",
       !.exit = IF command.kind = "setup" /\ ~command.dry /\ SetupFails THEN "failed" ELSE "ok"]
  /\ UNCHANGED <<projectFiles, config, commands>>
-----------------------------------------------------------------------------
(* The command is killed, or the machine stops: what was being written in   *)
(* place stays as it is.  Versioned files are then put back by the user.    *)
Killed ==
  /\ command.at # "idle"
  /\ command' = [Idle EXCEPT !.exit = "killed"]
  /\ UNCHANGED <<projectFiles, config, commands>>
UserRestores ==
  /\ command.at = "idle" /\ (manifest.text = "torn" \/ source.text = "torn")
  /\ manifest' = [manifest EXCEPT !.text = "whole"] /\ source' = [source EXCEPT !.text = "whole"]
  /\ UNCHANGED <<grant, made, docs, config, command, commands>>
(* Between commands the user makes the builder a chain, or opens a file.    *)
UserEdits ==
  /\ command.at = "idle"
  /\ \/ source.builder # "chain" /\ source.wiring = "none"
        /\ source' = [source EXCEPT !.builder = "chain"] /\ UNCHANGED config
     \/ \E t \in Target : config[t].locked /\ config' = [config EXCEPT ![t].locked = FALSE]
          /\ UNCHANGED source
  /\ command' = [command EXCEPT !.exit = "none"]
  /\ UNCHANGED <<manifest, grant, made, docs, commands>>

SetupNext ==
  \/ \E kind \in {"init", "setup"}, optional, dry \in BOOLEAN : StartCommand(kind, optional, dry)
  \/ AddDependencies \/ ManifestWritten \/ ReadFeature
  \/ try_patch_tauri_builder \/ SourceWritten \/ GrantCapability \/ CapabilityWritten
  \/ GenerateFiles \/ FileWritten \/ apply_config \/ write_atomically \/ WriteFails
  \/ StartDocs \/ Instruct \/ Finish \/ Killed \/ UserRestores \/ UserEdits

SetupSpec == SetupInit /\ [][SetupNext]_setupVars
-----------------------------------------------------------------------------
(* Whatever the flags of the commands run one after the other, and wherever *)
(* they were killed, what init writes fits the manifest: the wiring is      *)
(* gated exactly when the plugin is optional, there is no capability file   *)
(* beside a gated plugin (it would break every build without the feature),  *)
(* and a core that init added is gated like the plugin, by a feature that   *)
(* turns on both.                                                           *)
GatingIsConsistent ==
  manifest.text = "whole" /\ source.text = "whole" =>
    /\ source.wiring # "none" => (source.wiring = "gated") = (manifest.plugin = "optional")
    /\ grant # "absent" => manifest.plugin = "ordinary"
    /\ source.wiring = "gated" => "plugin" \in manifest.turnsOn

(* What the user has in a configuration survives every command, killed ones *)
(* and ones that could not write included, and an entry of the user's own   *)
(* is never replaced.                                                       *)
ConfigsSurvive ==
  [][\A t \in Target :
       /\ config[t].user => config'[t].user /\ config'[t].text # "torn"
       /\ config[t].entry # "none" => config'[t].entry = config[t].entry]_setupVars

(* A setup that reports success has left every client it was asked for with *)
(* an entry that reaches this application.                                  *)
SuccessReachesTheApp ==
  command.kind = "setup" /\ command.exit = "ok" /\ ~command.dry =>
    \A t \in Target : config[t].entry \in {"bridge", "own"}

(* Together: a project that init or setup has worked on builds with and     *)
(* without the feature, and a reported success is one.                      *)
SetupIsSound == GatingIsConsistent /\ SuccessReachesTheApp
=============================================================================
