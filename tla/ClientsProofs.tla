--------------------------- MODULE ClientsProofs ----------------------------
(***************************************************************************)
(* What is proved of the programs outside the application: the commands    *)
(* that set a project up, the verdicts of the others, and how a client     *)
(* finds the application it was made for.                                  *)
(***************************************************************************)
EXTENDS CliVerdicts, ProjectSetup, Rendezvous, FiniteSetTheorems, SequenceTheorems,
        NaturalsInduction, WellFoundedInduction, TLAPS

(***************************************************************************)
(* SetupIsSound and ConfigsSurvive for any list of configurations.         *)
(* Whatever is wired or granted stands beside a complete manifest and      *)
(* agrees with it about the feature (GatingInv); init only ever leaves a   *)
(* complete manifest as it is, and what it read of it is still so when it  *)
(* writes. Of the configurations a setup has been at, each reaches the     *)
(* application or is reported (ConfigInv): those before the one in hand,   *)
(* and all of them once it prints its instructions.                        *)
(***************************************************************************)

Stages == {"idle", "dependencies", "writes manifest", "feature", "wiring", "writes source",
           "capability", "writes capability", "files", "writes file", "configs",
           "writes config", "docs"}
Outcomes == {"none", "written", "unchanged", "skipped", "unexpected"}
Manifests == [plugin : {"absent", "ordinary", "optional"}, core : {"absent", "ordinary", "optional"},
              turnsOn : SUBSET {"plugin", "core"}, text : {"whole", "torn"}]
SourceFiles == [builder : {"chain", "oneline", "none"}, wiring : {"none", "plain", "gated"},
            text : {"whole", "torn"}]
Configs == [text : {"absent", "json", "other"}, entry : {"none", "bridge", "foreign", "pinned", "own"},
            link : BOOLEAN, locked : BOOLEAN, user : BOOLEAN]
Places == Nat \ {0}
SetupCommands == [kind : {"none", "init", "setup"}, at : Stages, optional : BOOLEAN, feature : BOOLEAN,
           dry : BOOLEAN, next : Places, status : [Target -> Outcomes], temp : BOOLEAN,
           exit : {"none", "ok", "failed", "killed"}]

SetupTypeOK ==
  /\ manifest \in Manifests /\ source \in SourceFiles
  /\ config \in [Target -> Configs] /\ command \in SetupCommands

(* A manifest that has all that init adds. *)
Complete(m) ==
  /\ m.text = "whole" /\ m.plugin # "absent" /\ m.core # "absent"
  /\ m.plugin = "optional" => "plugin" \in m.turnsOn

(* init goes on from the manifest only when that is complete, and wires and grants by what *)
(* it then reads of it.                                                                     *)
FollowsManifest == {"wiring", "writes source", "capability", "writes capability"}
GatingInv ==
  /\ source.wiring # "none" \/ grant # "absent" \/ command.at \in FollowsManifest \cup {"feature"}
       => Complete(manifest)
  /\ command.at \in FollowsManifest => command.feature = (manifest.plugin = "optional")
  /\ command.at = "writes capability" => ~command.feature
  /\ command.at = "writes manifest" => manifest.text = "torn"
  /\ source.wiring # "none" => (source.wiring = "gated") = (manifest.plugin = "optional")
  /\ grant # "absent" => manifest.plugin = "ordinary"

(* A configuration that setup has been at reaches the application, or is reported. *)
ReachesTheApp(t) == config[t].entry \in {"bridge", "own"}
Served(t) == command.status[t] \in {"unexpected", "skipped"} \/ ReachesTheApp(t)
ConfigInv ==
  /\ command.at = "writes config" =>
       command.next \in DOMAIN Targets /\ config[Now].entry = "none" /\ ~command.dry
  /\ command.exit = "ok" => command.at = "idle"
  /\ command.kind = "setup" => command.at \in {"configs", "writes config", "docs", "idle"}
  /\ command.kind = "setup" /\ ~command.dry =>
       /\ command.at \in {"configs", "writes config"} =>
            \A i \in DOMAIN Targets : i < command.next => Served(Targets[i])
       /\ command.at = "docs" => \A t \in Target : Served(t)
       /\ command.exit = "ok" => \A t \in Target : ReachesTheApp(t)

SetupInv == SetupTypeOK /\ GatingInv /\ ConfigInv

LEMMA PositionsGoOn ==
  /\ 1 \in Places /\ \A n \in Places : n + 1 \in Places /\ n \in Nat /\ n >= 1
BY DEF Places

LEMMA PositionIsOne ==
  ASSUME command \in SetupCommands
  PROVE  command.next \in Places /\ command.next \in Int /\ command.next >= 1
<1>1. command.next \in Places
  BY DEF SetupCommands
<1> QED BY <1>1, PositionsGoOn

LEMMA TargetsAreNumbered ==
  /\ DOMAIN Targets = 1..Len(Targets) /\ Len(Targets) \in Nat
  /\ \A i \in DOMAIN Targets : i \in Int /\ i >= 1
BY ProjectSetupAssumption

LEMMA Earlier == \A i, n \in Int : i < n + 1 /\ i # n => i < n
OBVIOUS

LEMMA IdleIsAnOrder ==
  /\ Idle \in SetupCommands /\ \A x \in {"none", "ok", "failed", "killed"} : [Idle EXCEPT !.exit = x] \in SetupCommands
  /\ Idle.at = "idle" /\ Idle.kind = "none" /\ Idle.exit = "none"
<1> DEFINE none == [t \in Target |-> "none"]
<1>1. none \in [Target -> Outcomes]
  BY DEF Outcomes
<1> HIDE DEF none
<1>2. Idle = [kind |-> "none", at |-> "idle", optional |-> FALSE, feature |-> FALSE, dry |-> FALSE,
         next |-> 1, status |-> none, temp |-> FALSE, exit |-> "none"]
  BY DEF Idle, none
<1> QED BY <1>1, <1>2, PositionsGoOn DEF SetupCommands, Stages

LEMMA SetupStarts == SetupInit => SetupInv
<1> SUFFICES ASSUME SetupInit PROVE SetupInv
  OBVIOUS
<1>1. SetupTypeOK
  <2>1. manifest \in Manifests /\ source \in SourceFiles
    BY DEF SetupInit, Manifests, SourceFiles
  <2>2. UserConfigs \subseteq Configs
    <3>1. Absent \in Configs
      BY DEF Configs, Absent
    <3>2. [text: {"json", "other"}, entry: {"none", "bridge", "foreign", "pinned", "own"},
           link: BOOLEAN, locked: BOOLEAN, user: {TRUE}] \subseteq Configs
      BY DEF Configs
    <3> QED BY <3>1, <3>2, Zenon DEF UserConfigs
  <2>3. config \in [Target -> Configs] /\ command \in SetupCommands
    BY <2>2, IdleIsAnOrder DEF SetupInit
  <2> QED BY <2>1, <2>3 DEF SetupTypeOK
<1>2. source.wiring = "none" /\ grant = "absent"
  BY DEF SetupInit
<1>3. GatingInv /\ ConfigInv
  BY <1>2, IdleIsAnOrder DEF SetupInit, GatingInv, ConfigInv, FollowsManifest
<1> QED BY <1>1, <1>3 DEF SetupInv

(* What init makes of a manifest is complete, and a complete one it leaves alone. *)
LEMMA DependenciesComplete ==
  ASSUME NEW m \in Manifests, NEW optional \in BOOLEAN
  PROVE  /\ WithDependencies(m, optional) \in Manifests
         /\ Complete([WithDependencies(m, optional) EXCEPT !.text = "whole"])
         /\ WithDependencies(m, optional).text = m.text
         /\ Complete(m) => WithDependencies(m, optional) = m
<1>1. /\ WithDependencies(m, optional) \in Manifests
      /\ Complete([WithDependencies(m, optional) EXCEPT !.text = "whole"])
      /\ WithDependencies(m, optional).text = m.text
  BY DEF Manifests, WithDependencies, Complete
<1>2. ASSUME Complete(m) PROVE WithDependencies(m, optional) = m
  BY <1>2 DEF Manifests, WithDependencies, Complete
<1> QED BY <1>1, <1>2


(***************************************************************************)
(* The steps. *)

LEMMA GoingOn ==
  ASSUME command \in SetupCommands, NEW place \in Stages, command' = [command EXCEPT !.at = place]
  PROVE  /\ command' \in SetupCommands /\ command'.at = place
         /\ command'.kind = command.kind /\ command'.optional = command.optional
         /\ command'.feature = command.feature /\ command'.dry = command.dry
         /\ command'.next = command.next /\ command'.status = command.status
         /\ command'.exit = command.exit /\ command'.temp = command.temp
BY DEF SetupCommands

LEMMA StartKeepsIt ==
  ASSUME SetupInv, NEW kind \in {"init", "setup"}, NEW optional \in BOOLEAN, NEW dry \in BOOLEAN,
         StartCommand(kind, optional, dry)
  PROVE  SetupInv'
<1> USE DEF SetupInv
<1>1. CASE check_project_paths
  <2>1. command' = [Idle EXCEPT !.kind = kind, !.optional = optional, !.dry = dry,
                                !.at = IF kind = "init" THEN "dependencies" ELSE "configs"]
    BY <1>1 DEF StartCommand
  <2>2. /\ command' \in SetupCommands /\ command'.exit = "none" /\ command'.kind = kind
        /\ command'.at = (IF kind = "init" THEN "dependencies" ELSE "configs")
        /\ command'.next = 1
    <3> DEFINE none == [t \in Target |-> "none"]
    <3>1. none \in [Target -> Outcomes]
      BY DEF Outcomes
    <3> HIDE DEF none
    <3>2. Idle = [kind |-> "none", at |-> "idle", optional |-> FALSE, feature |-> FALSE, dry |-> FALSE,
             next |-> 1, status |-> none, temp |-> FALSE, exit |-> "none"]
      BY DEF Idle, none
    <3> QED BY <2>1, <3>1, <3>2, PositionsGoOn DEF SetupCommands, Stages
  <2>3. UNCHANGED <<manifest, source, grant, config>>
    BY DEF StartCommand, projectFiles
  <2>4. SetupTypeOK'
    BY <2>2, <2>3 DEF SetupTypeOK
  <2>5. GatingInv'
    BY <2>2, <2>3 DEF GatingInv, FollowsManifest, Complete
  <2>6. \A i \in DOMAIN Targets : ~(i < 1)
    BY TargetsAreNumbered
  <2>7. ConfigInv'
    BY <2>2, <2>3, <2>6 DEF ConfigInv
  <2> QED BY <2>4, <2>5, <2>7
<1>2. CASE ~check_project_paths
  <2>1. command' = [Idle EXCEPT !.exit = "failed"]
    BY <1>2 DEF StartCommand
  <2>2. command' \in SetupCommands /\ command'.exit = "failed" /\ command'.kind = "none"
        /\ command'.at = "idle"
    BY <2>1, IdleIsAnOrder DEF Idle
  <2>3. SetupTypeOK'
    BY <2>2 DEF SetupTypeOK, StartCommand, projectFiles
  <2>4. GatingInv'
    BY <2>2 DEF GatingInv, StartCommand, projectFiles, FollowsManifest, Complete
  <2>5. ConfigInv'
    BY <2>2 DEF ConfigInv
  <2> QED BY <2>3, <2>4, <2>5
<1> QED BY <1>1, <1>2

LEMMA KilledKeepsIt ==
  ASSUME SetupInv, NEW x \in {"failed", "killed"}, command' = [Idle EXCEPT !.exit = x],
         UNCHANGED <<source, grant, config>>, manifest' \in Manifests,
         Complete(manifest) => manifest' = manifest
  PROVE  SetupInv'
<1> USE DEF SetupInv
<1>1. command' \in SetupCommands /\ command'.exit = x /\ command'.kind = "none" /\ command'.at = "idle"
  BY IdleIsAnOrder DEF Idle
<1>2. SetupTypeOK'
  BY <1>1 DEF SetupTypeOK
<1>3. GatingInv'
  BY <1>1 DEF GatingInv, FollowsManifest, Complete
<1>4. ConfigInv'
  BY <1>1 DEF ConfigInv
<1> QED BY <1>2, <1>3, <1>4

(* A step that only goes on, outside the writing of configurations. *)
Moves ==
  /\ command' \in SetupCommands /\ config' = config
  /\ command'.kind = command.kind /\ command'.dry = command.dry
  /\ command'.exit = command.exit
Aside == {"dependencies", "writes manifest", "feature", "wiring", "writes source",
          "capability", "writes capability", "files", "writes file"}

LEMMA AsideKeepsConfigs ==
  ASSUME ConfigInv, Moves, command.at \in Aside, command'.at \in Aside
  PROVE  ConfigInv'
BY DEF ConfigInv, Moves, Aside

LEMMA AddDependenciesKeepsIt == SetupInv /\ AddDependencies => SetupInv'
<1> SUFFICES ASSUME SetupInv, AddDependencies PROVE SetupInv'
  OBVIOUS
<1> USE DEF SetupInv
<1>1. manifest \in Manifests /\ command \in SetupCommands /\ command.optional \in BOOLEAN
  BY DEF SetupTypeOK, SetupCommands
<1>2. CASE Fails /\ UNCHANGED manifest
  BY <1>1, <1>2, KilledKeepsIt DEF AddDependencies, Fails
<1>3. CASE manifest.text = "torn" /\ Goto("writes manifest") /\ manifest' = Emptied
  <2>1. command' \in SetupCommands /\ Moves /\ command'.at = "writes manifest"
    BY <1>1, <1>3, GoingOn DEF Goto, Moves, AddDependencies, Stages
  <2>2. Emptied \in Manifests /\ Emptied.text = "torn"
    BY DEF Emptied, Manifests
  <2>3. SetupTypeOK'
    BY <1>3, <2>1, <2>2 DEF SetupTypeOK, AddDependencies
  <2>4. GatingInv'
    BY <1>3, <2>1, <2>2 DEF GatingInv, AddDependencies, FollowsManifest, Complete
  <2>5. ConfigInv'
    BY <2>1, AsideKeepsConfigs DEF AddDependencies, Aside
  <2> QED BY <2>3, <2>4, <2>5
<1>4. CASE manifest.text = "whole" /\ WithDependencies(manifest, command.optional) = manifest
  <2>1. Goto("feature") /\ UNCHANGED manifest /\ UNCHANGED <<source, grant, config>>
        /\ command.at = "dependencies"
    BY <1>4, <1>1 DEF AddDependencies, Manifests
  <2>2. command' \in SetupCommands /\ Moves /\ command'.at = "feature"
    BY <1>1, <2>1, GoingOn DEF Goto, Moves, Stages
  <2>3. Complete(manifest)
    BY <1>1, <1>4, DependenciesComplete DEF Complete, Manifests
  <2>4. SetupTypeOK'
    BY <2>1, <2>2 DEF SetupTypeOK
  <2>5. GatingInv'
    BY <2>1, <2>2, <2>3 DEF GatingInv, FollowsManifest, Complete
  <2>6. ConfigInv'
    BY <2>1, <2>2, AsideKeepsConfigs DEF Aside
  <2> QED BY <2>4, <2>5, <2>6
<1>5. CASE manifest.text = "whole" /\ WithDependencies(manifest, command.optional) # manifest
  <2>1. Goto("writes manifest") /\ manifest' = [manifest EXCEPT !.text = "torn"]
        /\ UNCHANGED <<source, grant, config>> /\ command.at = "dependencies"
    BY <1>5, <1>1 DEF AddDependencies, Manifests
  <2>2. command' \in SetupCommands /\ Moves /\ command'.at = "writes manifest"
    BY <1>1, <2>1, GoingOn DEF Goto, Moves, Stages
  <2>3. ~Complete(manifest)
    BY <1>1, <1>5, DependenciesComplete
  <2>4. manifest' \in Manifests /\ manifest'.text = "torn"
    BY <1>1, <2>1 DEF Manifests
  <2>5. SetupTypeOK'
    BY <2>1, <2>2, <2>4 DEF SetupTypeOK
  <2>6. GatingInv'
    BY <2>1, <2>2, <2>3, <2>4 DEF GatingInv, FollowsManifest
  <2>7. ConfigInv'
    BY <2>1, <2>2, AsideKeepsConfigs DEF Aside
  <2> QED BY <2>5, <2>6, <2>7
<1> QED BY <1>1, <1>2, <1>3, <1>4, <1>5 DEF AddDependencies

LEMMA ManifestWrittenKeepsIt == SetupInv /\ ManifestWritten => SetupInv'
<1> SUFFICES ASSUME SetupInv, ManifestWritten PROVE SetupInv'
  OBVIOUS
<1> USE DEF SetupInv
<1>1. manifest \in Manifests /\ command \in SetupCommands /\ command.optional \in BOOLEAN
  BY DEF SetupTypeOK, SetupCommands
<1>2. Goto("feature") /\ UNCHANGED <<source, grant, config>> /\ command.at = "writes manifest"
      /\ manifest' = [WithDependencies(manifest, command.optional) EXCEPT !.text = "whole"]
  BY DEF ManifestWritten
<1>3. command' \in SetupCommands /\ Moves /\ command'.at = "feature"
  BY <1>1, <1>2, GoingOn DEF Goto, Moves, Stages
<1>4. manifest' \in Manifests /\ Complete(manifest')
  <2> DEFINE full == WithDependencies(manifest, command.optional)
  <2>1. full \in Manifests /\ Complete([full EXCEPT !.text = "whole"])
    BY <1>1, DependenciesComplete
  <2> HIDE DEF full
  <2>2. [full EXCEPT !.text = "whole"] \in Manifests
    BY <2>1 DEF Manifests
  <2> QED BY <1>2, <2>1, <2>2 DEF full
<1>5. source.wiring = "none" /\ grant = "absent"
  BY <1>2 DEF GatingInv, Complete
<1>6. SetupTypeOK'
  BY <1>2, <1>3, <1>4 DEF SetupTypeOK
<1>7. GatingInv'
  BY <1>2, <1>3, <1>4, <1>5 DEF GatingInv, FollowsManifest, Complete
<1>8. ConfigInv'
  BY <1>2, <1>3, AsideKeepsConfigs DEF Aside
<1> QED BY <1>6, <1>7, <1>8

LEMMA ReadFeatureKeepsIt == SetupInv /\ ReadFeature => SetupInv'
<1> SUFFICES ASSUME SetupInv, ReadFeature PROVE SetupInv'
  OBVIOUS
<1> USE DEF SetupInv
<1>1. UNCHANGED <<manifest, source, grant, config>> /\ command.at = "feature"
  BY DEF ReadFeature, projectFiles
<1>2. command' = [command EXCEPT !.at = "wiring", !.feature = manifest.plugin = "optional"]
  BY DEF ReadFeature, project_victauri_feature
<1>3. command' \in SetupCommands /\ Moves /\ command'.at = "wiring"
      /\ command'.feature = (manifest.plugin = "optional")
  BY <1>1, <1>2 DEF Moves, SetupCommands, SetupTypeOK, Stages
<1>4. SetupTypeOK'
  BY <1>1, <1>3 DEF SetupTypeOK
<1>5. GatingInv'
  BY <1>1, <1>3 DEF GatingInv, FollowsManifest, Complete
<1>6. ConfigInv'
  BY <1>1, <1>3, AsideKeepsConfigs DEF Aside
<1> QED BY <1>4, <1>5, <1>6

LEMMA WiringKeepsIt == SetupInv /\ (try_patch_tauri_builder \/ SourceWritten) => SetupInv'
<1> SUFFICES ASSUME SetupInv, try_patch_tauri_builder \/ SourceWritten PROVE SetupInv'
  OBVIOUS
<1> USE DEF SetupInv
<1>1. command \in SetupCommands /\ source \in SourceFiles /\ UNCHANGED <<manifest, grant, config>>
  BY DEF SetupTypeOK, try_patch_tauri_builder, SourceWritten
<1>2. CASE Goto("capability") /\ UNCHANGED source /\ command.at = "wiring"
  <2>1. command' \in SetupCommands /\ Moves /\ command'.at = "capability" /\ command'.feature = command.feature
    BY <1>1, <1>2, GoingOn DEF Goto, Moves, Stages
  <2>2. SetupTypeOK'
    BY <1>1, <1>2, <2>1 DEF SetupTypeOK
  <2>3. GatingInv'
    BY <1>1, <1>2, <2>1 DEF GatingInv, FollowsManifest, Complete
  <2>4. ConfigInv'
    BY <1>2, <2>1, AsideKeepsConfigs DEF Aside
  <2> QED BY <2>2, <2>3, <2>4
<1>3. CASE Goto("writes source") /\ source' = [source EXCEPT !.text = "torn"] /\ command.at = "wiring"
  <2>1. command' \in SetupCommands /\ Moves /\ command'.at = "writes source" /\ command'.feature = command.feature
    BY <1>1, <1>3, GoingOn DEF Goto, Moves, Stages
  <2>2. source' \in SourceFiles /\ source'.wiring = source.wiring
    BY <1>1, <1>3 DEF SourceFiles
  <2>3. SetupTypeOK'
    BY <1>1, <2>1, <2>2 DEF SetupTypeOK
  <2>4. GatingInv'
    BY <1>1, <1>3, <2>1, <2>2 DEF GatingInv, FollowsManifest, Complete
  <2>5. ConfigInv'
    BY <1>3, <2>1, AsideKeepsConfigs DEF Aside
  <2> QED BY <2>3, <2>4, <2>5
<1>4. CASE SourceWritten
  <2>1. command' \in SetupCommands /\ Moves /\ command'.at = "capability" /\ command'.feature = command.feature
        /\ command.at = "writes source"
    BY <1>1, <1>4, GoingOn DEF SourceWritten, Goto, Moves, Stages
  <2>2. source' \in SourceFiles /\ source'.wiring = IF command.feature THEN "gated" ELSE "plain"
    BY <1>1, <1>4 DEF SourceFiles, SourceWritten
  <2>3. SetupTypeOK'
    BY <1>1, <2>1, <2>2 DEF SetupTypeOK
  <2>4. GatingInv'
    BY <1>1, <2>1, <2>2 DEF GatingInv, FollowsManifest, Complete
  <2>5. ConfigInv'
    BY <2>1, AsideKeepsConfigs DEF Aside
  <2> QED BY <2>3, <2>4, <2>5
<1> QED BY <1>2, <1>3, <1>4 DEF try_patch_tauri_builder

LEMMA GrantKeepsIt == SetupInv /\ (GrantCapability \/ CapabilityWritten) => SetupInv'
<1> SUFFICES ASSUME SetupInv, GrantCapability \/ CapabilityWritten PROVE SetupInv'
  OBVIOUS
<1> USE DEF SetupInv
<1>1. command \in SetupCommands /\ UNCHANGED <<manifest, source, config>>
  BY DEF SetupTypeOK, GrantCapability, CapabilityWritten
<1>2. CASE command.at = "capability" /\ command' = [command EXCEPT !.at = "files", !.next = 1]
           /\ UNCHANGED grant
  <2>1. command' \in SetupCommands /\ Moves /\ command'.at = "files"
    BY <1>1, <1>2, PositionsGoOn DEF Moves, SetupCommands, Stages
  <2>2. SetupTypeOK'
    BY <1>1, <2>1 DEF SetupTypeOK
  <2>3. GatingInv'
    BY <1>1, <1>2, <2>1 DEF GatingInv, FollowsManifest, Complete
  <2>4. ConfigInv'
    BY <1>2, <2>1, AsideKeepsConfigs DEF Aside
  <2> QED BY <2>2, <2>3, <2>4
<1>3. CASE /\ command.at = "capability" /\ ~command.feature /\ grant' = "torn"
           /\ Goto("writes capability")
  <2>1. command' \in SetupCommands /\ Moves /\ command'.at = "writes capability"
        /\ command'.feature = command.feature
    BY <1>1, <1>3, GoingOn DEF Goto, Moves, Stages
  <2>2. Complete(manifest) /\ manifest.plugin = "ordinary"
    BY <1>1, <1>3 DEF GatingInv, FollowsManifest, Complete, SetupTypeOK, Manifests,
       SetupCommands
  <2>3. SetupTypeOK'
    BY <1>1, <2>1 DEF SetupTypeOK
  <2>4. GatingInv'
    BY <1>1, <1>3, <2>1, <2>2 DEF GatingInv, FollowsManifest, Complete
  <2>5. ConfigInv'
    BY <1>3, <2>1, AsideKeepsConfigs DEF Aside
  <2> QED BY <2>3, <2>4, <2>5
<1>4. CASE CapabilityWritten
  <2>1. command' \in SetupCommands /\ Moves /\ command'.at = "files" /\ command.at = "writes capability"
    BY <1>1, <1>4, PositionsGoOn DEF CapabilityWritten, Moves, SetupCommands, Stages
  <2>2. Complete(manifest) /\ manifest.plugin = "ordinary"
    BY <1>1, <2>1 DEF GatingInv, FollowsManifest, Complete, SetupTypeOK, Manifests,
       SetupCommands
  <2>3. SetupTypeOK'
    BY <1>1, <2>1 DEF SetupTypeOK
  <2>4. GatingInv'
    BY <1>1, <2>1, <2>2 DEF GatingInv, FollowsManifest, Complete
  <2>5. ConfigInv'
    BY <2>1, AsideKeepsConfigs DEF Aside
  <2> QED BY <2>3, <2>4, <2>5
<1> QED BY <1>2, <1>3, <1>4 DEF GrantCapability

LEMMA FilesKeepIt == SetupInv /\ (GenerateFiles \/ FileWritten) => SetupInv'
<1> SUFFICES ASSUME SetupInv, GenerateFiles \/ FileWritten PROVE SetupInv'
  OBVIOUS
<1> USE DEF SetupInv
<1>1. command \in SetupCommands /\ UNCHANGED <<manifest, source, grant, config>>
  BY DEF SetupTypeOK, GenerateFiles, FileWritten
<1>2. ASSUME command.at = "files", command' = [command EXCEPT !.at = "configs", !.next = 1]
      PROVE  SetupInv'
  <2>1. command' \in SetupCommands /\ Moves /\ command'.at = "configs" /\ command'.next = 1
    BY <1>1, <1>2, PositionsGoOn DEF Moves, SetupCommands, Stages
  <2>2. SetupTypeOK'
    BY <1>1, <2>1 DEF SetupTypeOK
  <2>3. GatingInv'
    BY <1>1, <1>2, <2>1 DEF GatingInv, FollowsManifest, Complete
  <2>4. \A i \in DOMAIN Targets : ~(i < 1)
    BY TargetsAreNumbered
  <2>5. ConfigInv'
    BY <1>2, <2>1, <2>4 DEF ConfigInv, Moves
  <2> QED BY <2>2, <2>3, <2>5
<1>3. ASSUME command.at \in {"files", "writes file"}, command' \in SetupCommands, Moves,
             command'.at \in {"files", "writes file"}
      PROVE  SetupInv'
  <2>1. SetupTypeOK'
    BY <1>1, <1>3 DEF SetupTypeOK
  <2>2. GatingInv'
    BY <1>1, <1>3 DEF GatingInv, FollowsManifest, Complete
  <2>3. ConfigInv'
    BY <1>3, AsideKeepsConfigs DEF Aside
  <2> QED BY <2>1, <2>2, <2>3
<1>4. CASE GenerateFiles
  <2>1. command.at = "files"
    BY <1>4 DEF GenerateFiles
  <2>2. CASE command' = [command EXCEPT !.at = "configs", !.next = 1]
    BY <2>1, <2>2, <1>2
  <2>3. CASE command' = [command EXCEPT !.next = @ + 1]
    <3>1. command' \in SetupCommands /\ Moves /\ command'.at = "files"
      BY <1>1, <2>1, <2>3, PositionsGoOn DEF Moves, SetupCommands
    <3> QED BY <2>1, <3>1, <1>3
  <2>4. CASE Goto("writes file")
    <3>1. command' \in SetupCommands /\ Moves /\ command'.at = "writes file"
      BY <1>1, <2>4, GoingOn DEF Goto, Moves, Stages
    <3> QED BY <2>1, <3>1, <1>3
  <2> QED BY <1>4, <2>2, <2>3, <2>4 DEF GenerateFiles
<1>5. CASE FileWritten
  <2>1. command.at = "writes file" /\ command' = [command EXCEPT !.at = "files", !.next = @ + 1]
    BY <1>5 DEF FileWritten
  <2>2. command' \in SetupCommands /\ Moves /\ command'.at = "files"
    BY <1>1, <2>1, PositionsGoOn DEF Moves, SetupCommands, Stages
  <2> QED BY <2>1, <2>2, <1>3
<1> QED BY <1>4, <1>5

(* The report on one configuration, which serves it, says what is wrong, or was asked for *)
(* by somebody who only wants to see it.                                                 *)
LEMMA ReportKeepsIt ==
  ASSUME SetupInv, command.at \in {"configs", "writes config"}, command.next \in DOMAIN Targets,
         NEW status \in Outcomes, Report(status), UNCHANGED <<manifest, source, grant>>,
         config' \in [Target -> Configs], \A t \in Target : ReachesTheApp(t) => ReachesTheApp(t)',
         \/ status \in {"unexpected", "skipped"} \/ config'[Now].entry \in {"bridge", "own"}
         \/ command.dry
  PROVE  SetupInv'
<1> USE DEF SetupInv
<1>1. command \in SetupCommands /\ Now \in Target
  BY DEF SetupTypeOK, Now, Target
<1> DEFINE told == [command.status EXCEPT ![Now] = status]
<1>2. told \in [Target -> Outcomes] /\ told[Now] = status
      /\ \A t \in Target : t # Now => told[t] = command.status[t]
  BY <1>1 DEF SetupCommands
<1>3. /\ command' \in SetupCommands /\ command'.at = "configs"
      /\ command'.next = command.next + 1 /\ command'.status = told
      /\ command'.kind = command.kind /\ command'.dry = command.dry
      /\ command'.exit = command.exit
  <2>1. command' = [command EXCEPT !.status = told, !.next = @ + 1, !.at = "configs", !.temp = FALSE]
    BY <1>1 DEF Report, SetupCommands
  <2> HIDE DEF told
  <2> QED BY <1>1, <1>2, <2>1, PositionIsOne, PositionsGoOn DEF SetupCommands, Stages
<1> HIDE DEF told
<1>4. SetupTypeOK'
  BY <1>3 DEF SetupTypeOK
<1>5. GatingInv'
  BY <1>3 DEF GatingInv, FollowsManifest, Complete
<1>6. ConfigInv'
  <2>1. command'.exit # "ok"
    BY <1>3 DEF ConfigInv
  <2>2. ASSUME command.kind = "setup", ~command.dry, NEW i \in DOMAIN Targets, i < command.next + 1
        PROVE  Served(Targets[i])'
    <3>1. Targets[i] \in Target
      BY DEF Target
    <3>2. CASE Targets[i] = Now
      BY <1>1, <1>2, <1>3, <2>2, <3>2 DEF Served, ReachesTheApp
    <3>3. CASE Targets[i] # Now
      <4>1. i < command.next
        <5>1. i # command.next
          BY <3>3 DEF Now
        <5>2. command.next \in Int
          BY <1>1, PositionIsOne
        <5>3. i \in Int
          BY TargetsAreNumbered, Zenon
        <5>4. i < command.next + 1
          BY <2>2
        <5> QED BY <5>1, <5>2, <5>3, <5>4, Earlier, Zenon
      <4>2. Served(Targets[i])
        BY <2>2, <4>1 DEF ConfigInv
      <4>3. command'.status[Targets[i]] = command.status[Targets[i]]
        BY <1>2, <1>3, <3>1, <3>3
      <4>4. CASE ReachesTheApp(Targets[i])
        BY <3>1, <4>4 DEF Served
      <4>5. CASE ~ReachesTheApp(Targets[i])
        BY <4>2, <4>3, <4>5 DEF Served
      <4> QED BY <4>4, <4>5
    <3> QED BY <3>2, <3>3
  <2>3. command.kind = "setup" => command.at \in {"configs", "writes config", "docs", "idle"}
    BY DEF ConfigInv
  <2> QED BY <1>3, <2>1, <2>2, <2>3 DEF ConfigInv
<1> QED BY <1>4, <1>5, <1>6

LEMMA ApplyKeepsIt == SetupInv /\ apply_config => SetupInv'
<1> SUFFICES ASSUME SetupInv, apply_config PROVE SetupInv'
  OBVIOUS
<1> DEFINE c == config[Now]
<1>1. /\ command \in SetupCommands /\ UNCHANGED <<manifest, source, grant, config>>
      /\ command.at = "configs" /\ command.next \in DOMAIN Targets
      /\ config \in [Target -> Configs] /\ c \in Configs
  <2>1. /\ command \in SetupCommands /\ UNCHANGED <<manifest, source, grant, config>>
        /\ command.at = "configs" /\ command.next <= Len(Targets)
        /\ config \in [Target -> Configs]
    BY DEF SetupInv, SetupTypeOK, apply_config, projectFiles
  <2>2. command.next \in DOMAIN Targets
    BY <2>1, PositionIsOne, TargetsAreNumbered
  <2> QED BY <2>1, <2>2 DEF Now, Target
<1>2. \A t \in Target : ReachesTheApp(t) => ReachesTheApp(t)'
  BY <1>1 DEF ReachesTheApp
<1>3. MergeStatus(c) \in {"skipped", "unexpected", "unchanged", "write"}
      /\ (MergeStatus(c) = "unchanged" => c.entry \in {"bridge", "own"})
      /\ (MergeStatus(c) = "write" => c.entry = "none")
  BY <1>1 DEF MergeStatus, unexpected_command, other_pin, Configs
<1>4. \/ Report("skipped") \/ Report("unexpected")
      \/ Report("unchanged") /\ c.entry \in {"bridge", "own"}
      \/ Report("written") /\ command.dry
      \/ /\ command' = [command EXCEPT !.at = "writes config", !.temp = TRUE]
         /\ ~command.dry /\ c.entry = "none"
  <2> HIDE DEF c
  <2>1. CASE c.link
    BY <2>1 DEF apply_config, c
  <2>2. CASE ~c.link /\ MergeStatus(c) # "write"
    <3>1. Report(MergeStatus(c))
      BY <2>2 DEF apply_config, c
    <3> QED BY <1>3, <2>2, <3>1
  <2>3. CASE ~c.link /\ MergeStatus(c) = "write"
    <3>1. IF command.dry THEN Report("written")
          ELSE IF c.locked THEN Report("skipped")
          ELSE command' = [command EXCEPT !.at = "writes config", !.temp = TRUE]
      BY <2>3 DEF apply_config, c
    <3> QED BY <1>3, <2>3, <3>1
  <2> QED BY <2>1, <2>2, <2>3
<1>5. CASE \/ Report("skipped") \/ Report("unexpected")
           \/ Report("unchanged") /\ c.entry \in {"bridge", "own"}
           \/ Report("written") /\ command.dry
  <2>1. PICK status \in Outcomes :
          /\ Report(status)
          /\ \/ status \in {"unexpected", "skipped"} \/ c.entry \in {"bridge", "own"}
             \/ command.dry
    BY <1>5 DEF Outcomes
  <2>2. config' \in [Target -> Configs] /\ config'[Now] = c
    BY <1>1
  <2> QED BY <1>1, <1>2, <2>1, <2>2, ReportKeepsIt
<1>6. CASE /\ command' = [command EXCEPT !.at = "writes config", !.temp = TRUE]
           /\ ~command.dry /\ c.entry = "none"
  <2>1. /\ command' \in SetupCommands /\ command'.at = "writes config" /\ command'.kind = command.kind
        /\ command'.dry = command.dry /\ command'.exit = command.exit
        /\ command'.next = command.next /\ command'.status = command.status
    BY <1>1, <1>6 DEF SetupCommands, Stages
  <2>2. SetupTypeOK'
    BY <1>1, <2>1 DEF SetupTypeOK, SetupInv
  <2>3. GatingInv'
    BY <1>1, <2>1 DEF GatingInv, FollowsManifest, Complete, SetupInv
  <2>4. Now' = Now
    BY <2>1, ProjectSetupAssumption DEF Now
  <2>5. config'[Now'].entry = "none"
    BY <1>1, <1>6, <2>4
  <2>6. \A t \in Target : Served(t) => Served(t)'
    BY <1>1, <2>1 DEF Served, ReachesTheApp
  <2>7. ConfigInv'
    <3>1. \A i \in DOMAIN Targets : Targets[i] \in Target
      BY DEF Target
    <3>2. command'.at = "writes config" =>
            command'.next \in DOMAIN Targets /\ config'[Now'].entry = "none" /\ ~command'.dry
      BY <1>1, <1>6, <2>1, <2>5
    <3>3. command.kind = "setup" /\ ~command.dry =>
            \A i \in DOMAIN Targets : i < command.next => Served(Targets[i])'
      BY <1>1, <2>6, <3>1 DEF ConfigInv, SetupInv
    <3>4. command.exit # "ok"
      BY <1>1 DEF ConfigInv, SetupInv
    <3> QED BY <2>1, <3>2, <3>3, <3>4 DEF ConfigInv
  <2> QED BY <2>2, <2>3, <2>7 DEF SetupInv
<1> QED BY <1>4, <1>5, <1>6

LEMMA WriteKeepsIt == SetupInv /\ (write_atomically \/ WriteFails) => SetupInv'
<1> SUFFICES ASSUME SetupInv, write_atomically \/ WriteFails PROVE SetupInv'
  OBVIOUS
<1> DEFINE c == config[Now]
<1>1. /\ command \in SetupCommands /\ UNCHANGED <<manifest, source, grant>>
      /\ command.at = "writes config" /\ command.next \in DOMAIN Targets /\ Now \in Target
      /\ config \in [Target -> Configs] /\ c \in Configs /\ c.entry = "none" /\ ~command.dry
  <2>1. /\ command \in SetupCommands /\ UNCHANGED <<manifest, source, grant>>
        /\ command.at = "writes config" /\ config \in [Target -> Configs]
    BY DEF SetupInv, SetupTypeOK, write_atomically, WriteFails, projectFiles
  <2>2. command.next \in DOMAIN Targets /\ c.entry = "none" /\ ~command.dry
    BY <2>1 DEF SetupInv, ConfigInv
  <2> QED BY <2>1, <2>2 DEF Now, Target
<1>2. CASE WriteFails
  <2>1. Report("skipped") /\ config' = config
    BY <1>2 DEF WriteFails
  <2>2. config' \in [Target -> Configs] /\ \A t \in Target : ReachesTheApp(t) => ReachesTheApp(t)'
    BY <1>1, <2>1 DEF ReachesTheApp
  <2> QED BY <1>1, <2>1, <2>2, ReportKeepsIt DEF Outcomes
<1>3. CASE write_atomically /\ ~command.temp
  <2>1. Report("written") /\ config' = [config EXCEPT ![Now] = Merged(c)]
    BY <1>1, <1>3 DEF write_atomically, Replaced
  <2>2. Merged(c) \in Configs /\ Merged(c).entry \in {"bridge", "own"}
    BY <1>1 DEF Merged, Configs
  <2>3. config' \in [Target -> Configs] /\ config'[Now].entry \in {"bridge", "own"}
    BY <1>1, <2>1, <2>2
  <2>4. \A t \in Target : ReachesTheApp(t) => ReachesTheApp(t)'
    BY <1>1, <2>1, <2>3 DEF ReachesTheApp
  <2> QED BY <1>1, <2>1, <2>3, <2>4, ReportKeepsIt DEF Outcomes
<1>4. CASE write_atomically /\ command.temp
  <2>1. command' = [command EXCEPT !.temp = FALSE] /\ config' = [config EXCEPT ![Now] = c]
    BY <1>1, <1>4 DEF write_atomically, Replaced
  <2>2. config' = config
    BY <1>1, <2>1
  <2>3. /\ command' \in SetupCommands /\ command'.at = command.at /\ command'.kind = command.kind
        /\ command'.dry = command.dry /\ command'.exit = command.exit
        /\ command'.next = command.next /\ command'.status = command.status
    BY <1>1, <2>1 DEF SetupCommands
  <2>4. SetupTypeOK'
    BY <1>1, <2>2, <2>3 DEF SetupTypeOK, SetupInv
  <2>5. GatingInv'
    BY <1>1, <2>2, <2>3 DEF GatingInv, FollowsManifest, Complete, SetupInv
  <2>6. ConfigInv'
    BY <1>1, <2>2, <2>3 DEF ConfigInv, SetupInv, Now, Served, ReachesTheApp
  <2> QED BY <2>4, <2>5, <2>6 DEF SetupInv
<1> QED BY <1>2, <1>3, <1>4

LEMMA DocsKeepIt == SetupInv /\ (StartDocs \/ Instruct \/ Finish) => SetupInv'
<1> SUFFICES ASSUME SetupInv, StartDocs \/ Instruct \/ Finish PROVE SetupInv'
  OBVIOUS
<1>1. command \in SetupCommands /\ UNCHANGED <<manifest, source, grant, config>>
  BY DEF SetupInv, SetupTypeOK, StartDocs, Instruct, Finish, projectFiles
<1>2. CASE StartDocs
  <2>1. command.at = "configs" /\ command.next > Len(Targets)
        /\ command' = [command EXCEPT !.at = "docs", !.next = 1]
    BY <1>2 DEF StartDocs
  <2>2. /\ command' \in SetupCommands /\ Moves /\ command'.at = "docs" /\ command'.status = command.status
    BY <1>1, <2>1, PositionsGoOn DEF SetupCommands, Moves, Stages
  <2>3. ASSUME command.kind = "setup", ~command.dry, NEW t \in Target PROVE Served(t)'
    <3>1. PICK i \in DOMAIN Targets : t = Targets[i]
      BY DEF Target
    <3>2. i < command.next
      BY <1>1, <2>1, PositionIsOne, TargetsAreNumbered
    <3>3. Served(t)
      BY <2>1, <2>3, <3>1, <3>2 DEF SetupInv, ConfigInv
    <3> QED BY <1>1, <2>2, <3>3 DEF Served, ReachesTheApp
  <2>4. SetupTypeOK'
    BY <1>1, <2>2 DEF SetupTypeOK, SetupInv
  <2>5. GatingInv'
    BY <1>1, <2>1, <2>2 DEF GatingInv, FollowsManifest, Complete, SetupInv
  <2>6. ConfigInv'
    BY <2>1, <2>2, <2>3 DEF ConfigInv, Moves, SetupInv
  <2> QED BY <2>4, <2>5, <2>6 DEF SetupInv
<1>3. CASE Instruct
  <2>1. command.at = "docs" /\ command' = [command EXCEPT !.next = @ + 1]
    BY <1>3 DEF Instruct
  <2>2. /\ command' \in SetupCommands /\ Moves /\ command'.at = "docs" /\ command'.status = command.status
    BY <1>1, <2>1, PositionsGoOn DEF SetupCommands, Moves
  <2>3. \A t \in Target : Served(t) => Served(t)'
    BY <1>1, <2>2 DEF Served, ReachesTheApp
  <2>4. SetupTypeOK'
    BY <1>1, <2>2 DEF SetupTypeOK, SetupInv
  <2>5. GatingInv'
    BY <1>1, <2>1, <2>2 DEF GatingInv, FollowsManifest, Complete, SetupInv
  <2>6. ConfigInv'
    BY <2>1, <2>2, <2>3 DEF ConfigInv, Moves, SetupInv
  <2> QED BY <2>4, <2>5, <2>6 DEF SetupInv
<1>4. CASE Finish
  <2> DEFINE x == IF command.kind = "setup" /\ ~command.dry /\ SetupFails THEN "failed" ELSE "ok"
  <2>1. command.at = "docs" /\ command' = [command EXCEPT !.at = "idle", !.exit = x]
    BY <1>4 DEF Finish
  <2>2. x \in {"ok", "failed"} /\ (x = "ok" /\ command.kind = "setup" /\ ~command.dry => ~SetupFails)
    OBVIOUS
  <2> HIDE DEF x
  <2>3. /\ command' \in SetupCommands /\ command'.at = "idle" /\ command'.status = command.status
        /\ command'.kind = command.kind /\ command'.dry = command.dry /\ command'.exit = x
    BY <1>1, <2>1, <2>2 DEF SetupCommands, Stages
  <2>4. ASSUME x = "ok", command.kind = "setup", ~command.dry, NEW t \in Target
        PROVE  ReachesTheApp(t)'
    <3>1. Served(t) /\ command.status[t] \notin {"unexpected", "skipped"}
      BY <2>1, <2>2, <2>4 DEF SetupInv, ConfigInv, SetupFails
    <3> QED BY <1>1, <3>1 DEF Served, ReachesTheApp
  <2>5. SetupTypeOK'
    BY <1>1, <2>3 DEF SetupTypeOK, SetupInv
  <2>6. GatingInv'
    BY <1>1, <2>1, <2>3 DEF GatingInv, FollowsManifest, Complete, SetupInv
  <2>7. ConfigInv'
    BY <2>3, <2>4 DEF ConfigInv
  <2> QED BY <2>5, <2>6, <2>7 DEF SetupInv
<1> QED BY <1>2, <1>3, <1>4

LEMMA UserKeepsIt == SetupInv /\ (UserRestores \/ UserEdits) => SetupInv'
<1> SUFFICES ASSUME SetupInv, UserRestores \/ UserEdits PROVE SetupInv'
  OBVIOUS
<1>1. /\ command \in SetupCommands /\ manifest \in Manifests /\ source \in SourceFiles
      /\ config \in [Target -> Configs] /\ command.at = "idle" /\ grant' = grant
  BY DEF SetupInv, SetupTypeOK, UserRestores, UserEdits
<1>2. CASE UserRestores
  <2>1. /\ manifest' = [manifest EXCEPT !.text = "whole"] /\ source' = [source EXCEPT !.text = "whole"]
        /\ UNCHANGED <<config, command>>
    BY <1>2 DEF UserRestores
  <2>2. /\ manifest' \in Manifests /\ source' \in SourceFiles /\ source'.wiring = source.wiring
        /\ manifest'.plugin = manifest.plugin /\ (Complete(manifest) => Complete(manifest'))
    BY <1>1, <2>1 DEF Manifests, SourceFiles, Complete
  <2>3. SetupTypeOK'
    BY <2>1, <2>2 DEF SetupTypeOK, SetupInv
  <2>4. GatingInv'
    BY <1>1, <2>1, <2>2 DEF GatingInv, SetupInv, FollowsManifest
  <2>5. ConfigInv'
    BY <2>1 DEF ConfigInv, SetupInv, Now, Served, ReachesTheApp
  <2> QED BY <2>3, <2>4, <2>5 DEF SetupInv
<1>3. CASE UserEdits
  <2>1. /\ command' = [command EXCEPT !.exit = "none"] /\ manifest' = manifest
    BY <1>3 DEF UserEdits
  <2>2. command' \in SetupCommands /\ command'.at = "idle" /\ command'.exit = "none"
    BY <1>1, <2>1 DEF SetupCommands
  <2>3. source' \in SourceFiles /\ source'.wiring = source.wiring
    BY <1>1, <1>3 DEF UserEdits, SourceFiles
  <2>4. config' \in [Target -> Configs]
    <3>1. CASE \E t \in Target : config' = [config EXCEPT ![t].locked = FALSE]
      <4>1. PICK t \in Target : config' = [config EXCEPT ![t].locked = FALSE]
        BY <3>1
      <4>2. [config[t] EXCEPT !.locked = FALSE] \in Configs
        BY <1>1 DEF Configs
      <4> QED BY <1>1, <4>1, <4>2
    <3> QED BY <1>1, <1>3, <3>1 DEF UserEdits
  <2>5. SetupTypeOK'
    BY <1>1, <2>1, <2>2, <2>3, <2>4 DEF SetupTypeOK
  <2>6. GatingInv'
    BY <1>1, <2>1, <2>2, <2>3 DEF GatingInv, SetupInv, FollowsManifest, Complete
  <2>7. ConfigInv'
    BY <2>2 DEF ConfigInv
  <2> QED BY <2>5, <2>6, <2>7 DEF SetupInv
<1> QED BY <1>2, <1>3

LEMMA SetupKeepsIt == SetupInv /\ [SetupNext]_setupVars => SetupInv'
<1> SUFFICES ASSUME SetupInv, [SetupNext]_setupVars PROVE SetupInv'
  OBVIOUS
<1>1. CASE \E kind \in {"init", "setup"}, optional, dry \in BOOLEAN : StartCommand(kind, optional, dry)
  BY <1>1, StartKeepsIt
<1>2. CASE Killed
  <2>1. command' = [Idle EXCEPT !.exit = "killed"] /\ UNCHANGED <<manifest, source, grant, config>>
    BY <1>2 DEF Killed, projectFiles
  <2>2. manifest' \in Manifests
    BY <2>1 DEF SetupInv, SetupTypeOK
  <2> QED BY <2>1, <2>2, KilledKeepsIt
<1>3. CASE UNCHANGED setupVars
  <2>1. UNCHANGED <<manifest, source, grant, config, command>>
    BY <1>3 DEF setupVars
  <2> QED BY <2>1 DEF SetupInv, SetupTypeOK, GatingInv, ConfigInv, FollowsManifest,
             Complete, Now, Served, ReachesTheApp
<1> QED BY <1>1, <1>2, <1>3, AddDependenciesKeepsIt, ManifestWrittenKeepsIt,
           ReadFeatureKeepsIt, WiringKeepsIt, GrantKeepsIt, FilesKeepIt,
           ApplyKeepsIt, WriteKeepsIt, DocsKeepIt, UserKeepsIt DEF SetupNext

(* A project that init or setup has worked on builds with and without the feature, and a *)
(* reported success is one, whatever commands ran before and wherever they were killed.  *)
THEOREM SetupIsSoundAlways == SetupSpec => []SetupIsSound
<1>1. SetupInv => SetupIsSound
  <2>1. SetupInv => GatingIsConsistent
    BY DEF SetupInv, GatingInv, GatingIsConsistent, Complete
  <2>2. SetupInv => SuccessReachesTheApp
    BY DEF SetupInv, ConfigInv, SuccessReachesTheApp, ReachesTheApp
  <2> QED BY <2>1, <2>2 DEF SetupIsSound
<1> QED BY <1>1, SetupStarts, SetupKeepsIt, PTL DEF SetupSpec

(* Only where a configuration has no entry does a step put one there.        *)
StaysAsFound(t) ==
  /\ config[t].user => config'[t].user /\ config'[t].text # "torn"
  /\ config[t].entry # "none" => config'[t].entry = config[t].entry

LEMMA StepsSpareConfigs ==
  ASSUME SetupInv, SetupNext, NEW t \in Target
  PROVE  StaysAsFound(t)
<1>1. config \in [Target -> Configs] /\ config[t] \in Configs /\ config[t].text # "torn"
  BY DEF SetupInv, SetupTypeOK, Configs
<1>2. CASE config' = config
  BY <1>1, <1>2 DEF StaysAsFound
<1>3. CASE write_atomically /\ config' # config
  <2>1. Now \in Target /\ config[Now].entry = "none"
    BY <1>3 DEF SetupInv, ConfigInv, write_atomically, Now, Target
  <2>2. config' = [config EXCEPT ![Now] = Merged(config[Now])]
    BY <1>1, <1>3, <2>1 DEF write_atomically, Replaced
  <2>3. CASE t = Now
    <3>1. config'[t] = Merged(config[t]) /\ config[t].entry = "none"
      BY <1>1, <2>1, <2>2, <2>3
    <3>2. Merged(config[t]).user = config[t].user /\ Merged(config[t]).text = "json"
      BY <1>1 DEF Merged, Configs
    <3> QED BY <3>1, <3>2 DEF StaysAsFound
  <2>4. CASE t # Now
    BY <1>1, <2>1, <2>2, <2>4 DEF StaysAsFound
  <2> QED BY <2>3, <2>4
<1>4. CASE UserEdits /\ config' # config
  <2>1. PICK s \in Target : config' = [config EXCEPT ![s].locked = FALSE]
    BY <1>4 DEF UserEdits
  <2>2. \/ config'[t] = config[t] \/ config'[t] = [config[t] EXCEPT !.locked = FALSE]
    BY <1>1, <2>1
  <2>3. /\ config'[t].user = config[t].user /\ config'[t].text = config[t].text
        /\ config'[t].entry = config[t].entry
    BY <1>1, <2>2 DEF Configs
  <2> QED BY <1>1, <2>3 DEF StaysAsFound
<1> QED
  <2>1. config' = config \/ write_atomically \/ UserEdits
    BY DEF SetupNext, StartCommand, AddDependencies, ManifestWritten, ReadFeature,
       try_patch_tauri_builder, SourceWritten, GrantCapability, CapabilityWritten,
       GenerateFiles, FileWritten, apply_config, WriteFails, StartDocs, Instruct,
       Finish, Killed, UserRestores
  <2> QED BY <2>1, <1>2, <1>3, <1>4

(* What the user has in a configuration survives every step of every command, and an *)
(* entry of the user's own is never replaced.                                        *)
THEOREM ConfigsSurviveAlways == SetupSpec => ConfigsSurvive
<1> DEFINE Step == \A t \in Target : StaysAsFound(t)
<1>1. SetupInv /\ [SetupNext]_setupVars => [Step]_setupVars
  BY StepsSpareConfigs
<1>2. SetupSpec => [][Step]_setupVars
  <2> HIDE DEF Step
  <2> QED BY <1>1, SetupStarts, SetupKeepsIt, PTL DEF SetupSpec
<1> QED BY <1>2 DEF ConfigsSurvive, StaysAsFound

-----------------------------------------------------------------------------

(***************************************************************************)
(* VerdictsAreTrue for any number of images and any changes of the         *)
(* application. Each command has its own steps (CallSteps and the lemmas   *)
(* after it), so the invariant says per command what is settled at the     *)
(* place it is at: which reply it holds, how often its tool ran, what it   *)
(* has saved, and, for doctor, which checks its counts stand for.          *)
(***************************************************************************)

CommandAts == {"start", "connected", "answered", "print", "report", "verdict", "recording", "session",
           "server", "probes", "summary", "exited"}

CliTypeOK ==
  /\ cmd \in CliCommands /\ at \in CommandAts
  /\ tally \in [pass : Nat, fail : Nat, warn : Nat]
  /\ recording \in BOOLEAN /\ apps \in 0..2
  /\ at # "exited" => code = Unset

CallInv ==
  cmd.name = "call" =>
    /\ at \in {"start", "connected", "answered", "print", "exited"}
    /\ images \in Nat /\ saved \subseteq 1..images
    /\ at \in {"start", "connected"} => executed = 0 /\ reply = Unset /\ saved = {}
    /\ at = "answered" => /\ reply \in {"ok", "error", "undecodable", "refused"}
                          /\ reply = "ok" => executed = 1
    /\ at = "print" => executed = 1 /\ reply = "ok" /\ (cmd.out = "file" => saved = 1..images)
    /\ at = "exited" => CallCodes

SuiteInv ==
  cmd.name \in {"test", "coverage"} =>
    /\ at \in {"start", "connected", "report", "verdict", "exited"}
    /\ at \in {"start", "connected", "report"} => junit = Unset
    /\ at \in {"report", "verdict"} => reply \in {"passed", "failed", "nothing_registered"}
    /\ at = "verdict" => junit = IF cmd.junit THEN Verdict ELSE Unset
    /\ at = "exited" => SuiteCodes

RecordInv ==
  cmd.name = "record" =>
    /\ at \in {"start", "connected", "recording", "session", "exited"}
    /\ at = "session" => ~recording
    /\ at = "exited" /\ code = 0 => saved = {"test"} /\ ~recording

DoctorInv ==
  cmd.name = "doctor" =>
    LET f == cmd.facts IN
    /\ at \in {"start", "server", "probes", "summary", "exited"}
    /\ at # "exited" => "looks_good" \notin said
    /\ at \in {"server", "probes", "summary"} =>
         f.manifest /\ (tally.fail = 0 => f.tauri /\ f.plugin /\ f.wired)
    /\ at \in {"server", "probes"} => (tally.warn = 0 => ~GrantWarns(f))
    /\ at = "summary" /\ tally.fail = 0 /\ tally.warn = 0 => GrantPasses(f) \/ "skipped" \in said
    /\ at = "exited" => OtherCodes

CliInv == CliTypeOK /\ CallInv /\ SuiteInv /\ RecordInv /\ DoctorInv

LEMMA CommandsAreOptions ==
  ASSUME cmd \in CliCommands
  PROVE  /\ cmd.name \in {"call", "invoke", "tools", "check", "test", "coverage", "record", "doctor"}
         /\ cmd.name = "call" => cmd.args \in BOOLEAN /\ cmd.out \in {"none", "file", "directory"}
         /\ cmd.name \in Suites => cmd.junit \in BOOLEAN
         /\ cmd.name = "doctor" => cmd.facts \in Facts
  BY DEF CliCommands, Suites

LEMMA CliStarts == CliInit => CliInv
<1> SUFFICES ASSUME CliInit PROVE CliInv
  OBVIOUS
<1>1. CliTypeOK
  BY DEF CliInit, CliTypeOK, CommandAts
<1>2. CallInv /\ SuiteInv /\ RecordInv /\ DoctorInv
  BY DEF CliInit, CallInv, SuiteInv, RecordInv, DoctorInv
<1> QED BY <1>1, <1>2 DEF CliInv

(* Each command has its own steps. *)
LEMMA CallSteps ==
  ASSUME CliInv, CliNext, cmd.name = "call"
  PROVE  AppChanges \/ RefuseUsage \/ FindApp \/ CallOnce \/ ToolFailed \/ SaveImage \/ AllSaved
         \/ PrintResult
<1>1. at \in {"start", "connected", "answered", "print", "exited"}
  BY DEF CliInv, CallInv
<1> QED BY <1>1 DEF CliNext, ListTools, RunSuite, WriteReport, NoReport,
           ExitWithVerdict, StartRecording, StopRecording, WriteTest, CheckProject,
           CheckServer, Summarise, Probe, Suites

LEMMA SuiteSteps ==
  ASSUME CliInv, CliNext, cmd.name \in {"test", "coverage"}
  PROVE  AppChanges \/ RefuseUsage \/ FindApp \/ RunSuite \/ WriteReport \/ NoReport
         \/ ExitWithVerdict
<1>1. at \in {"start", "connected", "report", "verdict", "exited"}
  BY DEF CliInv, SuiteInv
<1> QED BY <1>1 DEF CliNext, CallOnce, ToolFailed, SaveImage, AllSaved, ListTools,
           PrintResult, StartRecording, StopRecording, WriteTest, CheckProject,
           CheckServer, Summarise, Probe, Requests

LEMMA RecordSteps ==
  ASSUME CliInv, CliNext, cmd.name = "record"
  PROVE  AppChanges \/ RefuseUsage \/ FindApp \/ StartRecording \/ StopRecording \/ WriteTest
<1>1. at \in {"start", "connected", "recording", "session", "exited"}
  BY DEF CliInv, RecordInv
<1> QED BY <1>1 DEF CliNext, CallOnce, ToolFailed, SaveImage, AllSaved, ListTools,
           PrintResult, RunSuite, WriteReport, NoReport, ExitWithVerdict,
           CheckProject, CheckServer, Summarise, Probe, Requests, Suites

LEMMA DoctorSteps ==
  ASSUME CliInv, CliNext, cmd.name = "doctor"
  PROVE  AppChanges \/ CheckProject \/ CheckServer \/ Summarise
         \/ \E info, page, healthy \in BOOLEAN : Probe(info, page, healthy)
<1>1. at \in {"start", "server", "probes", "summary", "exited"}
  BY DEF CliInv, DoctorInv
<1> QED BY <1>1 DEF CliNext, RefuseUsage, Refused, FindApp, CallOnce, ToolFailed,
           SaveImage, AllSaved, ListTools, PrintResult, RunSuite, WriteReport,
           NoReport, ExitWithVerdict, StartRecording, StopRecording, WriteTest

LEMMA TypeIsKept == CliInv /\ CliNext => CliTypeOK'
<1> SUFFICES ASSUME CliInv, CliNext PROVE CliTypeOK'
  OBVIOUS
<1>1. cmd \in CliCommands /\ at \in CommandAts /\ recording \in BOOLEAN /\ apps \in 0..2
      /\ tally \in [pass : Nat, fail : Nat, warn : Nat] /\ (at # "exited" => code = Unset)
  BY DEF CliInv, CliTypeOK
<1>2. cmd' = cmd
  BY DEF CliNext, AppChanges, RefuseUsage, FindApp, CallOnce, ToolFailed, SaveImage,
     AllSaved, ListTools, PrintResult, RunSuite, WriteReport, NoReport,
     ExitWithVerdict, StartRecording, StopRecording, WriteTest, CheckProject,
     CheckServer, Summarise, Probe
<1>3. recording' \in BOOLEAN /\ apps' \in 0..2
  <2>1. CASE AppChanges
    <3>1. apps' \in 0..1 /\ recording' = FALSE
      BY <2>1, Zenon DEF AppChanges
    <3>2. apps' \in 0..2
      BY <3>1
    <3> QED BY <3>1, <3>2, Zenon
  <2>2. CASE StartRecording \/ StopRecording
    BY <1>1, <2>2 DEF StartRecording, StopRecording
  <2>3. CASE UNCHANGED <<apps, recording>>
    BY <1>1, <2>3
  <2> QED BY <2>1, <2>2, <2>3 DEF CliNext, RefuseUsage, FindApp, CallOnce,
             ToolFailed, SaveImage, AllSaved, ListTools, PrintResult, RunSuite,
             WriteReport, NoReport, ExitWithVerdict, WriteTest, CheckProject,
             CheckServer, Summarise, Probe
<1>4. at' \in CommandAts /\ (at' # "exited" => code' = Unset)
  <2>1. CASE AppChanges \/ RefuseUsage \/ FindApp \/ CallOnce \/ ToolFailed \/ SaveImage \/ AllSaved
    BY <1>1, <2>1 DEF AppChanges, RefuseUsage, FindApp, CallOnce, ToolFailed,
       SaveImage, AllSaved, Exit, Answered, CommandAts
  <2>2. CASE ListTools \/ PrintResult \/ RunSuite \/ WriteReport \/ NoReport \/ ExitWithVerdict
    BY <1>1, <2>2 DEF ListTools, PrintResult, RunSuite, WriteReport, NoReport,
       ExitWithVerdict, Exit, CommandAts
  <2>3. CASE StartRecording \/ StopRecording \/ WriteTest \/ CheckProject \/ CheckServer \/ Summarise
             \/ \E info, page, healthy \in BOOLEAN : Probe(info, page, healthy)
    BY <1>1, <2>3 DEF StartRecording, StopRecording, WriteTest, CheckProject,
       CheckServer, Summarise, Probe, Exit, CommandAts
  <2> QED BY <2>1, <2>2, <2>3 DEF CliNext
<1>5. tally' \in [pass : Nat, fail : Nat, warn : Nat]
  <2>1. \A p, f, w \in Nat : Count(p, f, w) \in [pass : Nat, fail : Nat, warn : Nat]
    BY <1>1 DEF Count
  <2>2. CASE tally' = tally
    BY <1>1, <2>2
  <2>3. CASE CheckProject
    <3> DEFINE f == cmd.facts
    <3> DEFINE p == 1 + One(f.tauri) + One(f.plugin) + One(f.tests) + One(f.wired) + One(GrantPasses(f))
    <3> DEFINE n == One(~f.tauri) + One(~f.plugin) + One(~f.wired)
    <3> DEFINE w == One(~f.tests) + One(GrantWarns(f))
    <3>1. p \in Nat /\ n \in Nat /\ w \in Nat
      BY DEF One
    <3>2. tally' = Count(p, n, w) \/ tally' = Count(0, 1, 0)
      BY <2>3 DEF CheckProject
    <3> HIDE DEF p, n, w
    <3> QED BY <2>1, <3>1, <3>2
  <2>4. CASE CheckServer
    <3> DEFINE n == One(apps = 2)
    <3>1. n \in Nat
      BY DEF One
    <3>2. tally' = Count(1, 0, 0) \/ tally' = Count(0, 0, n)
      BY <2>4 DEF CheckServer
    <3> HIDE DEF n
    <3> QED BY <2>1, <3>1, <3>2
  <2>5. ASSUME NEW info \in BOOLEAN, NEW page \in BOOLEAN, NEW healthy \in BOOLEAN,
               Probe(info, page, healthy)
        PROVE  tally' \in [pass : Nat, fail : Nat, warn : Nat]
    <3> DEFINE p == One(info) + 2 * One(page) + One(page /\ healthy)
    <3> DEFINE n == One(~info) + 3 * One(~page)
    <3> DEFINE w == One(page /\ ~healthy)
    <3>1. p \in Nat /\ n \in Nat /\ w \in Nat
      BY DEF One
    <3>2. tally' = Count(p, n, w)
      BY <2>5 DEF Probe
    <3> HIDE DEF p, n, w
    <3> QED BY <2>1, <3>1, <3>2
  <2> QED BY <2>2, <2>3, <2>4, <2>5 DEF CliNext, AppChanges, RefuseUsage, FindApp,
             CallOnce, ToolFailed, SaveImage, AllSaved, ListTools, PrintResult,
             RunSuite, WriteReport, NoReport, ExitWithVerdict, StartRecording,
             StopRecording, WriteTest, Summarise
<1> QED BY <1>1, <1>2, <1>3, <1>4, <1>5 DEF CliTypeOK


(* The smallest of some numbers. *)
LEMMA SomeIsSmallest ==
  ASSUME NEW S, S \subseteq Nat, S # {}
  PROVE  (CHOOSE i \in S : \A j \in S : i <= j) \in S
<1> DEFINE Below == {ss \in Nat \X Nat : ss[1] < ss[2]}
<1>1. IsWellFoundedOn(Below, Nat)
  BY NatLessThanWellFounded, Zenon DEF OpToRel
<1> HIDE DEF Below
<1>2. PICK i \in S : \A j \in S : ~(<<j, i>> \in Below)
  BY <1>1, WFMin, Zenon
<1>3. \A j \in S : i <= j
  <2> SUFFICES ASSUME NEW j \in S, ~(i <= j) PROVE FALSE
    OBVIOUS
  <2>1. i \in Nat /\ j \in Nat
    OBVIOUS
  <2>2. j < i
    BY <2>1
  <2>3. <<j, i>> \in Nat \X Nat /\ <<j, i>>[1] < <<j, i>>[2]
    BY <2>1, <2>2
  <2> QED BY <1>2, <2>3, Zenon DEF Below
<1>4. \E k \in S : \A j \in S : k <= j
  BY <1>3
<1> QED BY <1>4, Zenon

LEMMA UnsetIsNoCode == Unset # 0 /\ Unset # 1 /\ Unset # 2 /\ Unset # 3
<1>1. Unset \notin 0..3
  BY CliAssumption, Zenon DEF CliAssumption
<1> QED BY <1>1

LEMMA UnsetIsNoReply == Unset # "ok" /\ Unset # "lost" /\ Unset \notin {"passed", "failed", "nothing_registered"}
<1>1. Unset \notin {"ok", "error", "undecodable", "refused", "lost", "passed", "failed",
                    "nothing_registered"}
  BY CliAssumption, Zenon DEF CliAssumption
<1> QED BY <1>1

LEMMA UnsetIsNoVerdict == Unset # TRUE /\ Unset # FALSE
<1>1. Unset \notin BOOLEAN
  BY CliAssumption, Zenon DEF CliAssumption
<1> QED BY <1>1, Zenon
LEMMA CallIsTrue ==
  ASSUME CliInv, CliNext, cmd.name = "call"
  PROVE  CallInv'
<1>1. /\ cmd' = cmd /\ cmd.name = "call" /\ images \in Nat /\ saved \subseteq 1..images
      /\ code # Unset => at = "exited"
      /\ cmd.args \in BOOLEAN /\ cmd.out \in {"none", "file", "directory"}
      /\ LocalFailure = 2
  <2>1. cmd' = cmd
    BY CallSteps DEF AppChanges, RefuseUsage, FindApp, CallOnce, ToolFailed,
       SaveImage, AllSaved, PrintResult
  <2> QED BY <2>1, CommandsAreOptions DEF CliInv, CallInv, CliTypeOK, LocalFailure,
             EXIT_USAGE
<1> USE DEF EXIT_TOOL_ERROR, EXIT_USAGE, EXIT_OUTCOME_UNKNOWN
<1>2. CASE AppChanges
  BY <1>1, <1>2 DEF AppChanges, CliInv, CallInv, CallCodes
<1>3. CASE RefuseUsage
  <2>1. at = "start" /\ executed = 0 /\ reply = Unset /\ reply # "lost"
    BY <1>1, <1>3, UnsetIsNoReply DEF RefuseUsage, CliInv, CallInv
  <2>2. at' = "exited" /\ code' = 2 /\ UNCHANGED <<executed, reply, images, saved, said>>
    BY <1>1, <1>3 DEF RefuseUsage, Exit
  <2>3. CallCodes'
    BY <1>1, <2>1, <2>2 DEF CallCodes
  <2> QED BY <1>1, <2>1, <2>2, <2>3 DEF CallInv
<1>4. CASE FindApp
  BY <1>1, <1>4, UnsetIsNoReply DEF FindApp, CliInv, CallInv, CallCodes, Exit
<1>5. CASE CallOnce
  <2>1. at = "connected" /\ executed = 0 /\ reply = Unset /\ saved = {} /\ saved' = {}
        /\ UNCHANGED <<said>> /\ reply # "lost"
    BY <1>1, <1>5, UnsetIsNoReply DEF CallOnce, CliInv, CallInv
  <2>2. CASE Exit(LocalFailure) /\ UNCHANGED <<executed, reply, images>>
    BY <1>1, <2>1, <2>2 DEF CallInv, CallCodes, Exit
  <2>3. CASE \E n \in 0..MaxImages : Answered("ok", n)
    BY <1>1, <2>1, <2>3 DEF CallInv, Answered
  <2>4. CASE \E r \in {"error", "undecodable", "refused"} : Answered(r, 0)
    BY <1>1, <2>1, <2>4 DEF CallInv, Answered
  <2>5. CASE Exit(LostAnswer) /\ reply' = "lost" /\ UNCHANGED images
    BY <1>1, <2>1, <2>5 DEF CallInv, CallCodes, Exit, LostAnswer
  <2> QED BY <1>1, <1>5, <2>2, <2>3, <2>4, <2>5 DEF CallOnce
<1>6. CASE ToolFailed
  BY <1>1, <1>6 DEF ToolFailed, CliInv, CallInv, CallCodes, Exit
<1>7. CASE SaveImage
  <2>1. /\ at = "answered" /\ reply = "ok" /\ executed = 1 /\ ToSave # {} /\ ToSave \subseteq 1..images
        /\ UNCHANGED <<executed, reply, images>>
    BY <1>1, <1>7 DEF SaveImage, CliInv, CallInv, ToSave
  <2>2. CASE at' = at /\ saved' = saved \cup {CHOOSE i \in ToSave : \A j \in ToSave : i <= j}
    <3>1. (CHOOSE i \in ToSave : \A j \in ToSave : i <= j) \in ToSave
      <4>1. ToSave \subseteq Nat
        BY <1>1, <2>1
      <4> QED BY <2>1, <4>1, SomeIsSmallest
    <3>2. saved' \subseteq 1..images
      BY <1>1, <2>1, <2>2, <3>1
    <3> QED BY <1>1, <2>1, <2>2, <3>2 DEF CallInv
  <2>3. CASE Exit(EXIT_USAGE) /\ said' = said \cup {"output_failed"} /\ UNCHANGED saved
    BY <1>1, <2>1, <2>3 DEF CallInv, CallCodes, Exit
  <2> QED BY <1>7, <2>2, <2>3 DEF SaveImage
<1>8. CASE AllSaved
  <2>1. /\ at = "answered" /\ reply = "ok" /\ executed = 1 /\ at' = "print"
        /\ UNCHANGED <<executed, reply, images, saved>>
    BY <1>1, <1>8 DEF AllSaved, CliInv, CallInv
  <2>2. cmd.out = "file" => saved = 1..images
    BY <1>1, <1>8 DEF AllSaved, ToSave
  <2> QED BY <1>1, <2>1, <2>2 DEF CallInv
<1>9. CASE PrintResult
  BY <1>1, <1>9 DEF PrintResult, CliInv, CallInv, CallCodes, Exit
<1> QED BY <1>2, <1>3, <1>4, <1>5, <1>6, <1>7, <1>8, <1>9, CallSteps

LEMMA SuiteIsTrue ==
  ASSUME CliInv, CliNext, cmd.name \in {"test", "coverage"}
  PROVE  SuiteInv'
<1>1. /\ cmd' = cmd /\ LocalFailure = 1 /\ cmd.junit \in BOOLEAN /\ (code # Unset => at = "exited")
  <2>1. cmd' = cmd
    BY SuiteSteps DEF AppChanges, RefuseUsage, FindApp, RunSuite, WriteReport,
       NoReport, ExitWithVerdict
  <2> QED BY <2>1, CommandsAreOptions DEF CliInv, CliTypeOK, LocalFailure, Suites
<1>2. CASE AppChanges
  BY <1>1, <1>2 DEF AppChanges, CliInv, SuiteInv, SuiteCodes, Verdict
<1>3. CASE RefuseUsage
  BY <1>1, <1>3 DEF RefuseUsage, Refused, CliInv, SuiteInv
<1>4. CASE FindApp
  BY <1>1, <1>4 DEF FindApp, CliInv, SuiteInv, SuiteCodes, Exit
<1>5. CASE RunSuite
  BY <1>1, <1>5 DEF RunSuite, CliInv, SuiteInv, SuiteCodes, Exit
<1>6. CASE WriteReport
  BY <1>1, <1>6 DEF WriteReport, CliInv, SuiteInv, SuiteCodes, Exit, Verdict
<1>7. CASE NoReport
  BY <1>1, <1>7 DEF NoReport, CliInv, SuiteInv
<1>8. CASE ExitWithVerdict
  <2>1. /\ at = "verdict" /\ junit = (IF cmd.junit THEN Verdict ELSE Unset)
        /\ reply \in {"passed", "failed", "nothing_registered"} /\ UNCHANGED <<reply, junit>>
        /\ at' = "exited"
    BY <1>8 DEF ExitWithVerdict, CliInv, SuiteInv, Exit
  <2>2. reply # Unset
    BY <2>1, UnsetIsNoReply
  <2>3. Verdict' <=> Verdict
    BY <1>1, <2>1 DEF Verdict
  <2>4. CASE Verdict
    <3>1. code' = 0
      BY <1>8, <2>4 DEF ExitWithVerdict, Exit
    <3>2. (cmd.junit => junit = TRUE) /\ junit # FALSE
      BY <1>1, <2>1, <2>4, UnsetIsNoVerdict, Zenon
    <3>3. SuiteCodes'
      BY <1>1, <2>1, <2>2, <2>3, <2>4, <3>1, <3>2, Zenon DEF SuiteCodes
    <3> QED BY <1>1, <2>1, <3>3, Zenon DEF SuiteInv
  <2>5. CASE ~Verdict
    <3>1. code' = 1
      BY <1>8, <2>5 DEF ExitWithVerdict, Exit
    <3>2. 1 # 0
      OBVIOUS
    <3>3. SuiteCodes'
      BY <1>1, <2>1, <3>1, <3>2, Zenon DEF SuiteCodes
    <3> QED BY <1>1, <2>1, <3>3, Zenon DEF SuiteInv
  <2> QED BY <2>4, <2>5
<1> QED BY <1>2, <1>3, <1>4, <1>5, <1>6, <1>7, <1>8, SuiteSteps

LEMMA RecordIsTrue ==
  ASSUME CliInv, CliNext, cmd.name = "record"
  PROVE  RecordInv'
<1>1. /\ cmd' = cmd /\ LocalFailure = 1 /\ (code # Unset => at = "exited")
  <2>1. cmd' = cmd
    BY RecordSteps DEF AppChanges, RefuseUsage, FindApp, StartRecording,
       StopRecording, WriteTest
  <2> QED BY <2>1 DEF CliInv, CliTypeOK, LocalFailure
<1>2. CASE AppChanges \/ RefuseUsage \/ FindApp
  BY <1>1, <1>2 DEF AppChanges, RefuseUsage, FindApp, CliInv, RecordInv, Exit
<1>3. CASE StartRecording \/ StopRecording \/ WriteTest
  BY <1>1, <1>3 DEF StartRecording, StopRecording, WriteTest, CliInv, RecordInv, Exit
<1> QED BY <1>2, <1>3, RecordSteps

LEMMA DoctorIsTrue ==
  ASSUME CliInv, CliNext, cmd.name = "doctor"
  PROVE  DoctorInv'
<1> DEFINE f == cmd.facts
<1>1. /\ cmd' = cmd /\ (code # Unset => at = "exited")
      /\ tally.fail \in Nat /\ tally.warn \in Nat
      /\ f.manifest \in BOOLEAN /\ f.tauri \in BOOLEAN /\ f.plugin \in BOOLEAN /\ f.wired \in BOOLEAN
      /\ f.tests \in BOOLEAN /\ f.grant \in {"file", "runtime", "some", "none", "no_directory"}
  <2>1. cmd' = cmd
    BY DoctorSteps DEF AppChanges, CheckProject, CheckServer, Summarise, Probe
  <2>2. f \in Facts /\ tally \in [pass : Nat, fail : Nat, warn : Nat]
    BY CommandsAreOptions DEF CliInv, CliTypeOK
  <2> QED BY <2>1, <2>2 DEF CliInv, CliTypeOK, Facts
<1>2. CASE AppChanges
  BY <1>1, <1>2 DEF AppChanges, CliInv, DoctorInv
<1>3. CASE CheckProject
  <2>1. at = "start" /\ "looks_good" \notin said /\ said' = said
    BY <1>3 DEF CheckProject, CliInv, DoctorInv
  <2>2. CASE ~f.manifest
    BY <1>1, <1>3, <2>1, <2>2 DEF CheckProject, DoctorInv, OtherCodes, Exit
  <2>3. CASE f.manifest
    <3>1. /\ tally'.fail = tally.fail + One(~f.tauri) + One(~f.plugin) + One(~f.wired)
          /\ tally'.warn = tally.warn + One(~f.tests) + One(GrantWarns(f))
          /\ at' = "server"
      <4> DEFINE p == 1 + One(f.tauri) + One(f.plugin) + One(f.tests) + One(f.wired) + One(GrantPasses(f))
      <4> DEFINE n == One(~f.tauri) + One(~f.plugin) + One(~f.wired)
      <4> DEFINE w == One(~f.tests) + One(GrantWarns(f))
      <4>1. p \in Nat /\ n \in Nat /\ w \in Nat
        BY DEF One
      <4>2. tally' = Count(p, n, w) /\ at' = "server"
        BY <1>3, <2>3 DEF CheckProject
      <4> HIDE DEF p, n, w
      <4>3. tally'.fail = tally.fail + n /\ tally'.warn = tally.warn + w
        BY <4>2 DEF Count
      <4>4. /\ tally.fail + n = tally.fail + One(~f.tauri) + One(~f.plugin) + One(~f.wired)
            /\ tally.warn + w = tally.warn + One(~f.tests) + One(GrantWarns(f))
        BY <1>1 DEF n, w, One
      <4> QED BY <4>2, <4>3, <4>4
    <3>2. tally'.fail = 0 => f.tauri /\ f.plugin /\ f.wired
      BY <1>1, <3>1 DEF One
    <3>3. tally'.warn = 0 => ~GrantWarns(f)
      BY <1>1, <3>1 DEF One
    <3> QED BY <1>1, <2>1, <2>3, <3>1, <3>2, <3>3 DEF DoctorInv
  <2> QED BY <2>2, <2>3
<1>4. CASE CheckServer
  <2>1. /\ at = "server" /\ "looks_good" \notin said /\ f.manifest
        /\ (tally.fail = 0 => f.tauri /\ f.plugin /\ f.wired)
        /\ (tally.warn = 0 => ~GrantWarns(f))
    BY <1>4 DEF CheckServer, CliInv, DoctorInv
  <2>2. CASE apps = 1
    <3>1. at' = "probes" /\ tally'.fail = tally.fail /\ tally'.warn = tally.warn /\ said' = said
      BY <1>1, <1>4, <2>2 DEF CheckServer, Count
    <3> QED BY <1>1, <2>1, <3>1 DEF DoctorInv
  <2>3. CASE apps # 1
    <3>1. /\ at' = "summary" /\ tally'.fail = tally.fail /\ tally'.warn = tally.warn + One(apps = 2)
          /\ said' = IF apps = 0 THEN said \cup {"skipped"} ELSE said
      BY <1>1, <1>4, <2>3 DEF CheckServer, Count
    <3>2. "looks_good" \notin said'
      BY <2>1, <3>1
    <3>3. apps \in {0, 2}
      BY <2>3 DEF CliInv, CliTypeOK
    <3>4. tally'.warn = 0 => tally.warn = 0 /\ apps = 0
      BY <1>1, <3>1, <3>3 DEF One
    <3>5. tally'.warn = 0 => "skipped" \in said'
      BY <3>1, <3>4
    <3> QED BY <1>1, <2>1, <3>1, <3>2, <3>5 DEF DoctorInv
  <2> QED BY <2>2, <2>3
<1>5. ASSUME NEW info \in BOOLEAN, NEW page \in BOOLEAN, NEW healthy \in BOOLEAN,
             Probe(info, page, healthy)
      PROVE  DoctorInv'
  <2>1. /\ at = "probes" /\ "looks_good" \notin said /\ f.manifest
        /\ (tally.fail = 0 => f.tauri /\ f.plugin /\ f.wired)
        /\ (tally.warn = 0 => ~GrantWarns(f))
        /\ at' = "summary" /\ said' = said
    BY <1>5 DEF Probe, CliInv, DoctorInv
  <2>2. /\ tally'.fail = tally.fail + One(~info) + 3 * One(~page)
        /\ tally'.warn = tally.warn + One(page /\ ~healthy)
    BY <1>1, <1>5 DEF Probe, Count, One
  <2>3. tally'.fail = 0 => tally.fail = 0 /\ page
    BY <1>1, <2>2 DEF One
  <2>4. tally'.warn = 0 => tally.warn = 0
    BY <1>1, <2>2 DEF One
  <2>5. page => f.grant \notin {"none", "no_directory"}
    BY <1>5 DEF Probe
  <2>6. tally'.fail = 0 /\ tally'.warn = 0 => GrantPasses(f)
    BY <1>1, <2>1, <2>3, <2>4, <2>5 DEF GrantPasses, GrantWarns
  <2> QED BY <1>1, <2>1, <2>3, <2>6 DEF DoctorInv
<1>6. CASE Summarise
  <2>1. /\ at = "summary" /\ "looks_good" \notin said /\ f.manifest
        /\ (tally.fail = 0 => f.tauri /\ f.plugin /\ f.wired)
        /\ (tally.fail = 0 /\ tally.warn = 0 => GrantPasses(f) \/ "skipped" \in said)
    BY <1>6 DEF Summarise, CliInv, DoctorInv
  <2>2. at' = "exited" /\ code' = One(tally.fail > 0)
    BY <1>6 DEF Summarise, Exit
  <2>3. "looks_good" \in said' => tally.fail = 0 /\ tally.warn = 0
    BY <1>6, <2>1 DEF Summarise
  <2>4. said \subseteq said'
    BY <1>6 DEF Summarise
  <2>5. code' = 0 => tally.fail = 0
    BY <1>1, <2>2 DEF One
  <2> QED BY <1>1, <2>1, <2>2, <2>3, <2>4, <2>5 DEF DoctorInv, OtherCodes
<1> QED BY <1>2, <1>3, <1>4, <1>5, <1>6, DoctorSteps

LEMMA CliKeepsIt == CliInv /\ [CliNext]_cliVars => CliInv'
<1> SUFFICES ASSUME CliInv, [CliNext]_cliVars PROVE CliInv'
  OBVIOUS
<1>1. CASE CliNext
  <2>1. cmd' = cmd
    BY <1>1 DEF CliNext, AppChanges, RefuseUsage, FindApp, CallOnce, ToolFailed,
       SaveImage, AllSaved, ListTools, PrintResult, RunSuite, WriteReport, NoReport,
       ExitWithVerdict, StartRecording, StopRecording, WriteTest, CheckProject,
       CheckServer, Summarise, Probe
  <2>2. CallInv'
    BY <1>1, <2>1, CallIsTrue DEF CallInv
  <2>3. SuiteInv'
    BY <1>1, <2>1, SuiteIsTrue DEF SuiteInv
  <2>4. RecordInv'
    BY <1>1, <2>1, RecordIsTrue DEF RecordInv
  <2>5. DoctorInv'
    BY <1>1, <2>1, DoctorIsTrue DEF DoctorInv
  <2> QED BY <1>1, <2>2, <2>3, <2>4, <2>5, TypeIsKept DEF CliInv
<1>2. CASE UNCHANGED cliVars
  BY <1>2 DEF cliVars, CliInv, CliTypeOK, CallInv, SuiteInv, RecordInv, DoctorInv,
     CallCodes, SuiteCodes, OtherCodes, Verdict
<1> QED BY <1>1, <1>2

(* What a finished command tells its caller is true of what happened, for any number of *)
(* images and however often the application starts and dies meanwhile.                   *)
THEOREM VerdictsAreTrueAlways == CliSpec => []VerdictsAreTrue
<1>1. CliInv => VerdictsAreTrue
  <2> SUFFICES ASSUME CliInv PROVE VerdictsAreTrue
    OBVIOUS
  <2>1. (code # Unset => at = "exited") /\ Unset # 0
    BY UnsetIsNoCode DEF CliInv, CliTypeOK
  <2>2. CallCodes
    BY <2>1 DEF CliInv, CallInv, CallCodes
  <2>3. SuiteCodes
    BY <2>1 DEF CliInv, SuiteInv, SuiteCodes
  <2>4. OtherCodes
    BY <2>1 DEF CliInv, RecordInv, DoctorInv, OtherCodes
  <2> QED BY <2>2, <2>3, <2>4 DEF VerdictsAreTrue
<1> QED BY <1>1, CliStarts, CliKeepsIt, PTL DEF CliSpec

-----------------------------------------------------------------------------

(***************************************************************************)
(* CallsReachTheirApp for any processes, ports, identities and clients.    *)
(* Tokens are never used twice, so what a client read of a launch stays    *)
(* true of it or is of one that is gone: an entry read whole names the     *)
(* port of the launch with its token (SeenOk), and a half-read one is of   *)
(* the launch whose port it has (ReadOk). The token a client holds is      *)
(* therefore of the application it was made for, or of nobody (BoundInv),  *)
(* and a call it sends is run by the process with that token. With an      *)
(* explicit port nothing of this holds, and the other run shows it.        *)
(***************************************************************************)

KnownIds == Ids \cup {None}
LiveAts == {"bound", "token", "port", "up", "closing"}
Processes == [at : LiveAts \cup {"gone", "other"}, id : KnownIds, port : Nat, token : Nat]
EntryFiles == [port : Nat, token : Nat, id : KnownIds]
ReadFiles == [port : Nat, token : Nat, of : Nat]
SeenEntries == [pid : Pids, port : Nat, token : Nat, id : KnownIds, of : Nat]
ClientStates == [at : {"new", "scans", "shakes", "asks", "idle", "sends", "waits"},
            why : {"discover", "rpc", "reconnect"}, port : Nat, token : Nat, id : KnownIds,
            left : SUBSET Pids, reading : Pids \cup {None}, found : ReadFiles, seen : SUBSET SeenEntries,
            call : Nat, calls : Nat, refused : BOOLEAN, denied : BOOLEAN]
RunRecords == [call : Nat, id : KnownIds, whose : KnownIds]

WorldTypeOK == procs \in [Pids -> Processes] /\ entry \in [Pids -> EntryFiles] /\ starts \in Nat
ClientTypeOK == client \in ClientStates /\ ran \in Seq(RunRecords)

(* A process that is an application has a port and a token of its own; the files say of   *)
(* it what it has written so far.                                                         *)
ProcessOk(p) ==
  IF procs[p].at \in LiveAts
  THEN procs[p].id \in Ids /\ procs[p].port \in Ports /\ procs[p].token \in 1..starts
  ELSE procs[p].id = None /\ procs[p].port = 0 /\ procs[p].token = 0
FilesOk(p) ==
  /\ procs[p].at \in {"bound", "closing"} => entry[p] = NoFiles
  /\ procs[p].at \in {"token", "port", "up"} => entry[p].token = procs[p].token
  /\ procs[p].at = "token" => entry[p].port = 0
  /\ procs[p].at \in {"port", "up"} => entry[p].port = procs[p].port
  /\ procs[p].at \in {"token", "port"} => entry[p].id = None
  /\ procs[p].at = "up" => entry[p].id = procs[p].id
  /\ entry[p].token <= starts
Apart ==
  \A p, q \in Pids :
    /\ procs[p].token = procs[q].token /\ procs[p].token # 0 => p = q
    /\ procs[p].port = procs[q].port /\ procs[p].port # 0 => p = q
    /\ entry[p].token = procs[q].token /\ entry[p].token # 0 => p = q
WorldInv == WorldTypeOK /\ Apart /\ \A p \in Pids : ProcessOk(p) /\ FilesOk(p)

(* What a client has read goes with the launch that holds the token, while that runs. *)
Current(p, port, of) == procs[p].token = of /\ procs[p].at # "closing" /\ port = procs[p].port
SeenOk(s) ==
  /\ s.port # 0 /\ s.of <= starts /\ s.token <= starts
  /\ Current(s.pid, s.port, s.of) => s.token = s.of
  /\ \A q \in Pids : procs[q].token = s.token /\ s.token # 0 => s.id \in {None, procs[q].id}
ReadOk(r, f) ==
  /\ f.port # 0 /\ f.of <= starts /\ f.token <= starts
  /\ Current(r, f.port, f.of) => entry[r].token = f.of /\ f.token \in {0, f.of}
  /\ \A q \in Pids : procs[q].token = f.token /\ f.token # 0 => q = r
ReadInv ==
  /\ \A s \in client.seen : SeenOk(s)
  /\ client.reading # None => ReadOk(client.reading, client.found)

(* The token a client holds is of the application it was made for, and once that has      *)
(* shaken hands the token goes with the port.                                             *)
HoldsToken(q) == procs[q].token = client.token /\ client.token # 0
BoundInv ==
  /\ client.token <= starts
  /\ client.id # None => \A q \in Pids : HoldsToken(q) => procs[q].id = client.id
  /\ client.at = "asks" => client.token # 0 /\ \A q \in Pids : HoldsToken(q) => procs[q].port = client.port

(* Every call has run at most once, and the one in hand not yet.                          *)
CountedInv ==
  /\ \A i \in DOMAIN ran : ran[i].call <= client.calls /\ (client.call # 0 => ran[i].call # client.call)
  /\ client.call \in {0, client.calls}
  /\ client.at = "sends" => client.call # 0

RvInv ==
  /\ WorldInv /\ ClientTypeOK /\ ReadInv /\ BoundInv /\ CountedInv
  /\ CallsStayWithTheApp /\ CallsRunOnce

LEMMA RvStarts == RvInit => RvInv
<1> SUFFICES ASSUME RvInit PROVE RvInv
  OBVIOUS
<1>1. WorldInv
  <2>1. Gone \in Processes /\ NoFiles \in EntryFiles
    BY DEF Gone, NoFiles, Processes, EntryFiles, KnownIds
  <2>2. WorldTypeOK
    BY <2>1 DEF RvInit, WorldTypeOK
  <2>3. \A p \in Pids : procs[p] = Gone /\ entry[p] = NoFiles
    BY DEF RvInit
  <2> QED BY <2>2, <2>3 DEF WorldInv, Apart, ProcessOk, FilesOk, Gone, NoFiles, LiveAts,
             RvInit
<1>2. ClientTypeOK
  BY DEF RvInit, ClientTypeOK, NewClient, NotRead, ClientStates, ReadFiles, KnownIds
<1>3. ReadInv /\ BoundInv /\ CountedInv /\ CallsStayWithTheApp /\ CallsRunOnce
  BY DEF RvInit, ReadInv, BoundInv, CountedInv, CallsStayWithTheApp, CallsRunOnce, NewClient,
     HoldsToken
<1> QED BY <1>1, <1>2, <1>3 DEF RvInv

(* A process keeps what it is while it lives; who starts has a token nobody has seen. *)
LivesOn(q) ==
  procs'[q].token # 0 =>
    \/ procs'[q].token > starts
    \/ /\ procs'[q].token = procs[q].token /\ procs'[q].id = procs[q].id
       /\ procs'[q].port = procs[q].port
       /\ procs[q].at = "closing" => procs'[q].at = "closing"
       /\ procs'[q].at = "bound" => procs[q].at = "bound"

LEMMA ClientsAreSpared ==
  ASSUME RvInv, WorldInv', UNCHANGED <<client, ran>>, starts' \in Nat, starts <= starts',
         \A q \in Pids : LivesOn(q)
  PROVE  RvInv'
<1>1. /\ starts \in Nat /\ client \in ClientStates /\ ran \in Seq(RunRecords)
      /\ procs \in [Pids -> Processes] /\ procs' \in [Pids -> Processes]
  BY DEF RvInv, WorldInv, WorldTypeOK, ClientTypeOK
<1>2. ClientTypeOK'
  BY DEF RvInv, ClientTypeOK
<1>3. \A q \in Pids : procs[q].token \in Nat /\ procs'[q].token \in Nat
  BY <1>1 DEF Processes
<1>4. ASSUME NEW p \in Pids, NEW port, port # 0, NEW of \in Nat, of <= starts, Current(p, port, of)'
      PROVE  /\ Current(p, port, of) /\ (procs'[p].at = "bound" => procs[p].at = "bound")
             /\ procs'[p].at \in LiveAts /\ procs'[p].token # 0
  <2>1. procs'[p].at \in LiveAts /\ procs'[p].token \in 1..starts'
    BY <1>4 DEF WorldInv, ProcessOk, Current
  <2>2. procs'[p].token # 0 /\ ~(procs'[p].token > starts)
    BY <1>1, <1>3, <1>4, <2>1 DEF Current
  <2> QED BY <1>4, <2>1, <2>2 DEF LivesOn, Current
<1>5. ASSUME NEW t \in Nat, t <= starts, t # 0, NEW q \in Pids, procs'[q].token = t
      PROVE  procs[q].token = t /\ procs[q].id = procs'[q].id /\ procs[q].port = procs'[q].port
  BY <1>1, <1>5 DEF LivesOn
<1>6. ASSUME NEW s \in client.seen PROVE SeenOk(s)'
  <2>1. SeenOk(s) /\ s \in SeenEntries
    BY <1>1 DEF RvInv, ReadInv, ClientStates
  <2>2. s.of \in Nat /\ s.token \in Nat /\ s.pid \in Pids
    BY <2>1 DEF SeenEntries
  <2>3. s.port # 0 /\ s.of <= starts' /\ s.token <= starts'
    BY <1>1, <2>1, <2>2 DEF SeenOk
  <2>4. ASSUME Current(s.pid, s.port, s.of)' PROVE s.token = s.of
    BY <1>4, <2>1, <2>2, <2>4 DEF SeenOk
  <2>5. ASSUME NEW q \in Pids, procs'[q].token = s.token, s.token # 0
        PROVE  s.id \in {None, procs'[q].id}
    BY <1>5, <2>1, <2>2, <2>5 DEF SeenOk
  <2> QED BY <2>3, <2>4, <2>5 DEF SeenOk
<1>7. ASSUME client.reading # None PROVE ReadOk(client.reading, client.found)'
  <2> DEFINE r == client.reading
  <2> DEFINE f == client.found
  <2>1. ReadOk(r, f) /\ r \in Pids /\ f \in ReadFiles
    BY <1>1, <1>7 DEF RvInv, ReadInv, ClientStates
  <2>2. f.of \in Nat /\ f.token \in Nat
    BY <2>1 DEF ReadFiles
  <2>3. r' = r /\ f' = f
    OBVIOUS
  <2> HIDE DEF r, f
  <2>4. f.port # 0 /\ f.of <= starts' /\ f.token <= starts'
    BY <1>1, <2>1, <2>2 DEF ReadOk
  <2>5. ASSUME Current(r, f.port, f.of)' PROVE entry'[r].token = f.of /\ f.token \in {0, f.of}
    <3>1. /\ Current(r, f.port, f.of) /\ (procs'[r].at = "bound" => procs[r].at = "bound")
          /\ procs'[r].at \in LiveAts /\ procs'[r].token # 0 /\ f.port # 0 /\ f.of <= starts
      <4>1. f.port # 0 /\ f.of <= starts
        BY <2>1 DEF ReadOk
      <4>2. (procs[r].token = f.of /\ procs[r].at # "closing" /\ f.port = procs[r].port)'
        BY <2>3, <2>5 DEF Current
      <4>3. procs'[r].token = f.of /\ procs'[r].at # "closing" /\ f.port = procs'[r].port
        BY <2>3, <4>2
      <4>4. procs'[r].at \in LiveAts /\ procs'[r].token \in 1..starts'
        BY <2>1, <4>1, <4>3 DEF WorldInv, ProcessOk
      <4>5. procs'[r].token # 0 /\ ~(procs'[r].token > starts)
        BY <1>1, <2>2, <4>1, <4>3, <4>4
      <4>6. LivesOn(r)
        BY <2>1
      <4> QED BY <4>1, <4>3, <4>4, <4>5, <4>6 DEF LivesOn, Current
    <3>2. entry[r].token = f.of /\ f.token \in {0, f.of}
      BY <2>1, <3>1 DEF ReadOk
    <3>3. procs'[r].token = f.of /\ procs'[r].at # "closing"
      BY <2>3, <2>5 DEF Current
    <3>4. procs'[r].at # "bound"
      <4>1. ASSUME procs[r].at = "bound" PROVE FALSE
        <5>1. entry[r] = NoFiles
          BY <2>1, <4>1 DEF RvInv, WorldInv, FilesOk
        <5>2. f.of = 0
          BY <3>2, <5>1 DEF NoFiles
        <5> QED BY <3>1, <3>3, <5>2
      <4> QED BY <3>1, <4>1
    <3>5. entry'[r].token = procs'[r].token
      BY <2>1, <3>1, <3>3, <3>4 DEF WorldInv, FilesOk, LiveAts
    <3> QED BY <3>2, <3>3, <3>5
  <2>6. ASSUME NEW q \in Pids, procs'[q].token = f.token, f.token # 0 PROVE q = r
    BY <1>5, <2>1, <2>2, <2>6 DEF ReadOk
  <2> QED BY <2>3, <2>4, <2>5, <2>6 DEF ReadOk, r, f
<1>8. ReadInv'
  BY <1>6, <1>7 DEF ReadInv
<1>9. BoundInv'
  <2>1. client.token \in Nat /\ client.token <= starts
    BY <1>1 DEF RvInv, BoundInv, ClientStates
  <2>2. client.token <= starts'
    BY <1>1, <2>1
  <2>3. \A q \in Pids : HoldsToken(q)' => HoldsToken(q) /\ procs'[q].id = procs[q].id
                                      /\ procs'[q].port = procs[q].port
    BY <1>5, <2>1 DEF HoldsToken
  <2> QED BY <2>2, <2>3 DEF RvInv, BoundInv
<1>10. CountedInv' /\ CallsStayWithTheApp' /\ CallsRunOnce'
  BY DEF RvInv, CountedInv, CallsStayWithTheApp, CallsRunOnce
<1> QED BY <1>2, <1>8, <1>9, <1>10 DEF RvInv


LEMMA StartsAreNew ==
  ASSUME RvInv, "app" \notin Reuse, NEW p \in Pids, NEW id \in Ids, StartApp(p, id)
  PROVE  RvInv'
<1> DEFINE port == Lowest(Ports \ Held)
<1> DEFINE new == [at |-> "bound", id |-> id, port |-> port, token |-> starts + 1]
<1>1. /\ starts \in Nat /\ procs \in [Pids -> Processes] /\ entry \in [Pids -> EntryFiles] /\ WorldInv
      /\ starts' = starts + 1 /\ procs' = [procs EXCEPT ![p] = new] /\ UNCHANGED <<entry, client, ran>>
      /\ procs[p].at = "gone" /\ entry[p] = NoFiles /\ Ports \ Held # {}
  BY DEF RvInv, WorldInv, WorldTypeOK, StartApp
<1>2. port \in Ports \ Held /\ port \in Nat /\ port # 0
  <2>1. Ports \ Held \subseteq Nat /\ 0 \notin Ports
    BY RendezvousAssumption
  <2> QED BY <1>1, <2>1, SomeIsSmallest DEF Lowest
<1> HIDE DEF port
<1>3. new \in Processes
  BY <1>1, <1>2 DEF Processes, LiveAts, KnownIds
<1>4. new.at = "bound" /\ new.id = id /\ new.port = port /\ new.token = starts + 1
  OBVIOUS
<1> HIDE DEF new
<1>5. procs'[p] = new /\ \A q \in Pids : q # p => procs'[q] = procs[q]
  BY <1>1
<1>6. \A q \in Pids : procs[q].port # port /\ procs[q].token \in Nat /\ procs[q].token <= starts
                      /\ entry[q].token \in Nat /\ entry[q].token <= starts
  <2> SUFFICES ASSUME NEW q \in Pids
               PROVE  /\ procs[q].port # port /\ procs[q].token \in Nat /\ procs[q].token <= starts
                      /\ entry[q].token \in Nat /\ entry[q].token <= starts
    OBVIOUS
  <2>1. procs[q].port # port
    BY <1>2 DEF Held
  <2>2. procs[q] \in Processes /\ entry[q] \in EntryFiles /\ ProcessOk(q) /\ FilesOk(q)
    BY <1>1 DEF WorldInv
  <2>3. procs[q].token \in Nat /\ entry[q].token \in Nat /\ entry[q].token <= starts
    BY <2>2 DEF Processes, EntryFiles, FilesOk
  <2>4. procs[q].token <= starts
    BY <1>1, <2>2 DEF ProcessOk
  <2> QED BY <2>1, <2>3, <2>4
<1>7. WorldInv'
  <2>1. WorldTypeOK'
    BY <1>1, <1>3 DEF WorldTypeOK
  <2>2. Apart'
    <3> SUFFICES ASSUME NEW x \in Pids, NEW y \in Pids
                 PROVE  /\ procs'[x].token = procs'[y].token /\ procs'[x].token # 0 => x = y
                        /\ procs'[x].port = procs'[y].port /\ procs'[x].port # 0 => x = y
                        /\ entry[x].token = procs'[y].token /\ entry[x].token # 0 => x = y
      BY <1>1 DEF Apart
    <3>1. /\ procs[x].token = procs[y].token /\ procs[x].token # 0 => x = y
          /\ procs[x].port = procs[y].port /\ procs[x].port # 0 => x = y
          /\ entry[x].token = procs[y].token /\ entry[x].token # 0 => x = y
      BY <1>1 DEF WorldInv, Apart
    <3> QED BY <1>1, <1>4, <1>5, <1>6, <3>1
  <2>3. ASSUME NEW q \in Pids PROVE ProcessOk(q)' /\ FilesOk(q)'
    <3>1. CASE q = p
      <4>1. ProcessOk(q)'
        BY <1>1, <1>2, <1>4, <1>5, <3>1 DEF ProcessOk, LiveAts
      <4>2. FilesOk(q)'
        BY <1>1, <1>4, <1>5, <3>1 DEF FilesOk, NoFiles
      <4> QED BY <4>1, <4>2
    <3>2. CASE q # p
      <4>1. procs'[q] = procs[q] /\ entry'[q] = entry[q] /\ ProcessOk(q) /\ FilesOk(q)
        BY <1>1, <1>5, <3>2 DEF WorldInv
      <4>2. ProcessOk(q)'
        BY <1>1, <4>1 DEF ProcessOk
      <4>3. FilesOk(q)'
        BY <1>1, <1>6, <4>1 DEF FilesOk
      <4> QED BY <4>2, <4>3
    <3> QED BY <3>1, <3>2
  <2> QED BY <2>1, <2>2, <2>3 DEF WorldInv
<1>8. \A q \in Pids : LivesOn(q)
  <2> SUFFICES ASSUME NEW q \in Pids PROVE LivesOn(q)
    OBVIOUS
  <2>1. CASE q = p
    BY <1>1, <1>4, <1>5, <2>1 DEF LivesOn
  <2>2. CASE q # p
    BY <1>5, <2>2 DEF LivesOn
  <2> QED BY <2>1, <2>2
<1> QED BY <1>1, <1>7, <1>8, ClientsAreSpared

(* A step of one process, which keeps its port and its token or gives both up. *)
LEMMA OneProcessMoves ==
  ASSUME RvInv, NEW p \in Pids, NEW new \in Processes, NEW files \in EntryFiles,
         procs' = [procs EXCEPT ![p] = new], entry' = [entry EXCEPT ![p] = files],
         UNCHANGED <<starts, client, ran>>, ProcessOk(p)', FilesOk(p)',
         \/ new.port = 0 /\ new.token = 0
         \/ /\ new.token = procs[p].token /\ new.id = procs[p].id /\ new.port = procs[p].port
            /\ procs[p].at # "closing" /\ new.at # "bound",
         files.token \in {0, entry[p].token} \/ files.token = procs[p].token
  PROVE  RvInv'
<1>1. /\ starts \in Nat /\ procs \in [Pids -> Processes] /\ entry \in [Pids -> EntryFiles] /\ WorldInv
  BY DEF RvInv, WorldInv, WorldTypeOK
<1>2. /\ procs'[p] = new /\ entry'[p] = files
      /\ \A q \in Pids : q # p => procs'[q] = procs[q] /\ entry'[q] = entry[q]
  BY <1>1
<1>3. WorldInv'
  <2>1. WorldTypeOK'
    BY <1>1 DEF WorldTypeOK
  <2>2. Apart'
    <3> SUFFICES ASSUME NEW x \in Pids, NEW y \in Pids
                 PROVE  /\ procs'[x].token = procs'[y].token /\ procs'[x].token # 0 => x = y
                        /\ procs'[x].port = procs'[y].port /\ procs'[x].port # 0 => x = y
                        /\ entry'[x].token = procs'[y].token /\ entry'[x].token # 0 => x = y
      BY DEF Apart
    <3>1. /\ procs[x].token = procs[y].token /\ procs[x].token # 0 => x = y
          /\ procs[x].port = procs[y].port /\ procs[x].port # 0 => x = y
          /\ entry[x].token = procs[y].token /\ entry[x].token # 0 => x = y
      BY <1>1 DEF WorldInv, Apart
    <3>2. \A q \in {x, y} : /\ procs'[q].token \in {0, procs[q].token}
                            /\ procs'[q].port \in {0, procs[q].port}
      BY <1>2
    <3>3. entry'[x].token \in {0, entry[x].token, procs[x].token}
      BY <1>2
    <3> QED BY <3>1, <3>2, <3>3
  <2>3. ASSUME NEW q \in Pids PROVE ProcessOk(q)' /\ FilesOk(q)'
    <3>1. CASE q = p
      BY <3>1
    <3>2. CASE q # p
      <4>1. procs'[q] = procs[q] /\ entry'[q] = entry[q] /\ ProcessOk(q) /\ FilesOk(q)
        BY <1>1, <1>2, <3>2 DEF WorldInv
      <4>2. ProcessOk(q)'
        BY <4>1 DEF ProcessOk
      <4>3. FilesOk(q)'
        BY <4>1 DEF FilesOk
      <4> QED BY <4>2, <4>3
    <3> QED BY <3>1, <3>2
  <2> QED BY <2>1, <2>2, <2>3 DEF WorldInv
<1>4. \A q \in Pids : LivesOn(q)
  <2> SUFFICES ASSUME NEW q \in Pids PROVE LivesOn(q)
    OBVIOUS
  <2>1. CASE q = p
    BY <1>2, <2>1 DEF LivesOn
  <2>2. CASE q # p
    BY <1>2, <2>2 DEF LivesOn
  <2> QED BY <2>1, <2>2
<1> QED BY <1>1, <1>3, <1>4, ClientsAreSpared

LEMMA ProcessesKeepIt ==
  ASSUME RvInv, NEW p \in Pids,
         WriteFile(p) \/ Shutdown(p) \/ ProcessEnds(p) \/ OtherProcess(p)
  PROVE  RvInv'
<1>1. /\ starts \in Nat /\ procs \in [Pids -> Processes] /\ entry \in [Pids -> EntryFiles]
      /\ procs[p] \in Processes /\ entry[p] \in EntryFiles /\ ProcessOk(p) /\ FilesOk(p)
  BY DEF RvInv, WorldInv, WorldTypeOK
<1>2. entry[p].token \in Nat /\ procs[p].token \in Nat
  BY <1>1 DEF EntryFiles, Processes
<1>3. CASE Shutdown(p)
  <2> DEFINE new == [procs[p] EXCEPT !.at = "closing"]
  <2>1. /\ procs[p].at = "up" /\ procs' = [procs EXCEPT ![p] = new]
        /\ entry' = [entry EXCEPT ![p] = NoFiles] /\ UNCHANGED <<starts, client, ran>>
    BY <1>1, <1>3 DEF Shutdown
  <2>2. /\ new \in Processes /\ new.at = "closing" /\ new.token = procs[p].token
        /\ new.id = procs[p].id /\ new.port = procs[p].port
    BY <1>1 DEF Processes, LiveAts
  <2>3. NoFiles \in EntryFiles /\ NoFiles.token = 0
    BY DEF NoFiles, EntryFiles, KnownIds
  <2> HIDE DEF new
  <2>4. procs'[p] = new /\ entry'[p] = NoFiles
    BY <1>1, <2>1
  <2>5. ProcessOk(p)'
    BY <1>1, <2>1, <2>2, <2>4 DEF ProcessOk, LiveAts
  <2>6. FilesOk(p)'
    BY <1>1, <2>1, <2>2, <2>3, <2>4 DEF FilesOk
  <2> QED BY <2>1, <2>2, <2>3, <2>5, <2>6, OneProcessMoves
<1>4. CASE ProcessEnds(p)
  <2>1. /\ procs' = [procs EXCEPT ![p] = Gone] /\ entry' = [entry EXCEPT ![p] = entry[p]]
        /\ UNCHANGED <<starts, client, ran>>
    BY <1>1, <1>4 DEF ProcessEnds
  <2>2. Gone \in Processes /\ Gone.at = "gone" /\ Gone.port = 0 /\ Gone.token = 0 /\ Gone.id = None
    BY DEF Gone, Processes, KnownIds
  <2>3. procs'[p] = Gone /\ entry'[p] = entry[p]
    BY <1>1, <2>1
  <2>4. ProcessOk(p)'
    BY <2>2, <2>3 DEF ProcessOk, LiveAts
  <2>5. FilesOk(p)'
    BY <1>1, <2>1, <2>2, <2>3 DEF FilesOk
  <2> QED BY <1>1, <2>1, <2>2, <2>4, <2>5, OneProcessMoves
<1>5. CASE OtherProcess(p)
  <2> DEFINE new == [procs[p] EXCEPT !.at = "other"]
  <2>1. /\ procs[p].at = "gone" /\ procs' = [procs EXCEPT ![p] = new]
        /\ entry' = [entry EXCEPT ![p] = entry[p]] /\ UNCHANGED <<starts, client, ran>>
    BY <1>1, <1>5 DEF OtherProcess
  <2>2. /\ new \in Processes /\ new.at = "other" /\ new.token = procs[p].token
        /\ new.id = procs[p].id /\ new.port = procs[p].port
    BY <1>1 DEF Processes, LiveAts
  <2> HIDE DEF new
  <2>3. procs'[p] = new /\ entry'[p] = entry[p]
    BY <1>1, <2>1
  <2>4. ProcessOk(p)' /\ new.port = 0 /\ new.token = 0
    BY <1>1, <2>1, <2>2, <2>3 DEF ProcessOk, LiveAts
  <2>5. FilesOk(p)'
    BY <1>1, <2>1, <2>2, <2>3 DEF FilesOk
  <2> QED BY <1>1, <2>1, <2>2, <2>4, <2>5, OneProcessMoves
<1>6. CASE WriteFile(p)
  <2> DEFINE f == NextFile(procs[p].at)
  <2> DEFINE new == [procs[p] EXCEPT !.at = IF f = "id" THEN "up" ELSE f]
  <2> DEFINE files == CASE f = "token" -> [entry[p] EXCEPT !.token = procs[p].token]
                        [] f = "port" -> [entry[p] EXCEPT !.port = procs[p].port]
                        [] f = "id" -> [entry[p] EXCEPT !.id = procs[p].id]
  <2>1. NextFile("port") = "id"
    BY DEF NextFile
  <2>2. /\ procs[p].at \in {"bound", "token", "port"} /\ procs' = [procs EXCEPT ![p] = new]
        /\ entry' = [entry EXCEPT ![p] = files] /\ UNCHANGED <<starts, client, ran>>
    BY <1>1, <1>6, <2>1 DEF WriteFile
  <2>3. /\ procs[p].at = "bound" => f = "token"
        /\ procs[p].at = "token" => f = "port"
        /\ procs[p].at = "port" => f = "id"
    BY DEF NextFile
  <2> HIDE DEF f
  <2>4. /\ new \in Processes /\ new.at = (IF f = "id" THEN "up" ELSE f)
        /\ new.token = procs[p].token /\ new.id = procs[p].id /\ new.port = procs[p].port
    BY <1>1, <2>2, <2>3 DEF Processes, LiveAts
  <2>5. /\ files \in EntryFiles
        /\ files.token = IF f = "token" THEN procs[p].token ELSE entry[p].token
        /\ files.port = IF f = "port" THEN procs[p].port ELSE entry[p].port
        /\ files.id = IF f = "id" THEN procs[p].id ELSE entry[p].id
    <3>1. procs[p].token \in Nat /\ procs[p].port \in Nat /\ procs[p].id \in KnownIds
      BY <1>1 DEF Processes
    <3>2. CASE f = "token"
      BY <1>1, <3>1, <3>2 DEF EntryFiles
    <3>3. CASE f = "port"
      BY <1>1, <3>1, <3>3 DEF EntryFiles
    <3>4. CASE f = "id"
      BY <1>1, <3>1, <3>4 DEF EntryFiles
    <3> QED BY <2>2, <2>3, <3>2, <3>3, <3>4
  <2> HIDE DEF new, files
  <2>6. procs'[p] = new /\ entry'[p] = files
    BY <1>1, <2>2
  <2>7. ProcessOk(p)'
    BY <1>1, <2>2, <2>3, <2>4, <2>6 DEF ProcessOk, LiveAts
  <2>8. FilesOk(p)'
    <3>1. procs[p].token <= starts
      BY <1>1, <2>2 DEF ProcessOk, LiveAts
    <3> QED BY <1>1, <1>2, <2>2, <2>3, <2>4, <2>5, <2>6, <3>1 DEF FilesOk, NoFiles
  <2>9. procs[p].at # "closing" /\ new.at # "bound"
    BY <2>2, <2>3, <2>4
  <2>10. files.token \in {0, entry[p].token} \/ files.token = procs[p].token
    BY <2>5
  <2> QED BY <2>2, <2>4, <2>5, <2>7, <2>8, <2>9, <2>10, OneProcessMoves
<1> QED BY <1>3, <1>4, <1>5, <1>6


(***************************************************************************)
(* The client. *)

(* A client step that reads nothing new and asks for nothing new. *)
Holds(c) == /\ c.id = client.id /\ c.port = client.port /\ c.token = client.token
            /\ c.seen \subseteq client.seen /\ c.reading = client.reading /\ c.found = client.found
            /\ c.calls = client.calls /\ c.call \in {0, client.call}

LEMMA ClientMoves ==
  ASSUME RvInv, client' \in ClientStates, Holds(client'), UNCHANGED <<procs, entry, starts, ran>>,
         client'.at = "asks" => client.at = "asks" \/ Accepts(client.port, client.token),
         client'.at = "sends" => client'.call # 0
  PROVE  RvInv'
<1>1. /\ WorldInv /\ client \in ClientStates /\ ran \in Seq(RunRecords)
  BY DEF RvInv, ClientTypeOK
<1>2. WorldInv'
  BY <1>1 DEF WorldInv, WorldTypeOK, Apart, ProcessOk, FilesOk
<1>3. ClientTypeOK'
  BY <1>1 DEF ClientTypeOK
<1>4. ReadInv'
  BY DEF RvInv, ReadInv, Holds, SeenOk, ReadOk, Current
<1>5. ASSUME Accepts(client.port, client.token)
      PROVE  client.token # 0 /\ \A q \in Pids : HoldsToken(q) => procs[q].port = client.port
  <2>1. \E q \in Pids : Listens(q, client.port)
    BY <1>5 DEF Accepts, reachable
  <2>2. /\ Server(client.port) \in Pids /\ Listens(Server(client.port), client.port)
        /\ procs[Server(client.port)].token = client.token
    BY <1>5, <2>1 DEF Accepts, Server
  <2>3. procs[Server(client.port)].port = client.port /\ client.port # 0
    BY <2>2 DEF Listens
  <2>4. client.token # 0
    <3>1. 0 \notin 1..starts
      BY <1>1 DEF WorldInv, WorldTypeOK
    <3> QED BY <1>1, <2>2, <2>3, <3>1 DEF WorldInv, ProcessOk
  <2> QED BY <1>1, <2>2, <2>3, <2>4 DEF WorldInv, Apart, HoldsToken
<1>6. BoundInv'
  BY <1>5 DEF RvInv, BoundInv, Holds, HoldsToken
<1>7. CountedInv' /\ CallsStayWithTheApp' /\ CallsRunOnce'
  BY DEF RvInv, CountedInv, CallsStayWithTheApp, CallsRunOnce, Holds
<1> QED BY <1>2, <1>3, <1>4, <1>6, <1>7 DEF RvInv

LEMMA NothingIsAClient ==
  ASSUME client \in ClientStates
  PROVE  /\ Nothing \in ClientStates /\ Holds(Nothing) /\ Nothing.at \in {"new", "idle", "waits"}
         /\ [Nothing EXCEPT !.seen = {}] \in ClientStates /\ Holds([Nothing EXCEPT !.seen = {}])
         /\ [Nothing EXCEPT !.seen = {}].at \in {"new", "idle", "waits"}
<1> DEFINE place == CASE client.why = "discover" -> "new" [] client.why = "rpc" -> "idle"
                   [] client.why = "reconnect" -> "waits"
<1>1. place \in {"new", "idle", "waits"}
  BY DEF ClientStates
<1>2. Nothing = [client EXCEPT !.at = place, !.call = 0]
  BY DEF Nothing
<1> HIDE DEF place
<1>3. Nothing \in ClientStates /\ Holds(Nothing) /\ Nothing.at \in {"new", "idle", "waits"}
  BY <1>1, <1>2 DEF ClientStates, Holds
<1>4. /\ [Nothing EXCEPT !.seen = {}] \in ClientStates /\ Holds([Nothing EXCEPT !.seen = {}])
      /\ [Nothing EXCEPT !.seen = {}].at = Nothing.at
  BY <1>3 DEF ClientStates, Holds
<1> QED BY <1>3, <1>4

LEMMA ScanIsAClient ==
  ASSUME client \in ClientStates, NEW why \in {"discover", "rpc", "reconnect"},
         NEW refused \in BOOLEAN, NEW denied \in BOOLEAN
  PROVE  /\ Scan(why, client) \in ClientStates /\ Holds(Scan(why, client))
         /\ Scan(why, client).at = "scans"
         /\ Scan(why, [client EXCEPT !.refused = refused, !.denied = denied]) \in ClientStates
         /\ Holds(Scan(why, [client EXCEPT !.refused = refused, !.denied = denied]))
         /\ Scan(why, [client EXCEPT !.refused = refused, !.denied = denied]).at = "scans"
<1>1. /\ Scan(why, client) \in ClientStates /\ Holds(Scan(why, client))
      /\ Scan(why, client).at = "scans"
  BY DEF Scan, ClientStates, Holds
<1> DEFINE c == [client EXCEPT !.refused = refused, !.denied = denied]
<1>2. /\ c \in ClientStates /\ c.id = client.id /\ c.port = client.port /\ c.token = client.token
      /\ c.seen = client.seen /\ c.reading = client.reading /\ c.found = client.found
      /\ c.calls = client.calls /\ c.call = client.call
  BY DEF ClientStates
<1> HIDE DEF c
<1>3. Scan(why, c) \in ClientStates /\ Holds(Scan(why, c)) /\ Scan(why, c).at = "scans"
  BY <1>2 DEF Scan, ClientStates, Holds
<1> QED BY <1>1, <1>3 DEF c

LEMMA SearchesKeepIt == RvInv /\ (Discover \/ Reconnect) => RvInv'
<1> SUFFICES ASSUME RvInv, Discover \/ Reconnect PROVE RvInv'
  OBVIOUS
<1>1. client \in ClientStates /\ UNCHANGED <<procs, entry, starts, ran>>
  BY DEF RvInv, ClientTypeOK, Discover, Reconnect
<1>2. PICK why \in {"discover", "rpc", "reconnect"} : client' = Scan(why, client)
  BY DEF Discover, Reconnect
<1>3. client' \in ClientStates /\ Holds(client') /\ client'.at = "scans"
  BY <1>1, <1>2, ScanIsAClient
<1> QED BY <1>1, <1>3, ClientMoves

LEMMA HandshakesKeepIt == RvInv /\ Handshake => RvInv'
<1> SUFFICES ASSUME RvInv, Handshake PROVE RvInv'
  OBVIOUS
<1>1. client \in ClientStates /\ UNCHANGED <<procs, entry, starts, ran>>
  BY DEF RvInv, ClientTypeOK, Handshake
<1>2. CASE Accepts(client.port, client.token)
  <2>1. client' = [client EXCEPT !.at = "asks"]
    BY <1>2 DEF Handshake
  <2>2. client' \in ClientStates /\ Holds(client') /\ client'.at = "asks"
    BY <1>1, <2>1 DEF ClientStates, Holds
  <2> QED BY <1>1, <1>2, <2>2, ClientMoves
<1>3. CASE ~Accepts(client.port, client.token)
  <2>1. client' = [Nothing EXCEPT !.seen = {}]
    BY <1>3 DEF Handshake
  <2>2. client' \in ClientStates /\ Holds(client') /\ client'.at \in {"new", "idle", "waits"}
    BY <1>1, <2>1, NothingIsAClient
  <2> QED BY <1>1, <2>2, ClientMoves
<1> QED BY <1>2, <1>3

LEMMA CallsKeepIt == RvInv /\ CallTool => RvInv'
<1> SUFFICES ASSUME RvInv, CallTool PROVE RvInv'
  OBVIOUS
<1>1. client \in ClientStates /\ UNCHANGED <<procs, entry, starts, ran>> /\ ran \in Seq(RunRecords)
      /\ client.calls \in Nat
  BY DEF RvInv, ClientTypeOK, CallTool, ClientStates
<1> DEFINE next == client.calls + 1
<1>2. next \in Nat /\ client' = [client EXCEPT !.at = "sends", !.why = "rpc", !.call = next,
                               !.calls = next, !.refused = FALSE, !.denied = FALSE]
  BY <1>1 DEF CallTool, ClientStates
<1> HIDE DEF next
<1>3. /\ client' \in ClientStates /\ client'.at = "sends" /\ client'.call = next
      /\ client'.calls = next /\ client'.id = client.id /\ client'.port = client.port
      /\ client'.token = client.token /\ client'.seen = client.seen
      /\ client'.reading = client.reading /\ client'.found = client.found
  BY <1>1, <1>2 DEF ClientStates
<1>4. WorldInv' /\ ClientTypeOK'
  BY <1>1, <1>3 DEF RvInv, WorldInv, WorldTypeOK, Apart, ProcessOk, FilesOk, ClientTypeOK
<1>5. ReadInv'
  BY <1>1, <1>3 DEF RvInv, ReadInv, SeenOk, ReadOk, Current
<1>6. BoundInv'
  BY <1>1, <1>3 DEF RvInv, BoundInv, HoldsToken
<1>7. CountedInv'
  <2>1. ASSUME NEW i \in DOMAIN ran
        PROVE  ran[i].call <= next /\ ran[i].call # next
    <3>1. ran[i] \in RunRecords /\ ran[i].call <= client.calls
      BY <1>1 DEF RvInv, CountedInv
    <3>2. ran[i].call \in Nat
      BY <3>1 DEF RunRecords
    <3> QED BY <1>1, <3>1, <3>2 DEF next
  <2>2. next # 0
    BY <1>1 DEF next
  <2> QED BY <1>1, <1>3, <2>1, <2>2 DEF CountedInv
<1>8. CallsStayWithTheApp' /\ CallsRunOnce'
  BY <1>1 DEF RvInv, CallsStayWithTheApp, CallsRunOnce
<1> QED BY <1>4, <1>5, <1>6, <1>7, <1>8 DEF RvInv

LEMMA TheServer ==
  ASSUME WorldInv, NEW port, NEW token, Accepts(port, token)
  PROVE  /\ Server(port) \in Pids /\ procs[Server(port)].token = token /\ token # 0
         /\ procs[Server(port)].id \in Ids
         /\ \A q \in Pids : procs[q].token = token => q = Server(port)
<1>1. \E q \in Pids : Listens(q, port)
  BY DEF Accepts, reachable
<1>2. Server(port) \in Pids /\ Listens(Server(port), port) /\ procs[Server(port)].token = token
  BY <1>1 DEF Accepts, Server
<1>3. procs[Server(port)].port = port /\ port # 0
  BY <1>2 DEF Listens
<1>4. 0 \notin 1..starts
  BY DEF WorldInv, WorldTypeOK
<1>5. token # 0 /\ procs[Server(port)].id \in Ids
  BY <1>2, <1>3, <1>4 DEF WorldInv, ProcessOk
<1> QED BY <1>2, <1>5 DEF WorldInv, Apart

LEMMA IdentifyKeepsIt == RvInv /\ Identify => RvInv'
<1> SUFFICES ASSUME RvInv, Identify PROVE RvInv'
  OBVIOUS
<1>1. /\ client \in ClientStates /\ UNCHANGED <<procs, entry, starts, ran>> /\ ran \in Seq(RunRecords) /\ WorldInv
      /\ client.at = "asks"
  BY DEF RvInv, ClientTypeOK, Identify
<1> DEFINE id == IF Accepts(client.port, client.token) THEN procs[Server(client.port)].id ELSE None
<1> DEFINE new == IF client.why # "discover" THEN client.id
                  ELSE IF id # None THEN id ELSE identifier_for_port(client.port)
<1>2. CASE ~verify_identity(id)
  <2>1. client' = Nothing
    BY <1>2 DEF Identify
  <2>2. client' \in ClientStates /\ Holds(client') /\ client'.at \in {"new", "idle", "waits"}
    BY <1>1, <2>1, NothingIsAClient
  <2> QED BY <1>1, <2>2, ClientMoves
<1>3. CASE verify_identity(id)
  <2>1. client' = [client EXCEPT !.at = IF client.call = 0 THEN "idle" ELSE "sends", !.id = new]
    <3>1. client' = [client EXCEPT !.at = IF client.call = 0 THEN "idle" ELSE "sends",
                       !.id = IF client.why # "discover" THEN @
                              ELSE IF id # None THEN id ELSE identifier_for_port(client.port)]
      BY <1>3 DEF Identify
    <3> HIDE DEF id
    <3> QED BY <1>1, <3>1 DEF ClientStates
  <2>2. identifier_for_port(client.port) \in KnownIds
    <3> DEFINE on == {p \in Pids : procs[p].at # "gone" /\ entry[p].port = client.port
                                   /\ reachable(client.port)}
    <3>1. Cardinality(on) = 1 => on # {}
      <4>1. Cardinality({}) = 0
        BY FS_EmptySet
      <4> QED BY <4>1
    <3>2. \A p \in Pids : entry[p].id \in KnownIds
      BY <1>1 DEF WorldInv, WorldTypeOK, EntryFiles
    <3>3. identifier_for_port(client.port) =
            IF Cardinality(on) = 1 THEN entry[CHOOSE p \in on : TRUE].id ELSE None
      BY DEF identifier_for_port
    <3>4. on # {} => (CHOOSE p \in on : TRUE) \in Pids
      OBVIOUS
    <3> HIDE DEF on
    <3> QED BY <3>1, <3>2, <3>3, <3>4 DEF KnownIds
  <2>3. id \in KnownIds
    BY <1>1, TheServer DEF KnownIds
  <2>4. new \in KnownIds
    BY <1>1, <2>2, <2>3 DEF ClientStates
  <2>5. ASSUME new # None, NEW q \in Pids, HoldsToken(q) PROVE procs[q].id = new
    <3>1. client.token # 0 /\ procs[q].port = client.port
      BY <1>1, <2>5 DEF RvInv, BoundInv
    <3>2. Accepts(client.port, client.token) /\ procs[q].id = id /\ id # None
      <4>1. procs[q].token = client.token
        BY <2>5 DEF HoldsToken
      <4>2. client.port # 0 /\ procs[q].id \in Ids
        BY <1>1, <3>1, <4>1, RendezvousAssumption DEF WorldInv, ProcessOk
      <4>3. \E x \in Pids : Listens(x, client.port)
        BY <3>1, <4>2 DEF Listens
      <4>4. Server(client.port) \in Pids /\ Listens(Server(client.port), client.port)
        BY <4>3 DEF Server
      <4>5. Server(client.port) = q
        BY <1>1, <3>1, <4>2, <4>4 DEF Listens, WorldInv, Apart
      <4> QED BY <4>1, <4>2, <4>3, <4>5, RendezvousAssumption DEF Accepts, reachable
    <3> HIDE DEF id
    <3>3. CASE client.why # "discover"
      <4>1. client.id = new
        BY <3>3
      <4> QED BY <1>1, <2>5, <4>1 DEF RvInv, BoundInv
    <3>4. CASE client.why = "discover"
      BY <3>2, <3>4
    <3> QED BY <3>3, <3>4
  <2> HIDE DEF id, new
  <2>6. /\ client' \in ClientStates /\ client'.at = (IF client.call = 0 THEN "idle" ELSE "sends")
        /\ client'.id = new /\ client'.port = client.port /\ client'.token = client.token
        /\ client'.seen = client.seen /\ client'.reading = client.reading
        /\ client'.found = client.found /\ client'.call = client.call /\ client'.calls = client.calls
    BY <1>1, <2>1, <2>4 DEF ClientStates
  <2>7. WorldInv' /\ ClientTypeOK'
    BY <1>1, <2>6 DEF WorldInv, WorldTypeOK, Apart, ProcessOk, FilesOk, ClientTypeOK
  <2>8. ReadInv'
    BY <1>1, <2>6 DEF RvInv, ReadInv, SeenOk, ReadOk, Current
  <2>9. BoundInv'
    BY <1>1, <2>5, <2>6 DEF RvInv, BoundInv, HoldsToken
  <2>10. CountedInv' /\ CallsStayWithTheApp' /\ CallsRunOnce'
    BY <1>1, <2>6 DEF RvInv, CountedInv, CallsStayWithTheApp, CallsRunOnce
  <2> QED BY <2>7, <2>8, <2>9, <2>10 DEF RvInv
<1> QED BY <1>2, <1>3


(* What one scan of a directory finds is of the launch whose process it is. *)
LEMMA ScansKeepIt ==
  ASSUME RvInv, NEW p \in Pids, ScanEntry(p)
  PROVE  RvInv'
<1>1. /\ client \in ClientStates /\ UNCHANGED <<procs, starts, ran>> /\ WorldInv /\ starts \in Nat
      /\ client.reading = None /\ procs \in [Pids -> Processes] /\ entry \in [Pids -> EntryFiles]
      /\ procs[p] \in Processes /\ entry[p] \in EntryFiles
      /\ entry' = [entry EXCEPT ![p] = IF Deletes(p) THEN NoFiles ELSE @]
  BY DEF RvInv, ClientTypeOK, WorldInv, WorldTypeOK, ScanEntry
<1>2. NoFiles \in EntryFiles /\ NoFiles.token = 0
  BY DEF NoFiles, EntryFiles, KnownIds
<1>3. /\ entry' \in [Pids -> EntryFiles]
      /\ \A q \in Pids : entry'[q] = entry[q] \/ (entry'[q] = NoFiles /\ procs[q].at = "gone")
      /\ procs[p].at # "gone" => entry'[p] = entry[p]
  BY <1>1, <1>2 DEF Deletes
<1>4. WorldInv'
  <2>1. WorldTypeOK'
    BY <1>1, <1>3 DEF WorldTypeOK
  <2>2. Apart'
    BY <1>1, <1>2, <1>3 DEF WorldInv, Apart
  <2>3. ASSUME NEW q \in Pids PROVE ProcessOk(q)' /\ FilesOk(q)'
    <3>1. ProcessOk(q) /\ FilesOk(q)
      BY <1>1 DEF WorldInv
    <3>2. ProcessOk(q)'
      BY <1>1, <3>1 DEF ProcessOk
    <3>3. FilesOk(q)'
      BY <1>1, <1>2, <1>3, <3>1 DEF FilesOk
    <3> QED BY <3>2, <3>3
  <2> QED BY <2>1, <2>2, <2>3 DEF WorldInv
<1>5. \A s \in client.seen : SeenOk(s) => SeenOk(s)'
  BY <1>1 DEF SeenOk, Current
<1> DEFINE found == [NotRead EXCEPT !.port = entry[p].port, !.of = procs[p].token]
<1>6. found \in ReadFiles /\ found.port = entry[p].port /\ found.of = procs[p].token /\ found.token = 0
  <2>1. entry[p].port \in Nat /\ procs[p].token \in Nat
    BY <1>1 DEF EntryFiles, Processes
  <2> QED BY <2>1 DEF NotRead, ReadFiles
<1>7. CASE procs[p].at # "gone" /\ entry[p].port # 0 /\ reachable(entry[p].port)
  <2>1. client' = [client EXCEPT !.reading = p, !.left = @ \ {p}, !.found = found]
    BY <1>7 DEF ScanEntry
  <2> HIDE DEF found
  <2>2. /\ client' \in ClientStates /\ client'.at = client.at /\ client'.id = client.id
        /\ client'.port = client.port /\ client'.token = client.token /\ client'.seen = client.seen
        /\ client'.reading = p /\ client'.found = found
        /\ client'.call = client.call /\ client'.calls = client.calls
    BY <1>1, <1>6, <2>1 DEF ClientStates
  <2>3. ReadOk(p, found)'
    <3>1. ProcessOk(p) /\ FilesOk(p) /\ entry'[p] = entry[p]
      BY <1>1, <1>3, <1>7 DEF WorldInv
    <3>2. found.of <= starts /\ found.token <= starts /\ found.port # 0
      <4>1. procs[p].token \in 0..starts
        BY <1>1, <3>1 DEF ProcessOk
      <4> QED BY <1>1, <1>6, <1>7, <4>1
    <3>3. Current(p, found.port, found.of) => entry[p].token = found.of
      <4> SUFFICES ASSUME Current(p, found.port, found.of) PROVE entry[p].token = found.of
        OBVIOUS
      <4>1. procs[p].port # 0 /\ procs[p].at # "closing" /\ procs[p].port = entry[p].port
        BY <1>6, <1>7 DEF Current
      <4>2. procs[p].at \in LiveAts
        BY <3>1, <4>1 DEF ProcessOk
      <4>3. procs[p].at \notin {"bound", "token"}
        BY <3>1, <4>1 DEF FilesOk, NoFiles
      <4> QED BY <1>6, <3>1, <4>1, <4>2, <4>3 DEF FilesOk, LiveAts
    <3>4. found' = found
      BY <1>1, <3>1 DEF found
    <3> QED BY <1>1, <1>6, <3>1, <3>2, <3>3, <3>4 DEF ReadOk, Current
  <2>4. ReadInv'
    <3>1. found' = found
      BY <1>1, <1>3, <1>7 DEF found
    <3> QED BY <1>5, <2>2, <2>3, <3>1 DEF RvInv, ReadInv
  <2>5. ClientTypeOK'
    BY <1>1, <2>2 DEF RvInv, ClientTypeOK
  <2>6. BoundInv' /\ CountedInv' /\ CallsStayWithTheApp' /\ CallsRunOnce'
    BY <1>1, <2>2 DEF RvInv, BoundInv, HoldsToken, CountedInv, CallsStayWithTheApp, CallsRunOnce
  <2> QED BY <1>4, <2>4, <2>5, <2>6 DEF RvInv
<1>8. CASE ~(procs[p].at # "gone" /\ entry[p].port # 0 /\ reachable(entry[p].port))
  <2>1. client' = [client EXCEPT !.left = @ \ {p}]
    BY <1>8 DEF ScanEntry
  <2>2. /\ client' \in ClientStates /\ client'.at = client.at /\ client'.id = client.id
        /\ client'.port = client.port /\ client'.token = client.token /\ client'.seen = client.seen
        /\ client'.reading = None
        /\ client'.call = client.call /\ client'.calls = client.calls
    BY <1>1, <2>1 DEF ClientStates
  <2>3. ReadInv'
    BY <1>5, <2>2 DEF RvInv, ReadInv
  <2>4. ClientTypeOK'
    BY <1>1, <2>2 DEF RvInv, ClientTypeOK
  <2>5. BoundInv' /\ CountedInv' /\ CallsStayWithTheApp' /\ CallsRunOnce'
    BY <1>1, <2>2 DEF RvInv, BoundInv, HoldsToken, CountedInv, CallsStayWithTheApp, CallsRunOnce
  <2> QED BY <1>4, <2>3, <2>4, <2>5 DEF RvInv
<1> QED BY <1>7, <1>8

LEMMA ReadsKeepIt == RvInv /\ ReadEntry => RvInv'
<1> SUFFICES ASSUME RvInv, ReadEntry PROVE RvInv'
  OBVIOUS
<1> DEFINE r == client.reading
<1> DEFINE f == client.found
<1> DEFINE e == entry[r]
<1>1. /\ client \in ClientStates /\ UNCHANGED <<procs, entry, starts, ran>> /\ WorldInv /\ starts \in Nat
      /\ r \in Pids /\ f \in ReadFiles /\ e \in EntryFiles /\ ReadOk(r, f) /\ client.seen \subseteq SeenEntries
      /\ ProcessOk(r) /\ FilesOk(r)
  BY DEF RvInv, ClientTypeOK, WorldInv, WorldTypeOK, ReadEntry, ClientStates, ReadInv
<1>2. /\ f.token \in Nat /\ f.port \in Nat /\ f.of \in Nat
      /\ e.token \in Nat /\ e.id \in KnownIds /\ e.token <= starts
  BY <1>1 DEF ReadFiles, EntryFiles, FilesOk
<1>3. WorldInv'
  BY <1>1 DEF WorldInv, WorldTypeOK, Apart, ProcessOk, FilesOk
<1>4. \A s : SeenOk(s) => SeenOk(s)'
  BY <1>1 DEF SeenOk, Current
<1>5. CASE f.token = 0 /\ e.token # 0
  <2> DEFINE new == [f EXCEPT !.token = e.token]
  <2>1. client' = [client EXCEPT !.found = new]
    BY <1>1, <1>5 DEF ReadEntry, ClientStates
  <2>2. new \in ReadFiles /\ new.port = f.port /\ new.of = f.of /\ new.token = e.token
    BY <1>1, <1>2 DEF ReadFiles
  <2> HIDE DEF new
  <2>3. /\ client' \in ClientStates /\ client'.at = client.at /\ client'.id = client.id
        /\ client'.port = client.port /\ client'.token = client.token /\ client'.seen = client.seen
        /\ client'.reading = r /\ client'.found = new
        /\ client'.call = client.call /\ client'.calls = client.calls
    BY <1>1, <2>1, <2>2 DEF ClientStates
  <2>4. ReadOk(r, new)
    <3>1. Current(r, new.port, new.of) => e.token = new.of
      BY <1>1, <2>2 DEF ReadOk
    <3>2. \A q \in Pids : procs[q].token = e.token => q = r
      BY <1>1, <1>5 DEF WorldInv, Apart
    <3> QED BY <1>1, <1>2, <2>2, <3>1, <3>2 DEF ReadOk
  <2>5. ReadInv'
    BY <1>1, <1>4, <2>3, <2>4 DEF RvInv, ReadInv, ReadOk, Current
  <2>6. ClientTypeOK'
    BY <1>1, <2>3 DEF RvInv, ClientTypeOK
  <2>7. BoundInv' /\ CountedInv' /\ CallsStayWithTheApp' /\ CallsRunOnce'
    BY <1>1, <2>3 DEF RvInv, BoundInv, HoldsToken, CountedInv, CallsStayWithTheApp, CallsRunOnce
  <2> QED BY <1>3, <2>5, <2>6, <2>7 DEF RvInv
<1>6. CASE ~(f.token = 0 /\ e.token # 0)
  <2> DEFINE s == [pid |-> r, port |-> f.port, token |-> f.token, id |-> e.id, of |-> f.of]
  <2>1. client' = [client EXCEPT !.reading = None, !.found = NotRead, !.seen = @ \cup {s}]
    BY <1>1, <1>6 DEF ReadEntry
  <2>2. s \in SeenEntries /\ s.pid = r /\ s.port = f.port /\ s.token = f.token /\ s.id = e.id /\ s.of = f.of
    BY <1>1, <1>2 DEF SeenEntries
  <2> HIDE DEF s
  <2>3. NotRead \in ReadFiles
    BY DEF NotRead, ReadFiles
  <2>4. /\ client' \in ClientStates /\ client'.at = client.at /\ client'.id = client.id
        /\ client'.port = client.port /\ client'.token = client.token
        /\ client'.seen = client.seen \cup {s} /\ client'.reading = None
        /\ client'.call = client.call /\ client'.calls = client.calls
    BY <1>1, <2>1, <2>2, <2>3 DEF ClientStates
  <2>5. SeenOk(s)
    <3>1. Current(r, f.port, f.of) => f.token = f.of
      BY <1>1, <1>6 DEF ReadOk
    <3>2. ASSUME NEW q \in Pids, procs[q].token = f.token, f.token # 0
          PROVE  e.id \in {None, procs[q].id}
      <4>1. q = r
        BY <1>1, <3>2 DEF ReadOk
      <4>2. procs[r].at \in LiveAts
        BY <1>1, <3>2, <4>1 DEF ProcessOk
      <4> QED BY <1>1, <4>1, <4>2 DEF FilesOk, LiveAts, NoFiles
    <3> QED BY <1>1, <2>2, <3>1, <3>2 DEF SeenOk, ReadOk
  <2>6. ReadInv'
    BY <1>4, <2>4, <2>5 DEF RvInv, ReadInv
  <2>7. ClientTypeOK'
    BY <1>1, <2>4 DEF RvInv, ClientTypeOK
  <2>8. BoundInv' /\ CountedInv' /\ CallsStayWithTheApp' /\ CallsRunOnce'
    BY <1>1, <2>4 DEF RvInv, BoundInv, HoldsToken, CountedInv, CallsStayWithTheApp, CallsRunOnce
  <2> QED BY <1>3, <2>6, <2>7, <2>8 DEF RvInv
<1> QED BY <1>5, <1>6

(* The chosen entry is of the client's application, or the client has none yet. *)
LEMMA ChoicesKeepIt ==
  ASSUME RvInv, ~Explicit, NEW servers, servers \subseteq client.seen, Choose(servers)
  PROVE  RvInv'
<1>1. /\ client \in ClientStates /\ UNCHANGED <<procs, entry, starts, ran>> /\ WorldInv
      /\ client.at = "scans" /\ client.seen \subseteq SeenEntries /\ client.reading = None
  BY DEF RvInv, ClientTypeOK, Choose, ClientStates
<1> DEFINE c == Chosen(servers, client.id)
<1>2. CASE c = {}
  <2>1. client' = Nothing
    BY <1>2 DEF Choose
  <2>2. client' \in ClientStates /\ Holds(client') /\ client'.at \in {"new", "idle", "waits"}
    BY <1>1, <2>1, NothingIsAClient
  <2> QED BY <1>1, <2>2, ClientMoves
<1>3. CASE c # {}
  <2>1. c = {[port |-> x.port, token |-> x.token] : x \in Fitting(servers, client.id)}
    BY <1>3 DEF Chosen
  <2> DEFINE pick == CHOOSE x \in c : TRUE
  <2>2. client' = [client EXCEPT !.at = "shakes", !.seen = {}, !.port = pick.port, !.token = pick.token]
    BY <1>3 DEF Choose
  <2>3. pick \in c
    BY <1>3
  <2> HIDE DEF pick, c
  <2>4. PICK s \in Fitting(servers, client.id) : pick = [port |-> s.port, token |-> s.token]
    BY <2>1, <2>3
  <2>5. s \in client.seen /\ (client.id = None \/ s.id = client.id) /\ s \in SeenEntries
    BY <1>1, <2>4 DEF Fitting
  <2>6. SeenOk(s) /\ s.port \in Nat /\ s.token \in Nat
    BY <2>5 DEF RvInv, ReadInv, SeenEntries
  <2>7. /\ client' \in ClientStates /\ client'.at = "shakes" /\ client'.id = client.id
        /\ client'.port = s.port /\ client'.token = s.token /\ client'.seen = {}
        /\ client'.reading = None
        /\ client'.call = client.call /\ client'.calls = client.calls
    BY <1>1, <2>2, <2>4, <2>6 DEF ClientStates
  <2>8. WorldInv' /\ ClientTypeOK'
    BY <1>1, <2>7 DEF RvInv, WorldInv, WorldTypeOK, Apart, ProcessOk, FilesOk,
       ClientTypeOK
  <2>9. ReadInv'
    BY <2>7 DEF ReadInv
  <2>10. BoundInv'
    BY <1>1, <2>5, <2>6, <2>7 DEF BoundInv, HoldsToken, SeenOk
  <2>11. CountedInv' /\ CallsStayWithTheApp' /\ CallsRunOnce'
    BY <1>1, <2>7 DEF RvInv, CountedInv, CallsStayWithTheApp, CallsRunOnce
  <2> QED BY <2>8, <2>9, <2>10, <2>11 DEF RvInv
<1> QED BY <1>2, <1>3

LEMMA SendsKeepIt ==
  ASSUME RvInv, NEW outcome \in {"refused", "denied", "answered", "lost"}, Send(outcome)
  PROVE  RvInv'
<1>1. /\ client \in ClientStates /\ UNCHANGED <<procs, entry, starts>> /\ WorldInv /\ ran \in Seq(RunRecords)
      /\ client.at = "sends" /\ client.refused \in BOOLEAN /\ client.denied \in BOOLEAN
      /\ client.call # 0 /\ client.call = client.calls /\ client.call \in Nat
  BY DEF RvInv, ClientTypeOK, Send, ClientStates, CountedInv
<1>2. Done \in ClientStates /\ Holds(Done) /\ Done.at = "idle" /\ Done.call = 0
  BY <1>1 DEF Done, ClientStates, Holds
<1>3. CASE outcome \in {"refused", "denied"}
  <2>1. ran' = ran
    BY <1>3 DEF Send
  <2>2. \/ client' = Done
        \/ client' = Scan("rpc", [client EXCEPT !.refused = client.refused \/ outcome # "denied",
                                                !.denied = client.denied \/ outcome = "denied"])
    BY <1>1 DEF Send, ClientStates
  <2>3. client' \in ClientStates /\ Holds(client') /\ client'.at \in {"idle", "scans"}
    BY <1>1, <1>2, <2>2, ScanIsAClient
  <2> QED BY <1>1, <2>1, <2>3, ClientMoves
<1>4. CASE outcome \in {"answered", "lost"}
  <2> DEFINE run == [call |-> client.call, id |-> procs[Server(client.port)].id, whose |-> client.id]
  <2>1. client' = Done /\ ran' = Append(ran, run) /\ Accepts(client.port, client.token)
    BY <1>4 DEF Send, Again
  <2>2. /\ Server(client.port) \in Pids /\ HoldsToken(Server(client.port))
        /\ procs[Server(client.port)].id \in Ids
    BY <1>1, <2>1, TheServer DEF HoldsToken
  <2>3. run \in RunRecords /\ run.call = client.call
        /\ (run.whose # None => run.id = run.whose)
    <3>1. client.id \in KnownIds
      BY <1>1 DEF ClientStates
    <3> QED BY <1>1, <2>2, <3>1 DEF RunRecords, KnownIds, RvInv, BoundInv
  <2> HIDE DEF run
  <2>4. /\ ran' \in Seq(RunRecords) /\ DOMAIN ran' = DOMAIN ran \cup {Len(ran) + 1} /\ ran'[Len(ran) + 1] = run
        /\ \A i \in DOMAIN ran : ran'[i] = ran[i] /\ i # Len(ran) + 1
    BY <1>1, <2>1, <2>3
  <2>5. WorldInv' /\ ClientTypeOK'
    BY <1>1, <1>2, <2>1, <2>4 DEF WorldInv, WorldTypeOK, Apart, ProcessOk, FilesOk,
       ClientTypeOK
  <2>6. ReadInv'
    BY <1>1, <1>2, <2>1 DEF RvInv, ReadInv, Holds, SeenOk, ReadOk, Current
  <2>7. BoundInv'
    BY <1>1, <1>2, <2>1 DEF RvInv, BoundInv, Holds, HoldsToken
  <2>8. \A i \in DOMAIN ran : ran[i].call <= client.calls /\ ran[i].call # client.call
    BY <1>1 DEF RvInv, CountedInv
  <2>9. CountedInv'
    <3>1. client'.calls = client.calls /\ client'.call = 0 /\ client'.at = "idle"
      BY <1>2, <2>1 DEF Holds
    <3>2. \A i \in DOMAIN ran' : ran'[i].call <= client.calls
      BY <1>1, <2>3, <2>4, <2>8
    <3> QED BY <3>1, <3>2 DEF CountedInv
  <2>10. CallsStayWithTheApp'
    BY <2>3, <2>4 DEF RvInv, CallsStayWithTheApp
  <2>11. CallsRunOnce'
    BY <2>3, <2>4, <2>8 DEF RvInv, CallsRunOnce
  <2> QED BY <2>5, <2>6, <2>7, <2>9, <2>10, <2>11 DEF RvInv
<1> QED BY <1>3, <1>4

LEMMA RvKeepsIt ==
  ASSUME RvInv, ~Explicit, "app" \notin Reuse, [RvNext]_rvVars
  PROVE  RvInv'
<1>1. CASE UNCHANGED rvVars
  BY <1>1 DEF rvVars, RvInv, WorldInv, WorldTypeOK, Apart, ProcessOk, FilesOk,
     ClientTypeOK, ReadInv, SeenOk, ReadOk, Current, BoundInv, HoldsToken, CountedInv,
     CallsStayWithTheApp, CallsRunOnce
<1>2. Settled(client.seen) \subseteq client.seen
  BY DEF Settled
<1>3. CASE RvNext
  BY <1>2, <1>3, StartsAreNew, ProcessesKeepIt, ScansKeepIt, ReadsKeepIt,
     ChoicesKeepIt, HandshakesKeepIt, IdentifyKeepsIt, SearchesKeepIt, CallsKeepIt,
     SendsKeepIt DEF RvNext
<1> QED BY <1>1, <1>3

(* Without an explicit port, and where no application gets the process id of a killed one, *)
(* every call runs once and in the application the client was made for, an application     *)
(* that is up can be found, and a port is read with its token.                             *)
THEOREM CallsReachTheirAppAlways ==
  ASSUME ~Explicit, "app" \notin Reuse
  PROVE  RvSpec => []CallsReachTheirApp
<1>1. ASSUME RvInv PROVE CallsReachTheirApp
  <2>1. LiveAppsStayDiscoverable
    <3> SUFFICES ASSUME NEW p \in Pids, procs[p].at = "up"
                 PROVE  entry[p] = [port |-> procs[p].port, token |-> procs[p].token, id |-> procs[p].id]
      BY DEF LiveAppsStayDiscoverable
    <3>1. FilesOk(p) /\ entry[p] \in EntryFiles
      BY <1>1 DEF RvInv, WorldInv, WorldTypeOK
    <3>2. entry[p].port = procs[p].port /\ entry[p].token = procs[p].token /\ entry[p].id = procs[p].id
      BY <3>1 DEF FilesOk
    <3> QED BY <3>1, <3>2 DEF EntryFiles
  <2>2. PortsComeWithTheirToken
    BY <1>1 DEF RvInv, ReadInv, SeenOk, Current, PortsComeWithTheirToken
  <2> QED BY <1>1, <2>1, <2>2 DEF RvInv, CallsReachTheirApp
<1>2. RvInv /\ [RvNext]_rvVars => RvInv'
  BY RvKeepsIt
<1> QED BY <1>1, <1>2, RvStarts, PTL DEF RvSpec

-----------------------------------------------------------------------------

(***************************************************************************)
(* EntriesAreOurs for any platform, environment and account beside. What   *)
(* another account wrote lies in a directory of its own (Forged), which no *)
(* reader trusts. The plugin decides its root once: it is private from     *)
(* then on, or both places are taken for good (Picked, Helpless). While    *)
(* the application runs nothing removes what it wrote (Registers), because *)
(* no reader takes it for gone (LiveVerdicts); so a scan that began after  *)
(* it registered has its root still ahead, or has found it, or cannot tell *)
(* whose the process is (WillFind).                                        *)
(***************************************************************************)

(* What each part of the state may be. *)
Dirs == [owner : {"me", "admins", "other"}, mode : {"private", "readable", "open"}, real : BOOLEAN]
Writers == {NoDir, "app", "other"}
Entries == [dir : Dirs, token : Writers, port : Writers]
AppAts == {"choose", "token", "write_token", "port", "write_port", "up", "down"}
Apps == [at : AppAts, root : Roots \cup {NoDir}, refused : BOOLEAN]
Readers == [kind : {NoDir, "client", "bridge", "watchdog"}, left : Seq(Roots),
            found : SUBSET Writers, gone : BOOLEAN, registered : BOOLEAN]

RootsTypeOK ==
  /\ setting \in Settings
  /\ root \in [Roots -> Dirs \cup {NoDir}] /\ listing \in [Roots -> Entries \cup {NoDir}]
  /\ app \in Apps /\ reader \in Readers

Ours(d) == d # NoDir /\ d.real /\ d.owner \in AcceptableOwners /\ d.mode = "private"

(* What another account wrote lies in a directory of its own. *)
Forged(e) == e # NoDir /\ "other" \in {e.token, e.port} => e.dir.owner = "other"

(* Both places this account could register in are taken. *)
Helpless ==
  /\ app.root = Primary /\ ~CanBeOurs(root[Primary])
  /\ ~(setting.home /\ CanBeOurs(root["home"]))

Picked ==
  app.at # "choose" =>
    /\ app.root \in (IF Unix THEN {Primary, "home"} ELSE {"legacy"})
    /\ Unix => Ours(root[app.root]) \/ Helpless

Registers ==
  holder = "app" =>
    /\ app.at \in {"choose", "token", "write_token"} => ~app.refused
    /\ app.at \in {"write_token", "write_port"} \/ (app.at \in {"port", "up"} /\ ~app.refused) =>
         Ours(root[app.root]) /\ listing[app.root] # NoDir /\ Ours(listing[app.root].dir)
    /\ app.at \in {"port", "write_port", "up"} /\ ~app.refused => listing[app.root].token = "app"
    /\ app.at = "up" /\ ~app.refused => listing[app.root].port = "app"
    /\ Unix /\ app.refused /\ app.at # "down" => listing[app.root] # NoDir \/ Helpless

(* A scan begun when the application was registered has it, has its root still to look in, *)
(* or cannot tell whose the process is.                                                    *)
WillFind ==
  \/ \E i \in DOMAIN reader.left : reader.left[i] = app.root
  \/ "app" \in reader.found
  \/ reader.kind # "watchdog" /\ Verdicts # {"Own"}

Scans ==
  /\ "other" \notin reader.found /\ (reader.found # {} => "app" \in reader.found)
  /\ reader.gone => holder # "app"
  /\ reader.registered => app.at \in {"up", "down"} /\ ~app.refused
  /\ reader.registered /\ app.at = "up" /\ holder = "app" => WillFind

RootsInv == RootsTypeOK /\ (\A r \in Roots : Forged(listing[r])) /\ Picked /\ Registers /\ Scans

LEMMA NoDirIsNone ==
  /\ NoDir \notin Dirs /\ NoDir \notin Entries
  /\ NoDir \notin {"app", "other", "client", "bridge", "watchdog"}
BY RootsAssumption DEF Dirs, Entries, Writers

LEMMA DirFacts ==
  /\ \A d \in Dirs : d.owner \in {"me", "admins", "other"} /\ d.mode \in {"private", "readable", "open"}
                     /\ d.real \in BOOLEAN /\ d # NoDir
  /\ \A o \in {"me", "admins", "other"}, m \in {"private", "readable", "open"} :
       /\ Dir(o, m) \in Dirs /\ Dir(o, m).owner = o /\ Dir(o, m).mode = m /\ Dir(o, m).real
       /\ Link(o) \in Dirs /\ Link(o).owner = o /\ Dir(o, m) # NoDir
  /\ Mine \subseteq Dirs
<1>1. \A d \in Dirs : d.owner \in {"me", "admins", "other"} /\ d.mode \in {"private", "readable", "open"}
                     /\ d.real \in BOOLEAN /\ d # NoDir
  BY NoDirIsNone DEF Dirs
<1>2. ASSUME NEW o \in {"me", "admins", "other"}, NEW m \in {"private", "readable", "open"}
      PROVE  /\ Dir(o, m) \in Dirs /\ Dir(o, m).owner = o /\ Dir(o, m).mode = m /\ Dir(o, m).real
             /\ Link(o) \in Dirs /\ Link(o).owner = o
  BY DEF Dirs, Dir, Link
<1>3. Mine \subseteq Dirs
  BY <1>2 DEF Mine
<1> QED BY <1>1, <1>2, <1>3

LEMMA EntryFacts ==
  /\ \A e \in Entries : e.dir \in Dirs /\ e.token \in Writers /\ e.port \in Writers /\ e # NoDir
  /\ \A d \in Dirs, t, p \in Writers :
       /\ [dir |-> d, token |-> t, port |-> p] \in Entries
       /\ [dir |-> d, token |-> t, port |-> p] # NoDir
BY NoDirIsNone DEF Entries

LEMMA SettingFacts ==
  ASSUME setting \in Settings
  PROVE  /\ AcceptableOwners \subseteq {"me", "admins"} /\ "me" \in AcceptableOwners
         /\ Creates \subseteq AcceptableOwners
         /\ Unix => AcceptableOwners = {"me"}
         /\ Unix => Primary \in {"runtime", "temp"}
         /\ ~Unix => Primary = "legacy"
         /\ setting.home \in BOOLEAN
BY DEF Settings, AcceptableOwners, Creates, Unix, Primary

LEMMA SettingStands ==
  ASSUME setting' = setting
  PROVE  /\ AcceptableOwners' = AcceptableOwners /\ Unix' = Unix /\ Primary' = Primary
         /\ \A d : Ours(d)' = Ours(d)
BY DEF AcceptableOwners, Unix, Primary, Ours

(* An application that runs is never taken for another process or for none. *)
LEMMA LiveVerdicts ==
  ASSUME setting \in Settings, holder = "app"
  PROVE  \A v \in Verdicts : v \notin {"Dead", "OtherUser"}
<1>1. CASE Unix
  <2>1. \A s \in Signalled : Liveness(s) \in {"Own", "Unknown"}
    BY DEF Signalled, Liveness, ProcOwner
  <2> QED BY <1>1, <2>1 DEF Verdicts
<1>2. CASE ~Unix
  BY <1>2 DEF Verdicts, LivenessOnWindows
<1> QED BY <1>1, <1>2

LEMMA VerdictsStand ==
  ASSUME setting' = setting, holder' = holder
  PROVE  Verdicts' = Verdicts
BY DEF Verdicts, Unix, Liveness, Signalled, ProcOwner, LivenessOnWindows

LEMMA RootsStart == RootsInit => RootsInv
<1> SUFFICES ASSUME RootsInit PROVE RootsInv
  OBVIOUS
<1>1. root \in [Roots -> Dirs \cup {NoDir}] /\ listing \in [Roots -> Entries \cup {NoDir}]
  BY DirFacts DEF RootsInit
<1>2. app \in Apps /\ reader \in Readers
  BY DEF RootsInit, Apps, AppAts, Readers, Writers
<1>3. RootsTypeOK
  BY <1>1, <1>2 DEF RootsTypeOK, RootsInit
<1>4. (\A r \in Roots : Forged(listing[r])) /\ Picked /\ Registers /\ Scans
  BY DEF RootsInit, Forged, Picked, Registers, Scans
<1> QED BY <1>3, <1>4 DEF RootsInv

(* A step that leaves the application and the reader alone, and any directory there is. *)
LEMMA OthersAddOnly ==
  ASSUME RootsInv, UNCHANGED <<setting, app, holder, reader>>,
         root' \in [Roots -> Dirs \cup {NoDir}], listing' \in [Roots -> Entries \cup {NoDir}],
         \A r \in Roots : root[r] # NoDir => root'[r] = root[r],
         \A r \in Roots : listing[r] # NoDir => listing'[r] = listing[r],
         \A r \in Roots : Forged(listing'[r]), root'["home"] = root["home"]
  PROVE  RootsInv'
<1>1. setting \in Settings /\ app \in Apps /\ app.root \in Roots \cup {NoDir}
  BY DEF RootsInv, RootsTypeOK, Apps
<1>2. RootsTypeOK'
  BY DEF RootsInv, RootsTypeOK
<1>3. Helpless => Helpless'
  <2>1. Primary \in Roots
    BY DEF Primary, Roots
  <2> QED BY <2>1, SettingStands DEF Helpless, CanBeOurs
<1>4. app.at # "choose" => app.root \in Roots
  BY <1>1, SettingFacts DEF RootsInv, Picked, Roots
<1>5. app.root \in Roots => (Ours(root[app.root]) => Ours(root[app.root])')
  BY SettingStands DEF Ours
<1>6. Picked'
  BY <1>3, <1>4, <1>5, SettingStands DEF RootsInv, Picked
<1>7. Registers'
  <2> SUFFICES ASSUME holder = "app" PROVE Registers'
    BY DEF Registers
  <2>1. app.root \in Roots /\ listing[app.root] # NoDir => listing'[app.root] = listing[app.root]
    OBVIOUS
  <2>2. app.root \in Roots /\ listing[app.root] # NoDir /\ Ours(listing[app.root].dir)
          => Ours(listing[app.root].dir)'
    BY <2>1 DEF Ours, AcceptableOwners
  <2>3. app.at \in {"port", "write_port", "up"} => app.at # "choose"
    OBVIOUS
  <2> QED BY <1>3, <1>4, <1>5, <2>1, <2>2, <2>3, SettingStands, Zenon DEF RootsInv,
             Registers
<1>8. Scans'
  BY VerdictsStand DEF RootsInv, Scans, WillFind
<1> QED BY <1>2, <1>6, <1>7, <1>8 DEF RootsInv

LEMMA OthersKeepIt ==
  RootsInv /\ ((\E r \in {"temp", "legacy"} : \E d \in {Dir("other", "readable"), Link("other")} : ForeignRoot(r, d))
               \/ (\E r \in Roots : ForeignEntry(r))) => RootsInv'
<1>1. ASSUME RootsInv, NEW r \in {"temp", "legacy"}, NEW d \in {Dir("other", "readable"), Link("other")},
             ForeignRoot(r, d)
      PROVE  RootsInv'
  <2>1. d \in Dirs /\ r \in Roots /\ r # "home" /\ "home" \in Roots
    BY DirFacts DEF Roots
  <2>2. /\ root' = [root EXCEPT ![r] = d] /\ root[r] = NoDir
        /\ UNCHANGED <<setting, listing, app, holder, reader>>
    BY <1>1 DEF ForeignRoot
  <2>3. root \in [Roots -> Dirs \cup {NoDir}] /\ listing \in [Roots -> Entries \cup {NoDir}]
    BY <1>1 DEF RootsInv, RootsTypeOK
  <2>4. \A x \in Roots : Forged(listing[x])
    BY <1>1 DEF RootsInv
  <2> QED BY <1>1, <2>1, <2>2, <2>3, <2>4, OthersAddOnly
<1>2. ASSUME RootsInv, NEW r \in Roots, ForeignEntry(r)
      PROVE  RootsInv'
  <2> DEFINE e == [dir |-> Dir("other", "readable"), token |-> "other", port |-> "other"]
  <2>1. e \in Entries /\ Forged(e)
    BY DirFacts, EntryFacts DEF Writers, Forged
  <2>2. /\ listing' = [listing EXCEPT ![r] = e] /\ listing[r] = NoDir
        /\ UNCHANGED <<setting, root, app, holder, reader>>
    BY <1>2 DEF ForeignEntry
  <2> HIDE DEF e
  <2>3. root \in [Roots -> Dirs \cup {NoDir}] /\ listing \in [Roots -> Entries \cup {NoDir}]
    BY <1>2 DEF RootsInv, RootsTypeOK
  <2>4. \A x \in Roots : Forged(listing[x])
    BY <1>2 DEF RootsInv
  <2> QED BY <1>2, <2>1, <2>2, <2>3, <2>4, OthersAddOnly
<1> QED BY <1>1, <1>2

LEMMA PidKeepsIt ==
  RootsInv /\ (\E to \in {"nobody", "zombie", "ours", "other"} : PidPasses(to)) => RootsInv'
<1> SUFFICES ASSUME RootsInv, NEW to \in {"nobody", "zombie", "ours", "other"}, PidPasses(to)
             PROVE  RootsInv'
  OBVIOUS
<1>1. holder' # "app" /\ UNCHANGED <<setting, root, listing, app, foreign, reader>>
  BY DEF PidPasses
<1>2. RootsTypeOK' /\ (\A r \in Roots : Forged(listing[r]))'
  BY <1>1 DEF RootsInv, RootsTypeOK
<1>3. Picked' /\ Registers' /\ Scans'
  <2>1. Helpless' = Helpless
    BY <1>1, SettingStands DEF Helpless, CanBeOurs
  <2> QED BY <1>1, <2>1, SettingStands DEF RootsInv, Picked, Registers, Scans, Ours
<1> QED BY <1>2, <1>3 DEF RootsInv

LEMMA ChooseKeepsIt == RootsInv /\ ChooseRoot => RootsInv'
<1> SUFFICES ASSUME RootsInv, ChooseRoot PROVE RootsInv'
  OBVIOUS
<1> DEFINE r == IF FallsBack THEN "home" ELSE Primary
<1>1. /\ app.at = "choose" /\ app' = [app EXCEPT !.at = "token", !.root = r]
      /\ root' = IF Unix /\ CanBeOurs(root[r]) THEN [root EXCEPT ![r] = MadeOurs(@, "me")] ELSE root
      /\ UNCHANGED <<setting, listing, holder, reader>>
  BY DEF ChooseRoot
<1>2. /\ setting \in Settings /\ app \in Apps /\ reader \in Readers
      /\ root \in [Roots -> Dirs \cup {NoDir}]
  BY DEF RootsInv, RootsTypeOK
<1>3. r \in Roots /\ Primary \in Roots /\ (Unix => r \in {Primary, "home"}) /\ (~Unix => r = "legacy")
  BY <1>2, SettingFacts DEF Roots, FallsBack
<1>4. app' \in Apps /\ app'.at = "token" /\ app'.root = r /\ app'.refused = app.refused
  BY <1>1, <1>2, <1>3 DEF Apps, AppAts
<1>5. Unix /\ CanBeOurs(root[r]) => MadeOurs(root[r], "me") \in Dirs /\ Ours(MadeOurs(root[r], "me"))
  <2> SUFFICES ASSUME Unix, CanBeOurs(root[r])
               PROVE  MadeOurs(root[r], "me") \in Dirs /\ Ours(MadeOurs(root[r], "me"))
    OBVIOUS
  <2>1. PICK o \in {"me", "admins", "other"} : MadeOurs(root[r], "me") = Dir(o, "private") /\ o \in AcceptableOwners
    BY <1>2, <1>3, SettingFacts, DirFacts DEF MadeOurs, CanBeOurs
  <2> QED BY <2>1, DirFacts DEF Ours
<1>6. root' \in [Roots -> Dirs \cup {NoDir}]
  BY <1>1, <1>2, <1>5
<1>7. RootsTypeOK'
  BY <1>1, <1>4, <1>6 DEF RootsInv, RootsTypeOK
<1>8. Picked'
  <2>1. CASE Unix /\ CanBeOurs(root[r])
    <3>1. root'[r] = MadeOurs(root[r], "me")
      BY <1>1, <1>2, <1>3, <2>1
    <3>2. Ours(root[app.root])'
      BY <1>1, <1>4, <1>5, <2>1, <3>1, SettingStands
    <3> QED BY <1>1, <1>3, <1>4, <2>1, <3>2, SettingStands DEF Picked
  <2>2. CASE Unix /\ ~CanBeOurs(root[r])
    <3>1. r = Primary /\ ~(setting.home /\ CanBeOurs(root["home"])) /\ root' = root
      BY <1>1, <2>2 DEF FallsBack
    <3>2. Helpless'
      BY <1>1, <1>4, <2>2, <3>1, SettingStands DEF Helpless, CanBeOurs
    <3> QED BY <1>1, <1>3, <1>4, <2>2, <3>2, SettingStands DEF Picked
  <2>3. CASE ~Unix
    BY <1>1, <1>3, <1>4, <2>3, SettingStands DEF Picked
  <2> QED BY <2>1, <2>2, <2>3
<1>9. Registers'
  BY <1>1, <1>4 DEF RootsInv, Registers
<1>10. Scans'
  BY <1>1, <1>4 DEF RootsInv, Scans
<1>11. (\A x \in Roots : Forged(listing[x]))'
  BY <1>1 DEF RootsInv
<1> QED BY <1>7, <1>8, <1>9, <1>10, <1>11 DEF RootsInv

(* What ensure_private_dir does to the two directories. *)
LEMMA EnsureFacts ==
  ASSUME RootsInv, app.at \in {"token", "port"}, NEW owner \in Creates, NEW fails \in {"none", "root", "entry"},
         Unix => fails = "none", EnsureDirs(owner, fails), UNCHANGED <<setting, holder, reader>>
  PROVE  /\ RootsTypeOK' /\ Picked' /\ (\A x \in Roots : Forged(listing[x]))'
         /\ app.root \in Roots /\ app'.root = app.root
         /\ \/ /\ Ours(root[app.root])' /\ listing'[app.root] # NoDir /\ Ours(listing[app.root].dir)'
               /\ app'.at = (IF app.at = "token" THEN "write_token" ELSE "write_port")
               /\ app'.refused = app.refused
               /\ listing[app.root] # NoDir => listing'[app.root].token = listing[app.root].token
            \/ /\ app'.refused /\ app'.at = (IF app.at = "token" THEN "port" ELSE "up")
               /\ Unix => listing'[app.root] # NoDir \/ Helpless'
<1> DEFINE r == app.root
           rootOurs == CanBeOurs(root[r]) /\ fails # "root"
           d == IF listing[r] = NoDir THEN NoDir ELSE listing[r].dir
           ours == rootOurs /\ CanBeOurs(d) /\ fails # "entry"
           e == [dir |-> MadeOurs(d, owner), token |-> IF listing[r] = NoDir THEN NoDir ELSE listing[r].token,
                 port |-> IF listing[r] = NoDir THEN NoDir ELSE listing[r].port]
<1>1. /\ root' = IF rootOurs THEN [root EXCEPT ![r] = MadeOurs(root[r], owner)] ELSE root
      /\ listing' = IF ours THEN [listing EXCEPT ![r] = e]
                    ELSE IF rootOurs /\ ~Unix THEN [listing EXCEPT ![r] = NoDir] ELSE listing
      /\ app' = [app EXCEPT !.refused = app.refused \/ ~ours,
                            !.at = CASE ours -> (IF app.at = "token" THEN "write_token" ELSE "write_port")
                                   [] ~ours /\ app.at = "token" -> "port"
                                   [] OTHER -> "up"]
  BY DEF EnsureDirs
<1>2. /\ setting \in Settings /\ app \in Apps /\ reader \in Readers
      /\ root \in [Roots -> Dirs \cup {NoDir}] /\ listing \in [Roots -> Entries \cup {NoDir}]
  BY DEF RootsInv, RootsTypeOK
<1>3. /\ r \in Roots /\ Primary \in Roots /\ "home" \in Roots
      /\ Unix => r \in {Primary, "home"} /\ (Ours(root[r]) \/ Helpless)
      /\ Unix => Primary # "home"
  BY <1>2, SettingFacts DEF RootsInv, Picked, Roots
<1>4. ASSUME NEW x \in Dirs \cup {NoDir}, CanBeOurs(x)
      PROVE  MadeOurs(x, owner) \in Dirs /\ Ours(MadeOurs(x, owner))
  <2>1. PICK o \in {"me", "admins", "other"} : MadeOurs(x, owner) = Dir(o, "private") /\ o \in AcceptableOwners
    BY <1>2, <1>4, SettingFacts, DirFacts DEF MadeOurs, CanBeOurs
  <2> QED BY <2>1, DirFacts DEF Ours
<1>5. d \in Dirs \cup {NoDir}
  BY <1>2, <1>3, EntryFacts
<1>6. ours => e \in Entries /\ e.dir = MadeOurs(d, owner) /\ e # NoDir
              /\ (listing[r] # NoDir => e.token = listing[r].token /\ e.port = listing[r].port)
              /\ (listing[r] = NoDir => e.token = NoDir /\ e.port = NoDir)
  <2>1. ours => MadeOurs(d, owner) \in Dirs
    BY <1>4, <1>5
  <2>2. (IF listing[r] = NoDir THEN NoDir ELSE listing[r].token) \in Writers
        /\ (IF listing[r] = NoDir THEN NoDir ELSE listing[r].port) \in Writers
    BY <1>2, <1>3, EntryFacts DEF Writers
  <2> QED BY <2>1, <2>2, EntryFacts
<1>7. ours => Forged(e)
  <2> SUFFICES ASSUME ours, "other" \in {e.token, e.port} PROVE FALSE
    BY <1>6 DEF Forged
  <2>1. listing[r] # NoDir /\ "other" \in {listing[r].token, listing[r].port}
    BY <1>6, NoDirIsNone
  <2>2. listing[r].dir.owner = "other"
    BY <1>3, <2>1 DEF RootsInv, Forged
  <2> QED BY <1>2, <2>1, <2>2, SettingFacts, NoDirIsNone, DirFacts, EntryFacts,
             <1>3 DEF CanBeOurs
<1> HIDE DEF e
<1>8. /\ app' \in Apps /\ app'.root = r /\ app'.refused = (app.refused \/ ~ours)
      /\ ours => app'.at = (IF app.at = "token" THEN "write_token" ELSE "write_port")
      /\ ~ours => app'.at = (IF app.at = "token" THEN "port" ELSE "up")
  <2> DEFINE place == CASE ours -> (IF app.at = "token" THEN "write_token" ELSE "write_port")
                        [] ~ours /\ app.at = "token" -> "port"
                        [] OTHER -> "up"
             refused == app.refused \/ ~ours
  <2>1. app' = [app EXCEPT !.refused = refused, !.at = place]
    BY <1>1
  <2>2. /\ place \in AppAts /\ refused \in BOOLEAN
        /\ ours => place = (IF app.at = "token" THEN "write_token" ELSE "write_port")
        /\ ~ours => place = (IF app.at = "token" THEN "port" ELSE "up")
    <3> HIDE DEF ours
    <3>1. refused \in BOOLEAN
      OBVIOUS
    <3> HIDE DEF refused
    <3>2. /\ place \in AppAts
          /\ ours => place = (IF app.at = "token" THEN "write_token" ELSE "write_port")
          /\ ~ours => place = (IF app.at = "token" THEN "port" ELSE "up")
      <4>1. CASE ours
        <5>1. place = IF app.at = "token" THEN "write_token" ELSE "write_port"
          BY <4>1
        <5> QED BY <4>1, <5>1 DEF AppAts
      <4>2. CASE ~ours /\ app.at = "token"
        BY <4>2 DEF AppAts
      <4>3. CASE ~ours /\ app.at # "token"
        BY <4>3 DEF AppAts
      <4> QED BY <4>1, <4>2, <4>3
    <3> QED BY <3>1, <3>2
  <2>3. refused = (app.refused \/ ~ours)
    OBVIOUS
  <2> HIDE DEF place, refused, ours
  <2>4. app' \in Apps /\ app'.root = r /\ app'.refused = refused /\ app'.at = place
    BY <1>2, <2>1, <2>2 DEF Apps
  <2> QED BY <2>2, <2>3, <2>4
<1>9. /\ root' \in [Roots -> Dirs \cup {NoDir}]
      /\ \A x \in Roots : x # r => root'[x] = root[x]
      /\ rootOurs => Ours(root'[r])
      /\ ~rootOurs => root' = root
  BY <1>1, <1>2, <1>3, <1>4
<1>10. /\ listing' \in [Roots -> Entries \cup {NoDir}]
       /\ ours => listing'[r] = e
       /\ \A x \in Roots : listing'[x] \in {listing[x], NoDir} \/ (ours /\ listing'[x] = e)
       /\ ~ours /\ (Unix \/ ~rootOurs) => listing' = listing
  <2>1. ours => e \in Entries
    BY <1>6
  <2> HIDE DEF ours, rootOurs
  <2> QED BY <1>1, <1>2, <1>3, <2>1
<1>11. RootsTypeOK'
  BY <1>2, <1>8, <1>9, <1>10 DEF RootsTypeOK
<1>12. (\A x \in Roots : Forged(listing[x]))'
  BY <1>7, <1>10 DEF RootsInv, Forged
<1>13. Unix => Ours(root'[r]) \/ Helpless'
  <2> SUFFICES ASSUME Unix, ~Ours(root'[r]) PROVE Helpless'
    OBVIOUS
  <2>1. root' = root
    BY <1>9
  <2>2. Helpless
    BY <1>3, <2>1
  <2> QED BY <1>8, <2>1, <2>2, SettingStands DEF Helpless, CanBeOurs
<1>14. Picked'
  BY <1>3, <1>8, <1>13, SettingStands DEF RootsInv, Picked, Ours
<1>15. CASE ours
  <2>1. Ours(root[app.root])' /\ listing'[r] # NoDir /\ Ours(listing[r].dir)'
    <3>1. Ours(root'[r]) /\ Ours(e.dir) /\ listing'[r] = e /\ e # NoDir /\ app'.root = r
      BY <1>4, <1>5, <1>6, <1>8, <1>9, <1>10, <1>15
    <3> HIDE DEF ours
    <3> QED BY <3>1, SettingStands DEF Ours
  <2>2. app'.at = (IF app.at = "token" THEN "write_token" ELSE "write_port")
    BY <1>8, <1>15
  <2>3. app'.refused = app.refused
    <3>1. app.refused \in BOOLEAN
      BY <1>2 DEF Apps
    <3> HIDE DEF ours
    <3> QED BY <1>8, <1>15, <3>1
  <2>4. listing[r] # NoDir => listing'[r].token = listing[r].token
    BY <1>6, <1>10, <1>15
  <2> HIDE DEF ours
  <2> QED BY <1>3, <1>8, <1>11, <1>12, <1>14, <2>1, <2>2, <2>3, <2>4
<1>16. CASE ~ours
  <2>1. Unix => listing'[r] # NoDir \/ Helpless'
    <3> SUFFICES ASSUME Unix, listing'[r] = NoDir PROVE Helpless'
      OBVIOUS
    <3>1. d = NoDir /\ ~CanBeOurs(root[r])
      BY <1>10, <1>16 DEF CanBeOurs
    <3>2. Helpless
      BY <1>3, <3>1 DEF Ours, CanBeOurs
    <3> QED BY <1>8, <1>9, <3>1, <3>2, SettingStands DEF Helpless, CanBeOurs
  <2> QED BY <1>3, <1>8, <1>11, <1>12, <1>14, <1>16, <2>1
<1> QED BY <1>15, <1>16

LEMMA EnsureKeepsIt == RootsInv /\ Ensure => RootsInv'
<1> SUFFICES ASSUME RootsInv, Ensure PROVE RootsInv'
  OBVIOUS
<1>1. PICK owner \in Creates, fails \in {"none", "root", "entry"} :
        (Unix => fails = "none") /\ EnsureDirs(owner, fails)
  BY DEF Ensure
<1>2. holder = "app" /\ app.at \in {"token", "port"} /\ UNCHANGED <<setting, holder, reader>>
  BY DEF Ensure
<1>3. /\ RootsTypeOK' /\ Picked' /\ (\A x \in Roots : Forged(listing[x]))'
      /\ app.root \in Roots /\ app'.root = app.root
      /\ \/ /\ Ours(root[app.root])' /\ listing'[app.root] # NoDir /\ Ours(listing[app.root].dir)'
            /\ app'.at = (IF app.at = "token" THEN "write_token" ELSE "write_port")
            /\ app'.refused = app.refused
            /\ listing[app.root] # NoDir => listing'[app.root].token = listing[app.root].token
         \/ /\ app'.refused /\ app'.at = (IF app.at = "token" THEN "port" ELSE "up")
            /\ Unix => listing'[app.root] # NoDir \/ Helpless'
  BY <1>1, <1>2, EnsureFacts, Zenon
<1>4. Registers'
  BY <1>2, <1>3, SettingStands DEF RootsInv, Registers
<1>5. Scans'
  BY <1>2 DEF RootsInv, Scans
<1> QED BY <1>3, <1>4, <1>5 DEF RootsInv

LEMMA RegisterKeepsIt == RootsInv /\ RegisterFile => RootsInv'
<1> SUFFICES ASSUME RootsInv, RegisterFile PROVE RootsInv'
  OBVIOUS
<1> DEFINE r == app.root
           e == listing[r]
<1>1. holder = "app" /\ app.at \in {"write_token", "write_port"} /\ UNCHANGED <<setting, root, holder, reader>>
  BY DEF RegisterFile
<1>2. /\ setting \in Settings /\ app \in Apps /\ reader \in Readers
      /\ root \in [Roots -> Dirs \cup {NoDir}] /\ listing \in [Roots -> Entries \cup {NoDir}]
  BY DEF RootsInv, RootsTypeOK
<1>3. r \in Roots /\ Ours(root[r]) /\ e # NoDir /\ Ours(e.dir) /\ e \in Entries
  <2>1. r \in Roots
    BY <1>1, <1>2, SettingFacts DEF RootsInv, Picked, Roots
  <2> QED BY <1>1, <1>2, <2>1 DEF RootsInv, Registers
<1>4. e.dir \in Dirs /\ e.token \in {NoDir, "app"} /\ e.port \in {NoDir, "app"}
  <2>1. e.dir.owner # "other"
    BY <1>2, <1>3, SettingFacts DEF Ours
  <2>2. e.token # "other" /\ e.port # "other"
    BY <1>3, <2>1 DEF RootsInv, Forged
  <2> QED BY <1>3, <2>2, EntryFacts DEF Writers
<1>5. PICK w \in Entries :
        /\ listing' = [listing EXCEPT ![r] = w] /\ w.dir = e.dir
        /\ w.token \in {NoDir, "app"} /\ w.port \in {NoDir, "app"}
        /\ \/ app.at = "write_token" /\ w.token = "app" /\ app' = [app EXCEPT !.at = "port"]
           \/ /\ app.at = "write_port" /\ w.token = e.token /\ w.port = "app"
              /\ app' = [app EXCEPT !.at = "up"]
  <2>1. e = [dir |-> e.dir, token |-> e.token, port |-> e.port]
    BY <1>3 DEF Entries
  <2>2. CASE app.at = "write_token"
    <3> DEFINE w == [dir |-> e.dir, token |-> "app", port |-> e.port]
    <3>1. w \in Entries
      BY <1>4, EntryFacts DEF Writers
    <3>2. listing' = [listing EXCEPT ![r] = [e EXCEPT !.token = "app"]] /\ app' = [app EXCEPT !.at = "port"]
      BY <2>2 DEF RegisterFile
    <3>3. [e EXCEPT !.token = "app"] = w
      BY <2>1
    <3> QED BY <1>4, <2>2, <3>1, <3>2, <3>3
  <2>3. CASE app.at = "write_port"
    <3> DEFINE w == [dir |-> e.dir, token |-> e.token, port |-> "app"]
    <3>1. w \in Entries
      BY <1>4, EntryFacts DEF Writers
    <3>2. listing' = [listing EXCEPT ![r] = [e EXCEPT !.port = "app"]] /\ app' = [app EXCEPT !.at = "up"]
      BY <2>3 DEF RegisterFile
    <3>3. [e EXCEPT !.port = "app"] = w
      BY <2>1
    <3> QED BY <1>4, <2>3, <3>1, <3>2, <3>3
  <2> QED BY <1>1, <2>2, <2>3
<1>6. /\ app' \in Apps /\ app'.root = r /\ app'.refused = app.refused
      /\ app.at = "write_token" => app'.at = "port"
      /\ app.at = "write_port" => app'.at = "up"
  BY <1>2, <1>5 DEF Apps, AppAts
<1>7. /\ listing' \in [Roots -> Entries \cup {NoDir}] /\ listing'[r] = w /\ w # NoDir
      /\ \A x \in Roots : listing'[x] = listing[x] \/ listing'[x] = w
  BY <1>2, <1>3, <1>5, EntryFacts
<1>8. RootsTypeOK' /\ (\A x \in Roots : Forged(listing[x]))'
  <2>1. Forged(w)
    BY <1>5, NoDirIsNone DEF Forged
  <2> QED BY <1>1, <1>2, <1>6, <1>7, <2>1 DEF RootsInv, RootsTypeOK, Forged
<1>9. Helpless => Helpless'
  BY <1>1, <1>6, SettingStands DEF Helpless, CanBeOurs
<1>10. Picked'
  BY <1>1, <1>6, <1>9, SettingStands DEF RootsInv, Picked, Ours
<1>11. Registers'
  <2>1. Ours(root[app.root])' /\ Ours(listing[app.root].dir)'
    BY <1>1, <1>3, <1>5, <1>6, <1>7, SettingStands DEF Ours
  <2>2. app.at = "write_port" /\ ~app.refused => e.token = "app"
    BY <1>1 DEF RootsInv, Registers
  <2>3. app.at = "write_token" => ~app.refused
    BY <1>1 DEF RootsInv, Registers
  <2> HIDE DEF e
  <2> QED BY <1>1, <1>5, <1>6, <1>7, <2>1, <2>2, <2>3 DEF Registers
<1>12. Scans'
  BY <1>1 DEF RootsInv, Scans
<1> QED BY <1>8, <1>10, <1>11, <1>12 DEF RootsInv

LEMMA ShutDownKeepsIt == RootsInv /\ ShutDown => RootsInv'
<1> SUFFICES ASSUME RootsInv, ShutDown PROVE RootsInv'
  OBVIOUS
<1>1. /\ app.at = "up" /\ app' = [app EXCEPT !.at = "down"] /\ UNCHANGED <<setting, root, holder, reader>>
      /\ listing' \in {listing, [listing EXCEPT ![app.root] = NoDir]}
  BY DEF ShutDown
<1>2. app \in Apps /\ listing \in [Roots -> Entries \cup {NoDir}]
  BY DEF RootsInv, RootsTypeOK
<1>3. app' \in Apps /\ app'.at = "down" /\ app'.root = app.root /\ app'.refused = app.refused
  BY <1>1, <1>2 DEF Apps, AppAts
<1>4. /\ listing' \in [Roots -> Entries \cup {NoDir}]
      /\ \A x \in Roots : listing'[x] \in {listing[x], NoDir}
  BY <1>1, <1>2
<1>5. RootsTypeOK' /\ (\A x \in Roots : Forged(listing[x]))'
  BY <1>1, <1>3, <1>4 DEF RootsInv, RootsTypeOK, Forged
<1>6. Helpless => Helpless'
  BY <1>1, <1>3, SettingStands DEF Helpless, CanBeOurs
<1>7. Picked'
  BY <1>1, <1>3, <1>6, SettingStands DEF RootsInv, Picked, Ours
<1>8. Registers'
  BY <1>3 DEF Registers
<1>9. Scans'
  BY <1>1, <1>3 DEF RootsInv, Scans
<1> QED BY <1>5, <1>7, <1>8, <1>9 DEF RootsInv

LEMMA StartScanKeepsIt ==
  RootsInv /\ (\E kind \in {"client", "bridge", "watchdog"} : StartScan(kind)) => RootsInv'
<1> SUFFICES ASSUME RootsInv, NEW kind \in {"client", "bridge", "watchdog"}, StartScan(kind)
             PROVE  RootsInv'
  OBVIOUS
<1>1. /\ reader.kind = NoDir /\ UNCHANGED <<setting, root, listing, app, holder>>
      /\ reader' = [kind |-> kind, left |-> LookIn, found |-> {}, gone |-> FALSE,
                    registered |-> app.at = "up" /\ ~app.refused]
  BY DEF StartScan
<1>2. setting \in Settings /\ app \in Apps
  BY DEF RootsInv, RootsTypeOK
<1>3. /\ LookIn \in Seq(Roots)
      /\ Unix => \A r \in {Primary, "home"} : \E i \in DOMAIN LookIn : LookIn[i] = r
      /\ ~Unix => \E i \in DOMAIN LookIn : LookIn[i] = "legacy"
  <2>1. CASE Unix /\ setting.runtime
    <3> DEFINE first == <<"runtime">>
               rest == <<"temp", "home", "legacy">>
    <3>1. LookIn = first \o rest
      BY <2>1 DEF LookIn, Scanned
    <3>2. /\ first \in Seq(Roots) /\ Len(first) = 1 /\ first[1] = "runtime"
          /\ rest \in Seq(Roots) /\ Len(rest) = 3 /\ rest[2] = "home"
      BY DEF Roots
    <3> HIDE DEF first, rest
    <3>3. LookIn \in Seq(Roots) /\ DOMAIN LookIn = 1..4 /\ LookIn[1] = "runtime" /\ LookIn[3] = "home"
      <4>1. /\ LookIn \in Seq(Roots) /\ Len(LookIn) = 4
            /\ \A i \in 1..4 : LookIn[i] = IF i <= 1 THEN first[i] ELSE rest[i - 1]
        <5>1. /\ first \o rest \in Seq(Roots) /\ Len(first \o rest) = Len(first) + Len(rest)
              /\ \A i \in 1..(Len(first) + Len(rest)) :
                   (first \o rest)[i] = IF i <= Len(first) THEN first[i] ELSE rest[i - Len(first)]
          BY <3>2, ConcatProperties, Zenon
        <5>2. Len(first) + Len(rest) = 4 /\ \A i \in Int : i - Len(first) = i - 1
          BY <3>2
        <5> QED BY <3>1, <3>2, <5>1, <5>2
      <4>2. LookIn[3] = rest[3 - 1] /\ LookIn[1] = first[1]
        BY <4>1
      <4> QED BY <3>2, <4>1, <4>2
    <3>4. Primary = "runtime"
      BY <2>1 DEF Primary
    <3> QED BY <2>1, <3>4, <3>3
  <2>2. CASE Unix /\ ~setting.runtime
    <3>1. LookIn = <<"temp", "home", "legacy">>
      BY <2>2 DEF LookIn, Scanned
    <3>2. LookIn \in Seq(Roots) /\ DOMAIN LookIn = 1..3 /\ LookIn[1] = "temp" /\ LookIn[2] = "home"
      BY <3>1 DEF Roots
    <3>3. Primary = "temp"
      BY <2>2 DEF Primary
    <3> QED BY <2>2, <3>2, <3>3
  <2>3. CASE ~Unix
    <3>1. LookIn = <<"legacy">>
      BY <2>3 DEF LookIn, Scanned
    <3>2. LookIn \in Seq(Roots) /\ DOMAIN LookIn = 1..1 /\ LookIn[1] = "legacy"
      BY <3>1 DEF Roots
    <3> QED BY <2>3, <3>2
  <2> QED BY <2>1, <2>2, <2>3
<1>4. reader' \in Readers
  BY <1>1, <1>3 DEF Readers, Writers
<1>5. /\ reader'.left = LookIn /\ reader'.found = {} /\ ~reader'.gone
      /\ reader'.registered = (app.at = "up" /\ ~app.refused)
  BY <1>1
<1>6. Scans'
  <2>1. app.at = "up" => \E i \in DOMAIN LookIn : LookIn[i] = app.root
    BY <1>3 DEF RootsInv, Picked
  <2> QED BY <1>1, <1>5, <2>1 DEF Scans, WillFind
<1>7. RootsTypeOK' /\ (\A x \in Roots : Forged(listing[x]))'
  BY <1>1, <1>4 DEF RootsInv, RootsTypeOK
<1>8. Picked' /\ Registers'
  <2>1. Helpless => Helpless'
    BY <1>1, SettingStands DEF Helpless, CanBeOurs
  <2> QED BY <1>1, <2>1, SettingStands DEF RootsInv, Picked, Registers, Ours
<1> QED BY <1>6, <1>7, <1>8 DEF RootsInv

LEMMA ScanKeepsIt == RootsInv /\ ScanRoot => RootsInv'
<1> SUFFICES ASSUME RootsInv, ScanRoot PROVE RootsInv'
  OBVIOUS
<1> DEFINE r == Head(reader.left)
<1>1. /\ reader.left # <<>> /\ UNCHANGED <<setting, root, app, holder>>
  BY DEF ScanRoot
<1>2. PICK v \in Verdicts :
        /\ reader' = [reader EXCEPT !.left = Tail(reader.left),
                        !.found = reader.found \cup (IF Uses(r, v) THEN {listing[r].port, listing[r].token} ELSE {}),
                        !.gone = reader.gone \/ (Seen(r) /\ v \in {"Dead", "OtherUser"})]
        /\ listing' = IF Seen(r) /\ v = "Dead" /\ reader.kind = "client"
                      THEN [listing EXCEPT ![r] = NoDir] ELSE listing
  BY DEF ScanRoot
<1>3. /\ setting \in Settings /\ app \in Apps /\ reader \in Readers
      /\ root \in [Roots -> Dirs \cup {NoDir}] /\ listing \in [Roots -> Entries \cup {NoDir}]
  BY DEF RootsInv, RootsTypeOK
<1>4. /\ reader.left \in Seq(Roots) /\ r \in Roots /\ Tail(reader.left) \in Seq(Roots)
      /\ \A i \in DOMAIN reader.left :
           reader.left[i] = r \/ \E j \in DOMAIN Tail(reader.left) : Tail(reader.left)[j] = reader.left[i]
  <2>1. reader.left \in Seq(Roots)
    BY <1>3 DEF Readers
  <2>2. ASSUME NEW i \in DOMAIN reader.left, i # 1
        PROVE  i - 1 \in DOMAIN Tail(reader.left) /\ Tail(reader.left)[i - 1] = reader.left[i]
    BY <1>1, <2>1, <2>2
  <2>3. r = reader.left[1] /\ r \in Roots /\ Tail(reader.left) \in Seq(Roots)
    BY <1>1, <2>1
  <2> QED BY <2>1, <2>2, <2>3
<1>5. Seen(r) => /\ listing[r] # NoDir /\ listing[r].port \in {NoDir, "app"} /\ listing[r].token \in {NoDir, "app"}
  <2> SUFFICES ASSUME Seen(r)
               PROVE  listing[r] # NoDir /\ listing[r].port \in {NoDir, "app"} /\ listing[r].token \in {NoDir, "app"}
    OBVIOUS
  <2>1. listing[r] # NoDir /\ listing[r].dir.owner \in AcceptableOwners
    BY <1>3, SettingFacts DEF Seen, ReaderTrusts
  <2>2. listing[r] \in Entries /\ listing[r].dir.owner # "other"
    BY <1>3, <1>4, <2>1, SettingFacts
  <2>3. listing[r].port # "other" /\ listing[r].token # "other"
    BY <1>4, <2>1, <2>2 DEF RootsInv, Forged
  <2> QED BY <2>1, <2>2, <2>3, EntryFacts DEF Writers
<1>6. PICK more \in SUBSET {NoDir, "app"}, lost \in BOOLEAN :
        /\ reader' = [reader EXCEPT !.left = Tail(reader.left), !.found = reader.found \cup more, !.gone = lost]
        /\ lost => reader.gone \/ v \in {"Dead", "OtherUser"}
        /\ Uses(r, v) => "app" \in more
        /\ ~Uses(r, v) => more = {}
  <2> DEFINE more == IF Uses(r, v) THEN {listing[r].port, listing[r].token} ELSE {}
             lost == reader.gone \/ (Seen(r) /\ v \in {"Dead", "OtherUser"})
  <2>1. more \in SUBSET {NoDir, "app"} /\ (Uses(r, v) => "app" \in more) /\ (~Uses(r, v) => more = {})
    BY <1>5 DEF Uses
  <2>2. lost \in BOOLEAN /\ (lost => reader.gone \/ v \in {"Dead", "OtherUser"})
    OBVIOUS
  <2>3. reader' = [reader EXCEPT !.left = Tail(reader.left), !.found = reader.found \cup more, !.gone = lost]
    BY <1>2
  <2> HIDE DEF more, lost
  <2> QED BY <2>1, <2>2, <2>3
<1>7. /\ reader' \in Readers /\ reader'.left = Tail(reader.left) /\ reader'.found = reader.found \cup more
      /\ reader'.gone = lost /\ reader'.registered = reader.registered /\ reader'.kind = reader.kind
  <2>1. reader.found \cup more \in SUBSET Writers
    BY <1>3 DEF Readers, Writers
  <2> QED BY <1>3, <1>4, <1>6, <2>1 DEF Readers
<1>8. /\ listing' \in [Roots -> Entries \cup {NoDir}]
      /\ \A x \in Roots : listing'[x] \in {listing[x], NoDir}
      /\ holder = "app" => listing' = listing
  BY <1>2, <1>3, <1>4, LiveVerdicts
<1>9. RootsTypeOK' /\ (\A x \in Roots : Forged(listing[x]))'
  BY <1>1, <1>7, <1>8 DEF RootsInv, RootsTypeOK, Forged
<1>10. Helpless => Helpless'
  BY <1>1, SettingStands DEF Helpless, CanBeOurs
<1>11. Picked'
  BY <1>1, <1>10, SettingStands DEF RootsInv, Picked, Ours
<1>12. Registers'
  <2> SUFFICES ASSUME holder = "app" PROVE Registers'
    BY <1>1 DEF Registers
  <2> QED BY <1>1, <1>8, <1>10, SettingStands DEF RootsInv, Registers, Ours
<1>13. Scans'
  <2>1. "other" \notin reader'.found /\ (reader'.found # {} => "app" \in reader'.found)
    BY <1>6, <1>7, NoDirIsNone DEF RootsInv, Scans
  <2>2. reader'.gone => holder # "app"
    BY <1>3, <1>6, <1>7, LiveVerdicts DEF RootsInv, Scans
  <2>3. reader'.registered => app.at \in {"up", "down"} /\ ~app.refused
    BY <1>7 DEF RootsInv, Scans
  <2>4. ASSUME reader.registered, app.at = "up", holder = "app"
        PROVE  WillFind'
    <3>1. Verdicts' = Verdicts
      BY <1>1, VerdictsStand
    <3>2. CASE \E i \in DOMAIN reader.left : reader.left[i] = app.root
      <4>1. CASE r # app.root
        BY <1>1, <1>4, <1>7, <3>2, <4>1 DEF WillFind
      <4>2. CASE r = app.root
        <5>1. /\ Ours(root[r]) /\ listing[r] # NoDir /\ Ours(listing[r].dir)
              /\ listing[r].port = "app"
          BY <2>3, <2>4, <1>7, <4>2 DEF RootsInv, Registers
        <5>2. Seen(r)
          BY <1>3, <5>1, SettingFacts DEF Seen, ReaderTrusts, Ours
        <5>3. Uses(r, v) \/ reader.found # {} \/ (reader.kind # "watchdog" /\ v # "Own")
          BY <1>3, <2>4, <5>1, <5>2, LiveVerdicts, NoDirIsNone DEF Uses
        <5>4. v # "Own" => Verdicts # {"Own"}
          OBVIOUS
        <5> QED BY <1>6, <1>7, <2>1, <3>1, <5>3, <5>4 DEF WillFind
      <4> QED BY <4>1, <4>2
    <3>3. CASE "app" \in reader.found \/ (reader.kind # "watchdog" /\ Verdicts # {"Own"})
      BY <1>7, <3>1, <3>3 DEF WillFind
    <3>4. WillFind
      BY <2>4 DEF RootsInv, Scans
    <3> QED BY <3>2, <3>3, <3>4 DEF WillFind
  <2> QED BY <1>1, <1>7, <2>1, <2>2, <2>3, <2>4 DEF Scans
<1> QED BY <1>9, <1>11, <1>12, <1>13 DEF RootsInv

LEMMA RootsKeepIt == RootsInv /\ [RootsNext]_rootVars => RootsInv'
<1> SUFFICES ASSUME RootsInv, [RootsNext]_rootVars PROVE RootsInv'
  OBVIOUS
<1>1. CASE RootsNext
  BY <1>1, OthersKeepIt, PidKeepsIt, ChooseKeepsIt, EnsureKeepsIt, RegisterKeepsIt,
     ShutDownKeepsIt, StartScanKeepsIt, ScanKeepsIt DEF RootsNext
<1>2. CASE UNCHANGED rootVars
  <2>1. UNCHANGED <<setting, root, listing, app, holder, reader>>
    BY <1>2 DEF rootVars
  <2> QED BY <2>1, OthersAddOnly DEF RootsInv, RootsTypeOK
<1> QED BY <1>1, <1>2

(* Between any two accounts, however often the other one makes directories first and *)
(* whatever becomes of the process id: an application is registered, what is         *)
(* registered is found, what another account wrote is not used, and an application   *)
(* that runs is not taken for gone.                                                  *)
THEOREM EntriesAreOursAlways == RootsSpec => []EntriesAreOurs
<1>1. ASSUME RootsInv PROVE EntriesAreOurs
  <2>1. AppsRegister
    BY <1>1 DEF RootsInv, Registers, AppsRegister, Helpless
  <2>2. RegisteredIsFound
    <3> SUFFICES ASSUME reader.left = <<>>, reader.registered, app.at = "up", holder = "app"
                 PROVE  "app" \in reader.found \/ (reader.kind # "watchdog" /\ Verdicts # {"Own"})
      BY DEF RegisteredIsFound
    <3> QED BY <1>1 DEF RootsInv, Scans, WillFind
  <2>3. OnlyOwnIsUsed /\ LiveIsNotGone
    BY <1>1 DEF RootsInv, Scans, Registers, OnlyOwnIsUsed, LiveIsNotGone
  <2> QED BY <2>1, <2>2, <2>3 DEF EntriesAreOurs
<1> QED BY <1>1, RootsStart, RootsKeepIt, PTL DEF RootsSpec

-----------------------------------------------------------------------------

(* Both together, from the directory to the call: among the applications of this and   *)
(* other accounts, and across their restarts, a client finds the one it was made for,   *)
(* and every call it makes runs there, once.                                            *)
THEOREM ClientsFindTheirAppAlways ==
  ASSUME ~Explicit, "app" \notin Reuse
  PROVE  RvSpec /\ RootsSpec => []ClientsFindTheirApp
<1>1. RvSpec => []CallsReachTheirApp
  BY CallsReachTheirAppAlways
<1>2. CallsReachTheirApp /\ EntriesAreOurs => ClientsFindTheirApp
  BY DEF ClientsFindTheirApp
<1> QED BY <1>1, <1>2, EntriesAreOursAlways, PTL

=============================================================================
