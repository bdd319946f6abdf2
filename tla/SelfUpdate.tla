---------------------------- MODULE SelfUpdate -----------------------------
(***************************************************************************)
(* `popola update` and `popola skill install | upgrade | uninstall`        *)
(* (evolution/self_update.py, evolution/skill_*.py, cli/update_cmd.py,     *)
(* cli/skill_cmd.py): the wheel on disk, the skill files of the IDEs and   *)
(* the version marker beside each, as one command after another changes    *)
(* them.  A command keeps the code it was started with while pip replaces  *)
(* the wheel under it.  The target "claude" is left out: it has the same   *)
(* two scopes as "cursor".                                                 *)
(***************************************************************************)
EXTENDS Integers, Sequences

CONSTANTS
    MaxVersion,     \* the newest wheel
    MaxCommands     \* bound on the commands run

ASSUME VersionsAssumption == MaxVersion \in Nat \ {0} /\ MaxCommands \in Nat

VARIABLES
    installKind,    \* how popola was installed ("pipx" is refused as "editable" is)
    wheel,          \* the version of the wheel on disk
    running,        \* __version__ of the running command
    skill,          \* the skill file at each place
    marker,         \* the .popola-loom-version beside it
    cmd,            \* the command
    updateStage,          \* where it is
    todo,           \* the places it has yet to visit, by position
    cmdResult,      \* its exit code, once it is over
    commands        \* commands run so far

fileVars == <<wheel, skill, marker>>
updateVars == <<installKind, running, fileVars, cmd, updateStage, todo, cmdResult, commands>>

(***************************************************************************)
(* Places, and the contents of a skill file: nothing, the skill of a       *)
(* wheel, or a text without a version (someone else's, or a torn write).   *)
(***************************************************************************)
Absent == 0
NoVersion == -1
Contents == {Absent, NoVersion} \cup 1..MaxVersion

\* SKILL_TARGETS in its order, the scopes of a target sorted.
SkillTargets == << <<"cursor", "global">>, <<"cursor", "project">>,
                   <<"codex", "global">>, <<"copilot", "project">> >>

PlacesAt(positions) == {SkillTargets[i] : i \in positions}

Places == PlacesAt(DOMAIN SkillTargets)

SupportedScopes(target) == {p[2] : p \in {q \in Places : q[1] = target}}

\* A scope the target does not have falls back to the one it has.
ScopesOf(target, scope) ==
    IF scope \in SupportedScopes(target) THEN {scope} ELSE SupportedScopes(target)

NamedPlaces(c) ==
    {p \in Places : /\ c.target \in {"all", p[1]}
                    /\ p[2] \in ScopesOf(p[1], c.scope)}

Targets == {"all", "cursor", "copilot"}

\* `judges`: without --no-doctor, and with neither --quiet nor --json.
UpdateCommands ==
    [verb : {"update"}, target : Targets, scope : {"global", "project", "both"},
     dryRun : BOOLEAN, noSkills : BOOLEAN, judges : BOOLEAN]

SkillCommands ==
    [verb : {"install", "upgrade", "uninstall"}, target : Targets,
     scope : {"global", "project"}, dryRun : BOOLEAN]

\* detect_install_kind
InstallKinds == {"regular", "editable"}

UpdateInit ==
    /\ installKind \in InstallKinds
    /\ wheel = 1
    /\ running = 1
    /\ \E installed \in BOOLEAN, own \in BOOLEAN :
         skill = [p \in Places |-> IF installed THEN 1
                                  ELSE IF own /\ p[1] = "copilot" THEN NoVersion
                                  ELSE Absent]
    /\ marker = [p \in Places |-> IF skill[p] = 1 THEN 1 ELSE Absent]
    /\ cmd = [verb |-> "none"]
    /\ updateStage = "idle"
    /\ todo = {}
    /\ cmdResult = "none"
    /\ commands = 0

(***************************************************************************)
(* A command starts, and may be refused before it has changed anything.    *)
(***************************************************************************)
\* `coherent`: --ref and --version go with --from.
RefusesUpdate(coherent, force) == ~coherent \/ (installKind = "editable" /\ ~force)

Ends(result) == updateStage' = "idle" /\ todo' = {} /\ cmdResult' = result

Start(c) ==
    /\ updateStage = "idle" /\ commands < MaxCommands
    /\ commands' = commands + 1
    /\ cmd' = c
    /\ running' = wheel
    /\ \/ /\ c.verb = "update"
          /\ \E coherent, force \in BOOLEAN : RefusesUpdate(coherent, force)
          /\ Ends("refused")
       \/ /\ updateStage' = IF c.verb = "update" THEN "pip" ELSE "skills"
          /\ todo' = {i \in DOMAIN SkillTargets : SkillTargets[i] \in NamedPlaces(c)}
          /\ cmdResult' = "none"
          /\ c.verb = "update" =>
               \E coherent, force \in BOOLEAN : ~RefusesUpdate(coherent, force)
    /\ UNCHANGED <<installKind, fileVars>>

\* pip installs another wheel, or the same, or into another --python.
RunPipUpgrade ==
    /\ updateStage = "pip"
    /\ \/ /\ IF cmd.dryRun THEN UNCHANGED wheel ELSE wheel' \in 1..MaxVersion
          /\ todo' = IF cmd.noSkills THEN {} ELSE todo
          /\ updateStage' = "skills"
          /\ UNCHANGED cmdResult
       \/ /\ ~cmd.dryRun
          /\ Ends("error")
          /\ UNCHANGED wheel
    /\ UNCHANGED <<installKind, running, skill, marker, cmd, commands>>

(***************************************************************************)
(* One place after another.  install leaves a file alone that has the      *)
(* bytes of the source; upgrade writes it in any case; uninstall removes   *)
(* it.  Then the marker, except that uninstall knows of none for copilot.  *)
(***************************************************************************)
Position == CHOOSE i \in todo : \A j \in todo : i <= j

Place == SkillTargets[Position]

Rest == todo \ {Position}

AtPlace == updateStage = "skills" /\ todo # {}

LeavesAlone(p) ==
    \/ cmd.dryRun
    \/ cmd.verb = "install" /\ skill[p] = wheel
    \/ cmd.verb = "uninstall" /\ skill[p] = Absent

Kept == UNCHANGED <<installKind, wheel, running, cmd, commands>>

SkipPlace ==
    /\ AtPlace /\ LeavesAlone(Place)
    /\ todo' = Rest
    /\ UNCHANGED <<updateStage, cmdResult, skill, marker>> /\ Kept

WriteSkill ==
    /\ AtPlace /\ ~LeavesAlone(Place)
    /\ cmd.verb # "uninstall"
    /\ skill' = [skill EXCEPT ![Place] = wheel]
    /\ updateStage' = "marker"
    /\ UNCHANGED <<cmdResult, marker, todo>> /\ Kept

RemoveSkill ==
    /\ AtPlace /\ ~LeavesAlone(Place)
    /\ cmd.verb = "uninstall"
    /\ skill' = [skill EXCEPT ![Place] = Absent]
    /\ IF Place[1] = "copilot" THEN todo' = Rest /\ UNCHANGED updateStage
       ELSE updateStage' = "marker" /\ UNCHANGED todo
    /\ UNCHANGED <<cmdResult, marker>> /\ Kept

WriteMarker ==
    /\ updateStage = "marker"
    /\ marker' = [marker EXCEPT ![Place] =
                     IF cmd.verb = "uninstall" THEN Absent ELSE wheel]
    /\ updateStage' = "skills"
    /\ todo' = Rest
    /\ UNCHANGED <<cmdResult, skill>> /\ Kept

\* Mutant: the error at one place is swallowed and the next one follows.
WriteFails_Continues ==
    /\ AtPlace /\ ~LeavesAlone(Place)
    /\ todo' = Rest
    /\ UNCHANGED <<updateStage, cmdResult, skill, marker>> /\ Kept

\* An OSError ends the command, after pip and the places before this one; the
\* file it was to write may have been truncated.
WriteFails ==
    /\ \/ /\ AtPlace /\ ~LeavesAlone(Place)
          /\ \/ UNCHANGED skill
             \/ /\ cmd.verb # "uninstall"
                /\ skill' = [skill EXCEPT ![Place] = NoVersion]
          /\ UNCHANGED marker
       \/ /\ updateStage = "marker"
          /\ \/ UNCHANGED marker
             \/ /\ cmd.verb # "uninstall"
                /\ marker' = [marker EXCEPT ![Place] = NoVersion]
          /\ UNCHANGED skill
    /\ Ends("error")
    /\ Kept

(***************************************************************************)
(* update ends with a look at every place, whatever its --target, against  *)
(* the version this process was started with.                              *)
(***************************************************************************)
Missing(p) == skill[p] = Absent /\ p[1] # "copilot"

Drift(p) == skill[p] \in 1..MaxVersion /\ skill[p] # running

Finish ==
    /\ updateStage = "skills" /\ todo = {}
    /\ Ends(IF /\ cmd.verb = "update" /\ cmd.judges /\ ~cmd.dryRun
               /\ \E p \in Places : Drift(p) \/ Missing(p)
            THEN "drift" ELSE "ok")
    /\ UNCHANGED <<installKind, running, fileVars, cmd, commands>>

Killed ==
    /\ updateStage # "idle"
    /\ Ends("killed")
    /\ UNCHANGED <<installKind, running, fileVars, cmd, commands>>

UpdateNext ==
    \/ \E c \in UpdateCommands \cup SkillCommands : Start(c)
    \/ RunPipUpgrade
    \/ SkipPlace \/ WriteSkill \/ RemoveSkill \/ WriteMarker \/ WriteFails
    \/ Finish \/ Killed

UpdateSpec == UpdateInit /\ [][UpdateNext]_updateVars

-----------------------------------------------------------------------------
UpdateTypeOK ==
    /\ installKind \in InstallKinds
    /\ wheel \in 1..MaxVersion /\ running \in 1..MaxVersion
    /\ skill \in [Places -> Contents] /\ marker \in [Places -> Contents]
    /\ cmd = [verb |-> "none"] \/ cmd \in UpdateCommands \cup SkillCommands
    /\ updateStage \in {"idle", "pip", "skills", "marker"}
    /\ todo \subseteq DOMAIN SkillTargets
    /\ cmdResult \in {"none", "ok", "error", "refused", "drift", "killed"}
    /\ commands \in 0..MaxCommands

\* A command that was to change the skills and exits 0 has changed them at every
\* place it names, whatever failed or was killed in the commands before it; and
\* after an upgrade the marker of each place names the version of its file
\* (skill_install.py, skill_upgrade.py, skill_uninstall.py, self_update.py).
ExitZeroMeansDone ==
    (updateStage = "idle" /\ cmdResult = "ok" /\ ~cmd.dryRun
       /\ (cmd.verb = "update" => ~cmd.noSkills)) =>
    \A p \in NamedPlaces(cmd) :
        /\ skill[p] = IF cmd.verb = "uninstall" THEN Absent ELSE wheel
        /\ cmd.verb \in {"update", "upgrade"} => marker[p] = wheel

\* `popola update` exits 3 only when some skill file is missing or is not of the
\* version just installed (CHANGELOG.md: "3 post-upgrade doctor still reports
\* DRIFT/MISS"; update_cmd.py: "even after the upgrade").
ExitThreeMeansStale ==
    cmdResult = "drift" => \E p \in Places : skill[p] # wheel

=============================================================================
