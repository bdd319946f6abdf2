-------------------------------- MODULE Prefs --------------------------------
(***************************************************************************)
(* popolad.toml, the configuration that the commands of popola and the       *)
(* daemon read and write without a lock (cli/init_cmd.py, daemon/main.py):   *)
(* popola prefs --set, reset and show, the preferences wizard, and the       *)
(* migration that a mere load performs.                                      *)
(***************************************************************************)
EXTENDS Integers

CONSTANTS
    Editors,            \* the processes, each of which runs one command
    PrefsFaults         \* \subseteq {"disk", "kill"}

ASSUME PrefsFaultsAssumption == PrefsFaults \subseteq {"disk", "kill"}

VARIABLES
    toml,               \* the file
    edit,               \* the command of each process
    editPc,
    seen,               \* what it read first
    reread,             \* what it read again before it wrote
    started,            \* what the file held when it started
    disturbed           \* another process wrote since, something failed, or it gave up

prefsVars == <<toml, edit, editPc, seen, reread, started, disturbed>>

\* A preference that the wizard asks for and that the flat form of version 1 has,
\* one that neither does, and the other sections of the file.
TomlContents ==
    [form : {"none", "flat", "nested"}, asked : {"default", "old", "new"},
     unasked : {"default", "old", "new"}, others : BOOLEAN]

\* What an absent file, and one that is truncated, are read as.
NothingRead == [form |-> "none", asked |-> "default", unasked |-> "default", others |-> FALSE]

WellFormed(c) ==
    /\ c.form = "none" => c.asked = "default" /\ c.unasked = "default"
    /\ c.form = "flat" => c.unasked = "default"

Edits == {"set_asked", "set_unasked", "wizard", "reset", "load"}

-----------------------------------------------------------------------------
PrefsTypeOK ==
    /\ toml \in TomlContents /\ WellFormed(toml)
    /\ edit \in [Editors -> Edits]
    /\ editPc \in [Editors -> {"idle", "migrate", "migrating", "loaded", "edit", "writing",
                               "ended", "killed"}]
    /\ seen \in [Editors -> TomlContents] /\ reread \in [Editors -> TomlContents]
    /\ started \in [Editors -> TomlContents] /\ disturbed \in [Editors -> BOOLEAN]

PrefsInit ==
    /\ toml \in {c \in TomlContents : WellFormed(c) /\ c.asked # "new" /\ c.unasked # "new"}
    /\ edit \in [Editors -> Edits]
    /\ editPc = [p \in Editors |-> "idle"]
    /\ seen = [p \in Editors |-> NothingRead] /\ reread = [p \in Editors |-> NothingRead]
    /\ started = [p \in Editors |-> NothingRead] /\ disturbed = [p \in Editors |-> FALSE]

EditGoesTo(p, pc) == editPc' = [editPc EXCEPT ![p] = pc]

\* The file gets content c, by p.
WriteToml(p, c) ==
    /\ toml' = c
    /\ disturbed' = [q \in Editors |-> disturbed[q] \/ (q # p /\ editPc[q] # "idle")]

KeepToml == UNCHANGED <<toml, disturbed>>

Migrated(c) == IF c.form = "flat" THEN [c EXCEPT !.form = "nested"] ELSE c

\* reset does not parse the preferences, so that it has nothing to migrate.
Load(p) ==
    /\ editPc[p] = "idle"
    /\ started' = [started EXCEPT ![p] = toml]
    /\ seen' = [seen EXCEPT ![p] = toml]
    /\ EditGoesTo(p, IF toml.form = "flat" /\ edit[p] # "reset" THEN "migrate" ELSE "loaded")
    /\ KeepToml /\ UNCHANGED <<edit, reread>>

\* _persist_user_preferences_migration: write_text truncates, then writes.
MigrateTruncates(p) ==
    /\ editPc[p] = "migrate"
    /\ WriteToml(p, NothingRead) /\ EditGoesTo(p, "migrating")
    /\ UNCHANGED <<edit, seen, reread, started>>

\* Variant: the sections that are not preferences are left out.
MigrateWrites_PrefsOnly(p) ==
    /\ editPc[p] = "migrating"
    /\ WriteToml(p, [Migrated(seen[p]) EXCEPT !.others = FALSE]) /\ EditGoesTo(p, "loaded")
    /\ UNCHANGED <<edit, seen, reread, started>>

MigrateWrites(p) ==
    /\ editPc[p] = "migrating"
    /\ WriteToml(p, Migrated(seen[p])) /\ EditGoesTo(p, "loaded")
    /\ UNCHANGED <<edit, seen, reread, started>>

\* An error of the disk in the migration is a warning.
MigrateFails(p) ==
    /\ "disk" \in PrefsFaults /\ editPc[p] \in {"migrate", "migrating"}
    /\ EditGoesTo(p, "loaded")
    /\ disturbed' = [disturbed EXCEPT ![p] = TRUE]
    /\ UNCHANGED <<toml, edit, seen, reread, started>>

\* show, a dispatch and the daemon only load; the user may leave the wizard; a reset
\* finds nothing to delete; a value or the file is not valid.
LoadEnds(p) ==
    /\ editPc[p] = "loaded"
    /\ edit[p] # "reset" \/ seen[p].form = "none"
    /\ disturbed' = [disturbed EXCEPT ![p] = @ \/ edit[p] \notin {"load", "reset"}]
    /\ EditGoesTo(p, "ended") /\ UNCHANGED <<toml, edit, seen, reread, started>>

\* write_user_preferences_for_cli reads the file again; a reset does not.
Reread(p) ==
    /\ editPc[p] = "loaded" /\ edit[p] # "load"
    /\ edit[p] = "reset" => seen[p].form # "none"
    /\ reread' = [reread EXCEPT ![p] = IF edit[p] = "reset" THEN seen[p] ELSE toml]
    /\ EditGoesTo(p, "edit") /\ KeepToml /\ UNCHANGED <<edit, seen, started>>

EditTruncates(p) ==
    /\ editPc[p] = "edit"
    /\ WriteToml(p, NothingRead) /\ EditGoesTo(p, "writing")
    /\ UNCHANGED <<edit, seen, reread, started>>

\* apply_user_preference_sets: one key changes, the result is in the nested form.
WithSet(e, c) ==
    IF e = "set_asked" THEN [c EXCEPT !.form = "nested", !.asked = "new"]
    ELSE [c EXCEPT !.form = "nested", !.unasked = "new"]

\* The wizard starts from the defaults in all that it does not ask for.
FromWizard(c) == [c EXCEPT !.form = "nested", !.asked = "new", !.unasked = "default"]

WithoutPreferences(c) == [NothingRead EXCEPT !.others = c.others]

\* What command e makes of c.
Edited(e, c) ==
    CASE e = "load" -> Migrated(c)
      [] e = "reset" -> WithoutPreferences(c)
      [] e = "wizard" -> FromWizard(c)
      [] OTHER -> WithSet(e, c)

\* Variant: the sections that are not preferences come from nowhere.
EditWrites_FromScratch(p) ==
    /\ editPc[p] = "writing"
    /\ WriteToml(p, [Edited(edit[p], seen[p]) EXCEPT !.others = FALSE])
    /\ EditGoesTo(p, "ended") /\ UNCHANGED <<edit, seen, reread, started>>

EditWrites(p) ==
    /\ editPc[p] = "writing"
    /\ WriteToml(p, [Edited(edit[p], seen[p]) EXCEPT !.others = reread[p].others])
    /\ EditGoesTo(p, "ended") /\ UNCHANGED <<edit, seen, reread, started>>

\* The disk fails, which is exit code 1, or the process is killed.
EditDies(p) ==
    /\ \/ "disk" \in PrefsFaults /\ editPc[p] \in {"edit", "writing"}
       \/ "kill" \in PrefsFaults /\ editPc[p] \notin {"idle", "ended", "killed"}
    /\ EditGoesTo(p, "killed")
    /\ disturbed' = [disturbed EXCEPT ![p] = TRUE]
    /\ UNCHANGED <<toml, edit, seen, reread, started>>

EditsOver == (\A p \in Editors : editPc[p] \in {"ended", "killed"}) /\ UNCHANGED prefsVars

PrefsNext ==
    \/ \E p \in Editors :
          \/ Load(p) \/ MigrateTruncates(p) \/ MigrateWrites(p) \/ MigrateFails(p)
          \/ LoadEnds(p) \/ Reread(p) \/ EditTruncates(p) \/ EditWrites(p) \/ EditDies(p)
    \/ EditsOver

PrefsSpec == PrefsInit /\ [][PrefsNext]_prefsVars

-----------------------------------------------------------------------------
(* Properties *)

\* A command during which no other process writes, and which nothing stops, has the
\* effect of one atomic step on what it found: it keeps the other sections, and a
\* load or a setting keeps every preference it does not name, whatever the form the
\* file was in.
UndisturbedEditIsAtomic ==
    [][\A p \in Editors :
          (editPc[p] # "ended" /\ editPc'[p] = "ended" /\ ~disturbed'[p])
            => toml' = Edited(edit[p], started[p])]_prefsVars

\* init_cmd.py:289: a command writes the preferences "while preserving other TOML
\* sections", when every command has run to its end.
OtherSectionsSurvive ==
    [][\A p \in Editors :
          (started[p].others /\ \A q \in Editors : editPc'[q] = "ended") => toml'.others]_prefsVars
=============================================================================
