----------------------------- MODULE Credentials -----------------------------
(***************************************************************************)
(* The Cursor API key: the places it can be stored in, the commands that     *)
(* store and remove it (credentials.py, cli/auth_cmd.py, the intake of       *)
(* popola init), and the chains by which a command, the daemon and           *)
(* popola auth cursor status each look for it (credentials.py,               *)
(* cli/popolad.py).                                                          *)
(***************************************************************************)
EXTENDS FiniteSets

CONSTANTS
    Keepers,            \* the processes, each of which runs one command
    Keys,               \* the API keys
    Surroundings        \* the Environments to look at

ASSUME KeysAssumption == Keys \cap {"none", "shell", "file", "workspace"} = {}

VARIABLES
    environment,        \* what does not change: shell, files, whether a keyring works
    keyring,            \* the entry of the OS keyring
    fallback,           \* cursor_api_key.env: its key, whether its mode is 0600, and
                        \* whether its line begins with "export"
    metadata,           \* credentials.toml: the key it describes, and its class
    tmp,                \* credentials.toml.tmp, which every writer uses
    task,               \* the command of each process
    taskPc,
    copy,               \* the metadata it has loaded
    overlap             \* another command ran at the same time

credentialVars ==
    <<environment, keyring, fallback, metadata, tmp, task, taskPc, copy, overlap>>

MaybeKeys == Keys \cup {"none"}

\* shell: CURSOR_API_KEY in the shell.  envFile: the key in the file of --env-file.
\* workspace: the one in .local/.secrets or .env below the working directory, in files
\* whose mode is 0600.
Environments ==
    [shell : {"none", "shell"}, envFile : {"none", "file"},
     workspace : {"none", "workspace"}, keyringUp : BOOLEAN]

ASSUME SurroundingsAssumption == Surroundings \subseteq Environments

NoFallback == [key |-> "none", secure |-> TRUE, export |-> FALSE]

Fallbacks == [key : Keys, secure : BOOLEAN, export : BOOLEAN] \cup {NoFallback}

NoFile == [written |-> FALSE, key |-> "none", class |-> "none"]

\* credentials.toml without any value
Emptied == [NoFile EXCEPT !.written = TRUE]

MetadataFiles == [written : BOOLEAN, key : MaybeKeys, class : {"none", "personal"}]

\* auth cursor set (with a class or without), auth cursor clear, and popola init with
\* a key.
Tasks == [verb : {"set", "init"}, key : Keys, class : {"none", "personal"}]
           \cup [verb : {"clear"}, key : {"none"}, class : {"none"}]

-----------------------------------------------------------------------------
(* The chains *)

FirstOf(s, t) == IF s # "none" THEN s ELSE t

\* CredentialResolver.resolve in a process with key env in its environment.
Resolve(env) == FirstOf(env, IF environment.keyringUp THEN keyring ELSE "none")

\* _load_kv_env_file: in a line that begins with "export" it takes that word for a part
\* of the name.
ReadByStart == IF fallback.secure /\ ~fallback.export THEN fallback.key ELSE "none"

\* _resolve_child_env: what popolad start puts into the environment of the daemon.
ChildEnv ==
    FirstOf(environment.shell,
        FirstOf(environment.envFile, FirstOf(ReadByStart, environment.workspace)))

\* Variant: the daemon relies on popola popolad start.
DaemonEnv_FromStart == ChildEnv

\* load_env_fallback_into_environ does not look at the mode of the file.
DaemonEnv == FirstOf(ChildEnv, fallback.key)

DaemonKey == Resolve(DaemonEnv)

\* credential_status
StatusKey ==
    FirstOf(Resolve(environment.shell), IF fallback.secure THEN fallback.key ELSE "none")

-----------------------------------------------------------------------------
CredentialsTypeOK ==
    /\ environment \in Environments /\ keyring \in MaybeKeys
    /\ fallback \in Fallbacks
    /\ metadata \in MetadataFiles /\ tmp \in MetadataFiles
    /\ task \in [Keepers -> Tasks]
    /\ taskPc \in [Keepers -> {"idle", "store", "load", "tmp", "replace", "load_class",
                               "tmp_class", "replace_class", "tmp_clear", "replace_clear",
                               "done", "warned", "failed"}]
    /\ copy \in [Keepers -> MetadataFiles] /\ overlap \in [Keepers -> BOOLEAN]

\* A file whose line begins with "export" comes from popola init.
CredentialsInit ==
    /\ environment \in Surroundings
    /\ keyring \in {"none"} \cup (IF environment.keyringUp THEN Keys ELSE {})
    /\ fallback \in {f \in Fallbacks : ~f.export}
    /\ metadata = IF keyring = "none" THEN NoFile
                  ELSE [written |-> TRUE, key |-> keyring, class |-> "personal"]
    /\ tmp = NoFile
    /\ task \in [Keepers -> Tasks] /\ taskPc = [p \in Keepers |-> "idle"]
    /\ copy = [p \in Keepers |-> NoFile] /\ overlap = [p \in Keepers |-> FALSE]

TaskGoesTo(p, pc) == taskPc' = [taskPc EXCEPT ![p] = pc]

Active(p) == taskPc[p] \notin {"idle", "done", "warned", "failed"}

NoStore == UNCHANGED <<environment, keyring, fallback>>

NoMetadata == UNCHANGED <<metadata, tmp, copy>>

\* The command of p begins, and goes on to store or to delete the key, or gives up.
Begins(p, verb, mayGoOn) ==
    /\ taskPc[p] = "idle" /\ task[p].verb = verb
    /\ TaskGoesTo(p, "failed") \/ (mayGoOn /\ TaskGoesTo(p, "store"))
    /\ overlap' = [q \in Keepers |-> overlap[q] \/ (q = p /\ \E o \in Keepers : Active(o))
                                      \/ Active(q)]
    /\ NoStore /\ NoMetadata /\ UNCHANGED task

\* Wrong arguments, no keyring, and a key that GET /v1/me rejects, end it.
BeginSet(p) == Begins(p, "set", environment.keyringUp)

BeginClear(p) == Begins(p, "clear", TRUE)

\* popola init takes the key from its options or from a file.
InitReads(p) == Begins(p, "init", TRUE)

\* popola init asks for the key, which the user may skip.
InitAsks(p) == Begins(p, "init", TRUE)

\* _keyring_set, or the error of the backend.
StoreInKeyring(p) ==
    /\ taskPc[p] = "store" /\ task[p].verb \in {"set", "init"} /\ environment.keyringUp
    /\ \/ keyring' = task[p].key /\ TaskGoesTo(p, "load")
       \/ UNCHANGED keyring /\ TaskGoesTo(p, "failed")
    /\ UNCHANGED <<environment, fallback, task, overlap>> /\ NoMetadata

\* _persist_cursor_api_key_noninteractive: without a keyring popola init writes the file.
ToFile(p) == task[p].verb = "init" /\ ~environment.keyringUp

\* write_env_fallback: the mode of a file that exists already stays what it is, which
\* is an error after the write.
StoreInFile(p) ==
    /\ taskPc[p] = "store" /\ ToFile(p)
    /\ \/ /\ fallback' = [key |-> task[p].key, secure |-> fallback.secure, export |-> TRUE]
          /\ TaskGoesTo(p, IF fallback'.secure THEN "done" ELSE "failed")
       \/ UNCHANGED fallback /\ TaskGoesTo(p, "failed")
    /\ UNCHANGED <<environment, keyring, task, overlap>> /\ NoMetadata

\* _keyring_delete, which without a keyring finds nothing to delete.
DeleteFromKeyring(p) ==
    /\ taskPc[p] = "store" /\ task[p].verb = "clear"
    /\ \/ keyring' = "none" /\ TaskGoesTo(p, IF metadata.written THEN "tmp_clear" ELSE "done")
       \/ environment.keyringUp /\ UNCHANGED keyring /\ TaskGoesTo(p, "failed")
    /\ UNCHANGED <<environment, fallback, task, overlap>> /\ NoMetadata

LoadMetadata(p) ==
    /\ taskPc[p] \in {"load", "load_class"}
    /\ copy' = [copy EXCEPT ![p] = metadata]
    /\ TaskGoesTo(p, IF taskPc[p] = "load" THEN "tmp" ELSE "tmp_class")
    /\ NoStore /\ UNCHANGED <<metadata, tmp, task, overlap>>

\* store_account_class keeps what it has loaded.
WithClass(p) == [copy[p] EXCEPT !.written = TRUE, !.class = task[p].class]

\* Variant: the class is saved without what was loaded.
NewMetadata_ClassOnly(p) ==
    CASE taskPc[p] = "tmp" -> [copy[p] EXCEPT !.written = TRUE, !.key = task[p].key]
      [] taskPc[p] = "tmp_class" -> [NoFile EXCEPT !.written = TRUE, !.class = task[p].class]
      [] taskPc[p] = "tmp_clear" -> Emptied

\* store_cursor_api_key, store_account_class and delete_cursor_api_key
NewMetadata(p) ==
    CASE taskPc[p] = "tmp" -> [copy[p] EXCEPT !.written = TRUE, !.key = task[p].key]
      [] taskPc[p] = "tmp_class" -> WithClass(p)
      [] taskPc[p] = "tmp_clear" -> Emptied

\* Variant: a set catches the error as well.
MetadataFails_Swallowed(p) ==
    TaskGoesTo(p, IF task[p].verb = "clear" THEN "warned" ELSE "done")

\* The disk fails: a set or init ends with a traceback, a clear logs a warning, says that
\* the key is removed and exits 0.
MetadataFails(p) == TaskGoesTo(p, IF task[p].verb = "clear" THEN "warned" ELSE "failed")

\* save_credential_metadata writes the temporary file, which a write that fails may leave
\* empty.
WriteTmp(p) ==
    /\ taskPc[p] \in {"tmp", "tmp_class", "tmp_clear"}
    /\ \/ /\ tmp' = NewMetadata(p)
          /\ TaskGoesTo(p, CASE taskPc[p] = "tmp" -> "replace"
                             [] taskPc[p] = "tmp_class" -> "replace_class"
                             [] taskPc[p] = "tmp_clear" -> "replace_clear")
       \/ tmp' \in {tmp, Emptied} /\ MetadataFails(p)
    /\ NoStore /\ UNCHANGED <<metadata, copy, task, overlap>>

Replaced(p) ==
    IF taskPc[p] = "replace" /\ task[p].verb = "set" THEN "load_class" ELSE "done"

\* The rename fails when another process has renamed the file, and may fail anyhow.
ReplaceMetadata(p) ==
    /\ taskPc[p] \in {"replace", "replace_class", "replace_clear"}
    /\ \/ tmp.written /\ metadata' = tmp /\ tmp' = NoFile /\ TaskGoesTo(p, Replaced(p))
       \/ MetadataFails(p) /\ UNCHANGED <<metadata, tmp>>
    /\ NoStore /\ UNCHANGED <<copy, task, overlap>>

CredentialsOver ==
    (\A p \in Keepers : taskPc[p] \in {"done", "warned", "failed"}) /\ UNCHANGED credentialVars

CredentialsNext ==
    \/ \E p \in Keepers :
          \/ BeginSet(p) \/ BeginClear(p) \/ InitReads(p) \/ InitAsks(p)
          \/ StoreInKeyring(p) \/ StoreInFile(p) \/ DeleteFromKeyring(p)
          \/ LoadMetadata(p) \/ WriteTmp(p) \/ ReplaceMetadata(p)
    \/ CredentialsOver

CredentialsSpec == CredentialsInit /\ [][CredentialsNext]_credentialVars

-----------------------------------------------------------------------------
(* Properties *)

\* A command that succeeds without a warning, and that no other command overlaps, leaves
\* metadata that describe the key in the keyring, with the class it was given; popola
\* init keeps the class it finds.
MetadataFollowsKeyring ==
    \A p \in Keepers :
        (Active(p) /\ taskPc'[p] = "done" /\ ~overlap[p] /\ environment.keyringUp
           /\ metadata'.written) =>
           /\ metadata'.key = keyring'
           /\ task[p].verb = "set" => metadata'.class = task[p].class
           /\ task[p].verb = "init" => metadata'.class = copy[p].class

\* credentials.py:988-990: the metadata are cleared on every successful delete.
ClearedOnEveryDelete ==
    [][\A p \in Keepers :
          (task[p].verb = "clear" /\ taskPc'[p] \in {"done", "warned"} /\ ~overlap[p])
              => metadata'.key = "none"]_credentialVars

\* With no key in files of the working directory, and one of the keyring and the
\* fallback file empty, the three chains give the same: status names the key that a
\* daemon started from that shell uses, and so do the commands.
ChainsAgree ==
    (environment.envFile = "none" /\ environment.workspace = "none"
       /\ (Resolve("none") = "none" \/ fallback.key = "none") /\ fallback.secure)
    => /\ StatusKey = DaemonKey
       /\ Resolve(environment.shell) \in {StatusKey, "none"}

\* The keys are where metadata and chains say.
KeysAreAsSaid == [][ChainsAgree /\ ChainsAgree' /\ MetadataFollowsKeyring]_credentialVars

\* popolad.py:236-243: the first of shell, --env-file, fallback file and workspace
\* that has a key wins, so that no key of the workspace hides the one that popola init
\* has stored.
FallbackOutranksWorkspace ==
    (environment.workspace # "none" /\ fallback.key # "none" /\ fallback.secure)
        => DaemonKey # environment.workspace
=============================================================================
