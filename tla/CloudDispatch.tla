---------------------------- MODULE CloudDispatch ----------------------------
(***************************************************************************)
(* The way of one "popola dispatch" from the command line to an agent at    *)
(* Cursor: the options and the preferences (cli/main.py), the adapter that  *)
(* checks and rewrites the extra fields (adapters/cursor_cloud.py), the     *)
(* supervisor that picks the transport (daemon/supervisor.py) and the two   *)
(* requests, REST and Connect-RPC ("path B").                               *)
(*                                                                         *)
(* opt holds what the user gives; a field x... is one of the extra fields,  *)
(* given by --cli-flag or stored in a handoff envelope.  "" is "not given". *)
(***************************************************************************)
EXTENDS Integers, Sequences, FiniteSets

CONSTANTS Cursor, Claude    \* two local CLIs

Locals == {Cursor, Claude}

\* Their names are not that of the cloud, nor "not given".
ASSUME LocalsAssumption == Locals \cap {"", "cursor-cloud"} = {}

VARIABLES
    opt,            \* the command line
    stage,          \* which part of the pipeline is next
    prefs,          \* the [user_preferences] read
    cli, extra,     \* the request being put together
    wanted,         \* the local CLI that was to run
    ran,            \* the CLI the daemon ran
    warned,         \* the command has said that path B does not pin to a worker
    agents,         \* what Cursor runs for it: transport, the machine its request
                    \* names, and whether only that machine may run it
    handle,         \* the daemon's record of the task
    outcome

dispatchVars ==
    <<opt, stage, prefs, cli, extra, wanted, ran, warned, agents, handle, outcome>>

-----------------------------------------------------------------------------
(* What may be given *)

Values == [cli     |-> {"", "cursor-cloud"} \cup Locals,
           target  |-> {"", "self-hosted", "cursor-managed", "ask-each-time"},
           name    |-> {"", "W"},
           auth    |-> {"", "rest", "session-jwt"},
           knobs   |-> {"", "some", "unknown preset"},
           wizard  |-> {"", "yes", "no"}, fallback |-> {"", "yes"}, replay |-> {"", "yes"},
           xtarget |-> {"", "self-hosted", "cursor-managed"},
           xworker |-> {"", "W"}, xmachine |-> {"", "W", "M"}, xpool |-> {"", "P"},
           xprivate |-> {"", "true", "false"}, xauth |-> {"", "session-jwt"},
           xemit   |-> {"", "label", "unknown"}, xrepo |-> {"repo", "pr", ""},
           xother  |-> {"", "wrong type"}, xknob |-> {"", "wrong type"}]

Options == UNION {{f} \X Values[f] : f \in DOMAIN Values}

Plain == [f \in DOMAIN Values |-> IF f = "xrepo" THEN "repo" ELSE ""]

SelfHosted == [Plain EXCEPT !.target = "self-hosted", !.name = "W"]

\* The envelope of such a dispatch, replayed.
Replayed == [Plain EXCEPT !.replay = "yes", !.cli = "cursor-cloud", !.xtarget = "self-hosted",
                          !.xworker = "W", !.xauth = "session-jwt"]

\* Bound: at most two options differ from the plain command line, from the one that
\* names a self-hosted worker or from the one that replays it.
CommandLines ==
    {[base EXCEPT ![a[1]] = a[2], ![b[1]] = b[2]] :
        base \in {Plain, SelfHosted, Replayed}, a, b \in Options}

\* [user_preferences]; knobs stands for the default mode, effort, preset, ...
PreferredValues ==
    [target    |-> {"ask-each-time", "self-hosted", "cursor-managed"},
     auth      |-> {"rest", "session-jwt"},
     knobs     |-> {"", "some"},
     runtime   |-> {"local", "cloud", "ask-each-time"},
     ambiguity |-> {"default", "prompt", "fail"}]

PreferenceItems == UNION {{f} \X PreferredValues[f] : f \in DOMAIN PreferredValues}

DefaultPreferences == [file |-> "valid", target |-> "ask-each-time", auth |-> "rest",
                       knobs |-> "", runtime |-> "local", ambiguity |-> "default"]

\* Bound: at most two items differ from the defaults.
ValidPreferences ==
    {[DefaultPreferences EXCEPT ![a[1]] = a[2], ![b[1]] = b[2]] : a, b \in PreferenceItems}

Preferences ==
    ValidPreferences \cup {[DefaultPreferences EXCEPT !.file = f] : f \in {"missing", "broken"}}

-----------------------------------------------------------------------------
DispatchTypeOK ==
    /\ \A f \in DOMAIN Values : opt[f] \in Values[f]
    /\ stage \in {"start", "select", "auth", "post", "spawn", "rest", "path_b", "done"}
    /\ prefs \in Preferences
    /\ cli \in {"", "cursor-cloud"} \cup Locals
    /\ wanted \in {""} \cup Locals /\ ran \in {""} \cup Locals
    /\ warned \in BOOLEAN
    /\ agents \subseteq [via : {"rest", "path_b"}, machine : {"", "W", "M", "D", "U"},
                        exact : BOOLEAN]
    /\ Cardinality(agents) <= 1
    /\ handle \in {"none", "registered", "starting", "failed"}
    /\ outcome \in {"none", "refused", "local", "running", "failed"}

NoExtra == [target |-> "", worker |-> "", machine |-> "", pool |-> "", private |-> "",
            auth |-> "", emit |-> "", repo |-> "", other |-> "", knob |-> "",
            env |-> [type |-> "", name |-> ""]]

DispatchInit ==
    /\ opt \in CommandLines
    /\ stage = "start" /\ prefs = [DefaultPreferences EXCEPT !.file = "missing"] /\ cli = ""
    /\ extra = NoExtra
    /\ wanted = "" /\ ran = "" /\ warned = FALSE /\ agents = {} /\ handle = "none" /\ outcome = "none"

\* An error message and a non-zero exit status: nothing was dispatched.
Refused ==
    /\ stage' = "done" /\ outcome' = "refused"
    /\ UNCHANGED <<opt, prefs, cli, extra, wanted, ran, warned, agents, handle>>

Go(next, c, e) ==
    /\ stage' = next /\ cli' = c /\ extra' = e
    /\ UNCHANGED <<opt, ran, agents, handle, outcome>>

-----------------------------------------------------------------------------
(* The command line *)

ParsedFlags ==
    [target |-> opt.xtarget, worker |-> opt.xworker, machine |-> opt.xmachine,
     pool |-> opt.xpool, private |-> opt.xprivate, auth |-> opt.xauth,
     emit |-> opt.xemit, repo |-> opt.xrepo, other |-> opt.xother,
     knob |-> opt.xknob, env |-> [type |-> "", name |-> ""]]

\* The flags given together make sense.
TargetAllowed ==
    \/ opt.target = "self-hosted" /\ opt.name # ""
    \/ opt.target = "cursor-managed" /\ opt.name = ""
    \/ opt.target = "" /\ opt.name = ""

\* An envelope overrides the other options and skips what follows for them.
Replay ==
    /\ stage = "start" /\ opt.replay = "yes"
    /\ \/ Refused
       \/ /\ opt.cli # "" /\ Go("post", opt.cli, ParsedFlags)
          /\ UNCHANGED <<prefs, wanted, warned>>

Submit ==
    /\ stage = "start" /\ opt.replay = ""
    /\ IF ~TargetAllowed THEN Refused
       ELSE /\ Go("select", IF opt.target # "" /\ opt.cli = "" THEN "cursor-cloud"
                            ELSE opt.cli, ParsedFlags)
            /\ prefs' \in Preferences
            /\ UNCHANGED <<wanted, warned>>

\* The two environment variables, then the marker files of the workspace.
DetectedWorkers(e) == IF e.worker # "" THEN {e.worker} ELSE {"", "D"}

\* The origin of the workspace, if it has one.
DerivedRepos(e) == IF e.repo = "" THEN {"", "repo"} ELSE {e.repo}

ResolvedTarget ==
    IF opt.target # "" THEN opt.target
    ELSE IF prefs.file = "valid" THEN prefs.target ELSE "ask-each-time"

\* _apply_cloud_preferences.
CloudPreferences(e) ==
    IF ResolvedTarget = "ask-each-time"
    THEN Go("auth", "cursor-cloud", e)
    ELSE IF ResolvedTarget = "cursor-managed"
    THEN Go("auth", "cursor-cloud", [e EXCEPT !.target = "cursor-managed"])
    ELSE \E w \in IF opt.target # "" THEN {opt.name} ELSE DetectedWorkers(e),
            r \in DerivedRepos(e) :
            /\ w # ""
            /\ Go("auth", "cursor-cloud",
                  [e EXCEPT !.target = "self-hosted", !.worker = w, !.repo = r])

NoWorkerKnown(e) ==
    /\ ResolvedTarget = "self-hosted" /\ opt.target = ""
    /\ "" \in DetectedWorkers(e)

Wizard ==
    \/ \E c \in Locals : Go("auth", c, extra)
    \/ Go("auth", "cursor-cloud", [extra EXCEPT !.target = "cursor-managed"])
    \/ Go("auth", "cursor-cloud", [extra EXCEPT !.target = "self-hosted",
                                       !.worker = "U", !.auth = "session-jwt"])

\* Variant: the next CLI of the chain is taken without being asked for.
LocalCli_Silent(c) ==
    /\ wanted' = c
    /\ \E d \in Locals : Go("auth", d, extra)

\* _select_available_local_cli: c if it is installed, else with consent one of
\* fallback_chain.
LocalCli(c) ==
    /\ wanted' = c
    /\ \E d \in Locals :
        /\ d = c \/ (opt.fallback = "yes" /\ opt.target # "self-hosted")
        /\ Go("auth", d, extra)

\* _select_cli_from_preferences.
FromPreferences ==
    IF opt.wizard = "yes" \/ (opt.wizard = "" /\ prefs.ambiguity = "prompt")
    THEN Wizard /\ UNCHANGED wanted
    ELSE /\ opt.wizard = "no" \/ prefs.ambiguity # "fail"
         /\ \/ /\ prefs.runtime \in {"cloud", "ask-each-time"}
               /\ CloudPreferences(extra) /\ UNCHANGED wanted
            \/ prefs.runtime = "local" /\ LocalCli(Cursor)
            \/ prefs.runtime = "ask-each-time" /\ \E c \in Locals : LocalCli(c)

\* No preferences to choose from, no worker, no CLI, or a wizard left.
SelectFails ==
    /\ stage = "select" /\ cli \notin Locals
    /\ \/ prefs.file = "broken"
       \/ cli = "" /\ prefs.file = "missing"
       \/ cli = "" /\ prefs.file = "valid"
       \/ cli = "cursor-cloud" /\ NoWorkerKnown(extra)
    /\ Refused

SelectCli ==
    /\ stage = "select"
    /\ \/ cli \in Locals /\ Go("auth", cli, extra) /\ wanted' = cli
       \/ /\ cli = "cursor-cloud" /\ prefs.file # "broken"
          /\ CloudPreferences(extra) /\ UNCHANGED wanted
       \/ cli = "" /\ prefs.file = "valid" /\ FromPreferences
    /\ UNCHANGED <<prefs, warned>>

\* --auth-mode, or else the preferred mode.
RawAuth == IF opt.auth # "" THEN opt.auth
           ELSE IF prefs.file = "valid" THEN prefs.auth ELSE "rest"

\* A self-hosted worker is only reached with the session token.
AuthMode == IF extra.target = "self-hosted" /\ opt.auth # "rest" THEN "session-jwt"
            ELSE RawAuth

\* A path B knob, given or preferred.
Knobs == opt.knobs # "" \/ (prefs.file = "valid" /\ prefs.knobs # "")

ExplicitRestRefused ==
    /\ extra.target = "self-hosted" /\ opt.auth = "rest"

\* The refusals of _apply_path_b_flags; that no token can be loaded is one.
AuthFails ==
    /\ stage = "auth"
    /\ \/ ExplicitRestRefused
       \/ opt.knobs = "unknown preset"
       \/ cli = "cursor-cloud" /\ Knobs /\ AuthMode = "rest"
       \/ cli = "cursor-cloud" /\ AuthMode = "session-jwt"
    /\ Refused

OverPathB == cli = "cursor-cloud" /\ AuthMode = "session-jwt"

\* Variant: the warning looks at the options, not at what they and the preferences
\* have come to.
PoolWarning_Options == OverPathB /\ opt.target = "self-hosted" /\ extra.worker # ""

\* The warning that Cursor takes any worker of the pool, not only the named one.
PoolWarning == OverPathB /\ extra.target = "self-hosted" /\ extra.worker # ""

ApplyPathBFlags ==
    /\ stage = "auth"
    /\ ~ExplicitRestRefused /\ opt.knobs # "unknown preset"
    /\ (cli = "cursor-cloud" /\ Knobs) => AuthMode = "session-jwt"
    /\ Go("post", cli, IF OverPathB THEN [extra EXCEPT !.auth = "session-jwt"] ELSE extra)
    /\ warned' = PoolWarning
    /\ UNCHANGED <<prefs, wanted>>

-----------------------------------------------------------------------------
(* The adapter: _normalize_cloud_extra *)

WellTyped(e) == e.other = "" /\ e.repo # ""

MachineNames(e) == {e.worker, e.machine} \ {""}

\* A target and routing knobs that contradict each other are refused.
RoutingAgrees(e) ==
    /\ (MachineNames(e) # {} \/ e.pool # "") => e.private # "false"
    /\ e.target = "cursor-managed" => MachineNames(e) = {} /\ e.pool = ""
    /\ Cardinality(MachineNames(e)) <= 1
    /\ e.target = "self-hosted" => MachineNames(e) # {}
    /\ ~(MachineNames(e) # {} /\ e.pool # "")
    /\ e.private = "true" => MachineNames(e) # {} \/ e.pool # ""

Env(e) ==
    IF MachineNames(e) # {}
    THEN [type |-> "machine", name |-> CHOOSE n \in MachineNames(e) : TRUE]
    ELSE [type |-> IF e.pool # "" THEN "pool" ELSE "", name |-> e.pool]

\* Variant: what path B reads is not copied.
Normalized_Strips(e) ==
    [NoExtra EXCEPT !.target = e.target, !.env = Env(e), !.repo = e.repo,
                    !.auth = e.auth]

\* What is left of the extra fields.
Normalized(e) ==
    LET base == [NoExtra EXCEPT !.target = e.target, !.env = Env(e), !.repo = e.repo]
    IN  IF e.auth = "session-jwt"
        THEN [base EXCEPT !.auth = e.auth, !.emit = e.emit, !.knob = e.knob,
                          !.worker = e.worker]
        ELSE base

\* POST /dispatch: build_command, then the supervisor's spawn.
Post ==
    /\ stage = "post"
    /\ IF cli \in Locals
       THEN /\ stage' = "done" /\ outcome' = "local" /\ ran' = cli
            /\ handle' = "registered"
            /\ UNCHANGED <<opt, prefs, cli, extra, wanted, warned, agents>>
       ELSE IF WellTyped(extra) /\ RoutingAgrees(extra)
       THEN /\ stage' = "spawn" /\ extra' = Normalized(extra)
            /\ handle' = "registered"
            /\ UNCHANGED <<opt, prefs, cli, wanted, ran, warned, agents, outcome>>
       ELSE Refused

\* The daemon cannot be reached.
PostFails == stage = "post" /\ Refused

-----------------------------------------------------------------------------
(* The supervisor *)

\* task.failed; lost: Cursor started the agent and its answer did not arrive.
Fail(lost) ==
    /\ stage' = "done" /\ outcome' = "failed" /\ handle' = "failed"
    /\ agents' = agents \cup lost
    /\ UNCHANGED <<opt, prefs, cli, extra, wanted, ran, warned>>

Seed(a) ==
    /\ stage' = "done" /\ outcome' = "running" /\ handle' = "starting"
    /\ agents' = agents \cup {a}
    /\ UNCHANGED <<opt, prefs, cli, extra, wanted, ran, warned>>

SpawnCloud ==
    /\ stage = "spawn"
    /\ IF extra.target = "self-hosted" /\ extra.auth # "session-jwt"
       THEN Fail({})
       ELSE Go(IF extra.auth = "session-jwt" THEN "path_b" ELSE "rest", cli, extra)
            /\ UNCHANGED <<prefs, wanted, warned>>

\* Over REST Cursor pins the agent to the named machine.
RestAgent == [via |-> "rest", exact |-> extra.env.type = "machine",
              machine |-> IF extra.env.type = "machine" THEN extra.env.name ELSE ""]

\* No key, the preflight says no, Cursor refuses, or the answer is lost or has no
\* ids in it.
RestFails == stage = "rest" /\ \E lost \in {{}, {RestAgent}} : Fail(lost)

CreateAgent == stage = "rest" /\ Seed(RestAgent)

\* The parameters the supervisor and build_start_composer_request accept.
PathBAccepts == extra.repo = "repo" /\ extra.knob = "" /\ extra.emit # "unknown"

\* The body has an env only in the mode "machine", which is the default; and Cursor
\* takes an env that names a machine for one that names its pool.
PathBAgent == [via |-> "path_b", exact |-> FALSE,
               machine |-> IF extra.emit = "" THEN extra.worker ELSE ""]

\* As RestFails, or no token, or a body that cannot be built.
PathBFails ==
    /\ stage = "path_b"
    /\ \/ Fail({})
       \/ PathBAccepts /\ Fail({PathBAgent})

StartComposer == stage = "path_b" /\ PathBAccepts /\ Seed(PathBAgent)

Dispatched == stage = "done" /\ UNCHANGED dispatchVars

DispatchNext ==
    \/ Replay \/ Submit \/ SelectCli \/ SelectFails \/ AuthFails \/ ApplyPathBFlags
    \/ Post \/ PostFails \/ SpawnCloud \/ RestFails \/ CreateAgent
    \/ PathBFails \/ StartComposer \/ Dispatched

DispatchSpec == DispatchInit /\ [][DispatchNext]_dispatchVars

-----------------------------------------------------------------------------
(* Properties *)

\* No step of the pipeline, whichever of them sees it first, turns a dispatch to a
\* self-hosted worker into a REST request, a local task or a request for another
\* machine (the user may drop the machine with env_emit_mode).  Cursor may run it on
\* another worker of the pool all the same: whether the options, the preferences or
\* the wizard named the worker, the command has then warned of it, unless an
\* envelope was replayed.  Another local CLI than the one wanted runs only with
\* --allow-fallback.
NoSilentFallback ==
    /\ (opt.replay = "" /\ opt.target = "self-hosted" /\ opt.cli \notin Locals) =>
         /\ ran = ""
         /\ \A a \in agents : a.via = "path_b"
                              /\ (opt.xemit = "" => a.machine = opt.name)
    /\ \A a \in agents : extra.target = "self-hosted" => a.via = "path_b"
    /\ \A a \in agents :
         (opt.replay = "" /\ extra.target = "self-hosted" /\ extra.worker # "" /\ ~a.exact)
            => warned = TRUE
    /\ (ran # "" /\ wanted # "" /\ ran # wanted) =>
         opt.fallback = "yes" /\ opt.target # "self-hosted"

\* What the comment at the warning says of that limitation of Cursor, that it is
\* surfaced (main.py:2589): a replay does not come by the warning.
DowngradeIsSurfaced ==
    \A a \in agents :
        (extra.target = "self-hosted" /\ extra.worker # "" /\ ~a.exact) => warned = TRUE

\* What the adapter's error message says of a self-hosted target, that worker_name
\* or machine_name names its worker (cursor_cloud.py:2712): the request then names
\* the worker, unless env_emit_mode drops it.
WorkerIsNamed ==
    \A a \in agents : (extra.target = "self-hosted" /\ extra.emit = "") => a.machine # ""
=============================================================================
