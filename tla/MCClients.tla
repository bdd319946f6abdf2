----------------------------- MODULE MCClients -----------------------------
(* What runs in the processes of the command line, for TLC: the dispatch of  *)
(* a cloud task, a request to the Cursor API, the credentials, the start and *)
(* stop of popolad, the preferences, a relay, a private worker and the       *)
(* update.  They share no state, so one run explores them one at a time:     *)
(* part is the one that moves, and the others stay in an initial state.  The *)
(* states add up, where an interleaving would multiply them.  Starts and     *)
(* stops of workers move once with worker status (part "worker") and once    *)
(* with worker dispatch ("sender"): neither of the two changes anything that *)
(* another command reads.                                                    *)
EXTENDS CloudDispatch, CloudRequest, Credentials, DaemonProcess, Prefs, Relay, Worker,
        SelfUpdate

VARIABLE part

clientVars == <<part, dispatchVars, requestVars, credentialVars, daemonVars, prefsVars,
                relayVars, workerVars, updateVars>>

\* What has several initial states is fixed while another part moves.
ClientsInit ==
    /\ part \in {"dispatch", "request", "credentials", "daemon", "prefs", "relay",
                 "worker", "sender", "update"}
    /\ part # "dispatch" => opt = CHOOSE o \in CommandLines : TRUE
    /\ part # "credentials" =>
           /\ environment = CHOOSE e \in Surroundings : TRUE
           /\ keyring = "none" /\ fallback = CHOOSE f \in Fallbacks : ~f.export
           /\ task = [p \in Keepers |-> CHOOSE t \in Tasks : TRUE]
    /\ part # "daemon" => order = [c \in Commanders |-> CHOOSE o \in Orders : TRUE]
    /\ part # "prefs" =>
           /\ toml = CHOOSE c \in TomlContents :
                         WellFormed(c) /\ c.asked # "new" /\ c.unasked # "new"
           /\ edit = [p \in Editors |-> CHOOSE e \in Edits : TRUE]
    /\ part # "relay" => /\ relayConfig = CHOOSE c \in Configs : TRUE
                         /\ command = CHOOSE c \in Commands : TRUE
    /\ part \notin {"worker", "sender"} => detached = [s \in Starters |-> FALSE]
    /\ part # "update" => installKind = "regular" /\ skill = [p \in Places |-> Absent]
    /\ DispatchInit /\ RequestInit /\ CredentialsInit /\ DaemonInit /\ PrefsInit
    /\ RelayInit /\ WorkerInit /\ UpdateInit

\* Only p moves.
Moves(p) ==
    /\ part = p /\ UNCHANGED part
    /\ p # "dispatch" => UNCHANGED dispatchVars
    /\ p # "request" => UNCHANGED requestVars
    /\ p # "credentials" => UNCHANGED credentialVars
    /\ p # "daemon" => UNCHANGED daemonVars
    /\ p # "prefs" => UNCHANGED prefsVars
    /\ p # "relay" => UNCHANGED relayVars
    /\ p \notin {"worker", "sender"} => UNCHANGED workerVars
    /\ p # "update" => UNCHANGED updateVars

ClientsNext ==
    \/ Moves("dispatch") /\ DispatchNext
    \/ Moves("request") /\ RequestNext
    \/ Moves("credentials") /\ CredentialsNext
    \/ Moves("daemon") /\ DaemonNext
    \/ Moves("prefs") /\ PrefsNext
    \/ Moves("relay") /\ RelayNext
    \/ Moves("worker") /\ WorkerNext /\ UNCHANGED sendVars
    \/ Moves("sender") /\ WorkerNext /\ UNCHANGED statusVars
    \/ Moves("update") /\ UpdateNext

ClientsSpec == ClientsInit /\ [][ClientsNext]_clientVars

\* The files that only the chain of the daemon reads are there where no keyring is.
Hosts == {e \in Environments : e.keyringUp => e.envFile = "none" /\ e.workspace = "none"}

\* The types of the parts, each stated in its module.
ClientsTypeOK ==
    /\ DispatchTypeOK /\ RequestTypeOK /\ CredentialsTypeOK /\ DaemonTypeOK /\ PrefsTypeOK
    /\ RelayTypeOK /\ WorkerTypeOK /\ UpdateTypeOK
=============================================================================
