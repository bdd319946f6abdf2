-------------------------------- MODULE Relay --------------------------------
(***************************************************************************)
(* popola relay: a command that sends a follow-up run to the agent of a      *)
(* finished task, after a policy gate and with an audit log as its only      *)
(* memory (cli/relay_cmd.py, relay/audit.py, relay/secrets.py).  Relays are  *)
(* processes that issue the same command: a retry, or two at once.           *)
(***************************************************************************)
EXTENDS Integers, Sequences, FiniteSets

CONSTANTS
    Relays,             \* the processes
    RelayFaults         \* \subseteq {"disk", "kill"}

ASSUME RelayFaultsAssumption == RelayFaults \subseteq {"disk", "kill"}

VARIABLES
    relayConfig,        \* [cloud.relay]
    command,            \* the options and the text, the same for all relays
    relayPc,
    relayExit,          \* the exit code
    retryOf,            \* the relays that were over when this one started
    audit,              \* <audit_root>/<task>.jsonl
    torn,               \* its last line is not complete
    aged,               \* how many rows the idempotency window has left behind
    diskFailed,         \* an append has failed
    asked               \* the requests that reached Cursor, with its decision

relayVars ==
    <<relayConfig, command, relayPc, relayExit, retryOf, audit, torn, aged,
      diskFailed, asked>>

NoCode == 999

Exits == {0, 1, 2, 75, 77, 78, 100, 102, NoCode}

\* detectSecrets: whether the optional package is installed.  The loader refuses a
\* configuration without the secret scan, or without rows for dry runs.
Configs == [detectSecrets : BOOLEAN, allowlist : {{}, {"other"}}]

\* The envelope is plain, longer than the cap, or holds, in one of its strings, a
\* token of a known shape, or one that only detect-secrets takes for a secret, of
\* some length or too short to be one.
Texts == {"plain", "large", "shape", "detector", "detector_short"}

Commands ==
    [dry : BOOLEAN, override : BOOLEAN,
     target : {"source", "other"}, text : Texts]

InAllowlist == command.target \in relayConfig.allowlist

GateDecision ==
    IF InAllowlist THEN "in_allowlist"
    ELSE IF command.override THEN "override_confirm_allowlist"
    ELSE IF relayConfig.allowlist = {} THEN "rejected_allowlist_empty"
    ELSE "rejected_allowlist"

Row(r, outcome, gate) == [relay |-> r, outcome |-> outcome, gate |-> gate]

Unreadable == [relay |-> "none", outcome |-> "unreadable", gate |-> "none"]

-----------------------------------------------------------------------------
RelayTypeOK ==
    /\ relayConfig \in Configs /\ command \in Commands
    /\ relayPc \in [Relays -> {"idle", "checked", "gated", "scan", "announce", "key",
                               "post", "record", "ended", "killed"}]
    /\ relayExit \in [Relays -> Exits]
    /\ retryOf \in [Relays -> SUBSET Relays]
    /\ \A i \in DOMAIN audit : audit[i].relay \in Relays \cup {"none"}
    /\ torn \in BOOLEAN /\ aged \in 0..Len(audit) /\ diskFailed \in BOOLEAN
    /\ asked \subseteq [relay : Relays, accepted : BOOLEAN]

RelayInit ==
    /\ relayConfig \in Configs /\ command \in Commands
    /\ relayPc = [r \in Relays |-> "idle"] /\ relayExit = [r \in Relays |-> NoCode]
    /\ retryOf = [r \in Relays |-> {}]
    /\ audit = <<>> /\ torn = FALSE /\ aged = 0 /\ diskFailed = FALSE /\ asked = {}

\* RelayAuditWriter.append of a row by r, which goes on with Ok, or with Fails when
\* the disk refuses it; a line that follows an incomplete one cannot be parsed.
Written(row) ==
    /\ audit' = Append(audit, IF torn THEN Unreadable ELSE row)
    /\ torn' = FALSE /\ UNCHANGED diskFailed

AppendFails == "disk" \in RelayFaults /\ diskFailed' = TRUE /\ UNCHANGED <<audit, torn>>

AppendRow(row) == Written(row) \/ AppendFails

NoRow == UNCHANGED <<audit, torn, diskFailed>>

GoTo(r, pc) == relayPc' = [relayPc EXCEPT ![r] = pc] /\ UNCHANGED relayExit

Exit(r, code) ==
    /\ relayPc' = [relayPc EXCEPT ![r] = "ended"]
    /\ relayExit' = [relayExit EXCEPT ![r] = code]

UnchangedInputs == UNCHANGED <<relayConfig, command, aged>>

-----------------------------------------------------------------------------
(* relay_command *)

\* Bad arguments, a bad configuration, no daemon, a source task that is unknown, not
\* terminal, without agent or without repository, and, in mode "confirm", no terminal
\* and no --no-confirm, all end it.
Check(r) ==
    /\ relayPc[r] = "idle"
    /\ retryOf' = [retryOf EXCEPT ![r] = {q \in Relays : relayPc[q] \in {"ended", "killed"}}]
    /\ Exit(r, 2) \/ GoTo(r, "checked")
    /\ NoRow /\ UnchangedInputs /\ UNCHANGED asked

\* What a row says of the gate when the command ends before it.
Presumed(decision) == IF command.dry THEN "skipped_for_dry_run" ELSE decision

TooLarge(r) ==
    /\ relayPc[r] = "checked" /\ command.text = "large"
    /\ AppendRow(Row(r, "rejected_payload_too_large", Presumed("in_allowlist")))
    /\ Exit(r, 1) /\ UnchangedInputs /\ UNCHANGED <<retryOf, asked>>

\* The six patterns of the fallback, over every string of the envelope.
FallbackFinds == command.text = "shape"

\* detect-secrets adds to them, if it is installed, what is long enough for its shape.
ScanFinds == FallbackFinds \/ (relayConfig.detectSecrets /\ command.text = "detector")

SecretFound(r) ==
    /\ relayPc[r] = "checked" /\ ScanFinds
    /\ AppendRow(Row(r, "rejected_secret_detected", Presumed("rejected_allowlist_empty")))
    /\ Exit(r, 1) /\ UnchangedInputs /\ UNCHANGED <<retryOf, asked>>

NotAllowed(r) ==
    /\ relayPc[r] = "checked" /\ command.text # "large" /\ ~ScanFinds
    /\ ~InAllowlist /\ ~command.override
    /\ AppendRow(Row(r, GateDecision, GateDecision))
    /\ Exit(r, 1) /\ UnchangedInputs /\ UNCHANGED <<retryOf, asked>>

\* Variant: the override opens the gate for a secret too.
PassGate_OverridesAll(r) ==
    /\ relayPc[r] = "checked"
    /\ (command.text # "large" /\ ~ScanFinds /\ InAllowlist) \/ command.override
    /\ GoTo(r, "gated") /\ NoRow /\ UnchangedInputs /\ UNCHANGED <<retryOf, asked>>

PassGate(r) ==
    /\ relayPc[r] = "checked" /\ command.text # "large" /\ ~ScanFinds
    /\ InAllowlist \/ command.override
    /\ GoTo(r, "gated") /\ NoRow /\ UnchangedInputs /\ UNCHANGED <<retryOf, asked>>

DryRun(r) ==
    /\ relayPc[r] = "gated" /\ command.dry
    /\ AppendRow(Row(r, "dry_run_passed", "skipped_for_dry_run"))
    /\ Exit(r, 0) /\ UnchangedInputs /\ UNCHANGED <<retryOf, asked>>

\* _scan_idempotent_row: a readable "dispatched" row in the window; bad lines and a
\* file that cannot be read are passed over.
Prior ==
    {i \in (aged + 1)..Len(audit) : audit[i].outcome = "dispatched"}

FindsPrior(r) ==
    /\ relayPc[r] = "gated" /\ ~command.dry /\ Prior # {}
    /\ AppendRow(Row(r, "dispatched_idempotent", GateDecision))
    /\ Exit(r, 0) /\ UnchangedInputs /\ UNCHANGED <<retryOf, asked>>

FindsNone(r) ==
    /\ relayPc[r] = "gated" /\ ~command.dry
    /\ Prior = {} \/ "disk" \in RelayFaults
    /\ GoTo(r, "announce")
    /\ diskFailed' = (diskFailed \/ Prior # {})
    /\ UNCHANGED <<audit, torn, retryOf, asked>> /\ UnchangedInputs

\* Variant: the row before the request is best effort too.
Announce_BestEffort(r) ==
    /\ relayPc[r] = "announce"
    /\ AppendRow(Row(r, "dispatch_inflight", GateDecision)) /\ GoTo(r, "key")
    /\ UnchangedInputs /\ UNCHANGED <<retryOf, asked>>

\* The row before the request must be on disk.
Announce(r) ==
    /\ relayPc[r] = "announce"
    /\ \/ Written(Row(r, "dispatch_inflight", GateDecision)) /\ GoTo(r, "key")
       \/ AppendFails /\ Exit(r, 75)
    /\ UnchangedInputs /\ UNCHANGED <<retryOf, asked>>

ReadKey(r) ==
    /\ relayPc[r] = "key"
    /\ \/ GoTo(r, "post") /\ NoRow
       \/ AppendRow(Row(r, "cloud_auth_error", GateDecision)) /\ Exit(r, 77)
    /\ UnchangedInputs /\ UNCHANGED <<retryOf, asked>>

\* _map_cloud_exception
CloudExits ==
    [cloud_auth_error |-> 77, cloud_run_not_found |-> 100,
     cloud_feature_unavailable |-> 78, cloud_conflict |-> 102, cloud_api_error |-> 75]

\* POST /v1/agents/{id}/runs: an answer, an error, or an accepted request whose
\* answer is lost, which is an error to the relay.
PostRelay(r) ==
    /\ relayPc[r] = "post"
    /\ \/ /\ asked' = asked \cup {[relay |-> r, accepted |-> TRUE]}
          /\ GoTo(r, "record") /\ NoRow
       \/ \E outcome \in DOMAIN CloudExits, accepted \in BOOLEAN :
             /\ accepted => outcome = "cloud_api_error"
             /\ asked' = asked \cup {[relay |-> r, accepted |-> accepted]}
             /\ AppendRow(Row(r, outcome, GateDecision))
             /\ Exit(r, CloudExits[outcome])
    /\ UnchangedInputs /\ UNCHANGED retryOf

\* Variant: the last row says again that the request is on its way.
Record_Inflight(r) ==
    /\ relayPc[r] = "record"
    /\ AppendRow(Row(r, "dispatch_inflight", GateDecision)) /\ Exit(r, 0)
    /\ UnchangedInputs /\ UNCHANGED <<retryOf, asked>>

Record(r) ==
    /\ relayPc[r] = "record"
    /\ AppendRow(Row(r, "dispatched", GateDecision)) /\ Exit(r, 0)
    /\ UnchangedInputs /\ UNCHANGED <<retryOf, asked>>

\* The process dies between two steps, or in the middle of a row.
Kill(r) ==
    /\ "kill" \in RelayFaults /\ relayPc[r] \notin {"idle", "ended", "killed"}
    /\ relayPc' = [relayPc EXCEPT ![r] = "killed"]
    /\ torn' \in {torn, TRUE}
    /\ UNCHANGED <<relayExit, retryOf, audit, diskFailed, asked>> /\ UnchangedInputs

\* idempotency_window_s has passed since every row of the log.  It matters only to a
\* relay that starts later.
WindowPasses ==
    /\ \E r \in Relays : relayPc[r] = "idle"
    /\ aged # Len(audit) /\ aged' = Len(audit)
    /\ UNCHANGED <<relayConfig, command, relayPc, relayExit, retryOf, audit, torn,
                   diskFailed, asked>>

RelaysOver ==
    (\A r \in Relays : relayPc[r] \in {"ended", "killed"}) /\ UNCHANGED relayVars

RelayStep(r) ==
    \/ Check(r) \/ TooLarge(r) \/ SecretFound(r) \/ NotAllowed(r) \/ PassGate(r)
    \/ DryRun(r) \/ FindsPrior(r) \/ FindsNone(r) \/ Announce(r) \/ ReadKey(r)
    \/ PostRelay(r) \/ Record(r) \/ Kill(r)

RelayNext == (\E r \in Relays : RelayStep(r)) \/ WindowPasses \/ RelaysOver

RelaySpec == RelayInit /\ [][RelayNext]_relayVars

-----------------------------------------------------------------------------
(* Properties *)

\* Whatever fails or dies, a request that reached Cursor has its row in the audit log,
\* which says what the gate decided, unless the row shares a line with one that a
\* killed relay left incomplete; and it passed the gate: no dry run, no text with a
\* secret of a known shape, no repository outside the list without the override.
RequestIsAccountedFor ==
    \A a \in asked :
        /\ \E i \in DOMAIN audit :
              \/ audit[i] = Row(a.relay, "dispatch_inflight", GateDecision)
              \/ audit[i] = Unreadable
        /\ ~command.dry
        /\ command.text # "shape"
        /\ GateDecision \in {"in_allowlist", "override_confirm_allowlist"}

\* While the disk works and the window lasts, a relay that starts after another one
\* has reported success sends nothing.
SuccessIsNotRepeated ==
    \A r \in Relays :
        ((\E q \in retryOf[r] : relayExit[q] = 0) /\ ~diskFailed /\ aged = 0
           /\ \A i \in DOMAIN audit : audit[i] # Unreadable)
        => ~\E a \in asked : a.relay = r

\* relay_cmd.py:475-477: the key "suppresses double-dispatch on operator retry".
RetryIsSuppressed ==
    [][\A r \in Relays :
          (PostRelay(r) /\ aged = 0) => ~\E a \in asked : a.accepted /\ a.relay \in retryOf[r]]_relayVars
=============================================================================
