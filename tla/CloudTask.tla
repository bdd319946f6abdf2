----------------------------- MODULE CloudTask -----------------------------
(***************************************************************************)
(* The life of one cloud task: Supervisor._spawn_cloud creates the remote   *)
(* run and seeds the handle, CloudPollLoop polls the run until it ends, and *)
(* cancel_task waits for the seed and posts a cancel to the Cursor API      *)
(* (daemon/supervisor.py, daemon/cloud_poller.py, daemon/server.py).        *)
(*                                                                         *)
(* Cloud tasks share nothing, so the module has one.  An action is one      *)
(* access to the store, the log or the API.  The log is projected on the    *)
(* terminal events, cloud.queued and the brackets of the run; the repeats   *)
(* of cloud.run_index_reconciled and cloud.run_status are left out.         *)
(***************************************************************************)
EXTENDS Integers, Sequences

CONSTANTS
    Cancelers,      \* concurrent cancel requests
    Paths,          \* "rest": create_agent and a poller; "jwt": Path-B, no poller
    MaxPolls,       \* max_polls of CloudPollLoop
    RetryMax,       \* retry_max of CloudPollLoop
    Faults          \* which failures of FaultKinds may happen

FaultKinds == {"create", "get_run", "unknown_phase", "cancel_run", "no_key"}

ASSUME PathsAssumption == Paths \subseteq {"rest", "jwt"}
ASSUME LimitsAssumption == MaxPolls \in Nat \ {0} /\ RetryMax \in Nat \ {0}
ASSUME FaultsAssumption == Faults \subseteq FaultKinds

VARIABLES
    path,       \* how the task is spawned: one of Paths
    state,      \* TaskHandle.state
    runtime,    \* TaskHandle.runtime
    agentId,    \* TaskHandle.cursor_agent_id is set
    runId,      \* TaskHandle.cursor_run_id is set
    phase,      \* TaskHandle.cloud_phase
    log,        \* the event log of the task
    remote,     \* phase of the run at Cursor, "none" before it exists
    spc,        \* where _spawn_cloud is
    ppc,        \* where the poll loop is
    body,       \* the status that get_run returned
    polls,      \* successful_polls
    attempt,    \* attempts of the current poll
    result,     \* how the poll loop ended
    xpc,        \* where the exit callback is
    sawCanceled,\* what it read from the store
    cpc         \* where cancel request c is

handleVars == <<path, state, runtime, agentId, runId, phase>>
pollVars   == <<ppc, body, polls, attempt, result>>
exitVars   == <<xpc, sawCanceled>>
vars == <<handleVars, log, remote, spc, pollVars, exitVars, cpc>>

-----------------------------------------------------------------------------
(* Types *)

LivePhases     == {"CREATING", "RUNNING"}
TerminalPhases == {"FINISHED", "ERROR", "CANCELLED", "EXPIRED"}
Terminal       == {"completed", "failed", "canceled"}
Results        == TerminalPhases \cup {"poll_error", "poll_timeout", "spawn_failed"}
Events         == {"cloud.queued", "cloud.run_index_reconciled", "cloud.run_started",
                   "cloud.run_finished", "task.completed", "task.failed", "task.canceled"}

\* Program counters of a request inside cancel_task.
InCall == {"grace", "cloud", "accepted", "conflict", "erred", "accepted_marked",
           "conflict_marked"}

TypeOK ==
    /\ path \in Paths
    /\ state \in {"starting", "running"} \cup Terminal
    /\ runtime \in {"local", "cloud"} /\ agentId \in BOOLEAN /\ runId \in BOOLEAN
    /\ phase \in {"none", "UNKNOWN"} \cup LivePhases \cup TerminalPhases
    /\ log \in Seq(Events)
    /\ remote \in {"none"} \cup LivePhases \cup TerminalPhases
    /\ spc \in {"registered", "tagged", "created", "seeded", "queued", "returned", "failed"}
    /\ ppc \in {"none", "start", "started", "polling", "got", "timed_out", "ended",
                "bracketed", "done"}
    /\ body \in {"none", "UNKNOWN"} \cup LivePhases \cup TerminalPhases
    /\ polls \in 0..MaxPolls /\ attempt \in 0..RetryMax - 1
    /\ result \in {"none"} \cup Results
    /\ xpc \in {"none", "called", "read", "done"} /\ sawCanceled \in BOOLEAN
    /\ cpc \in [Cancelers -> InCall \cup {"idle", "canceled", "best_effort", "no_handle",
                                          "rejected"}]

-----------------------------------------------------------------------------
(* Helpers *)

\* _PHASE_MAP; an unknown status is taken for RUNNING.
Mapped(p) == CASE p = "CREATING"             -> "starting"
               [] p = "FINISHED"             -> "completed"
               [] p = "CANCELLED"            -> "canceled"
               [] p \in {"ERROR", "EXPIRED"} -> "failed"
               [] OTHER                      -> "running"

\* The terminal event of the poll loop for its result.
VerdictOf(r) == CASE r = "FINISHED"  -> "task.completed"
                  [] r = "CANCELLED" -> "task.canceled"
                  [] OTHER           -> "task.failed"

\* The handle is ready for _cancel_cloud_task.
Populated == runtime = "cloud" /\ agentId

-----------------------------------------------------------------------------
\* dispatch has registered the handle, as local and RUNNING.
Init ==
    /\ path \in Paths
    /\ state = "running" /\ runtime = "local" /\ agentId = FALSE /\ runId = FALSE
    /\ phase = "none" /\ log = <<>> /\ remote = "none"
    /\ spc = "registered"
    /\ ppc = "none" /\ body = "none" /\ polls = 0 /\ attempt = 0 /\ result = "none"
    /\ xpc = "none" /\ sawCanceled = FALSE
    /\ cpc = [c \in Cancelers |-> "idle"]

-----------------------------------------------------------------------------
(* _spawn_cloud and _spawn_cloud_path_b, on the thread of dispatch *)

\* Before anything else the handle is tagged.
SpawnTag ==
    /\ spc = "registered" /\ spc' = "tagged"
    /\ runtime' = "cloud"
    /\ UNCHANGED <<path, state, agentId, runId, phase, log, remote, pollVars,
                   exitVars, cpc>>

\* Bad marker, no key, or create_agent raises (the run may exist all the same,
\* when it was the reply that got lost): task.failed, then the exit callback.
SpawnFails ==
    /\ spc = "tagged" /\ "create" \in Faults /\ spc' = "failed"
    /\ remote' \in {"none", "CREATING"}
    /\ log' = Append(log, "task.failed")
    /\ result' = "spawn_failed" /\ xpc' = "called"
    /\ UNCHANGED <<handleVars, ppc, body, polls, attempt, sawCanceled, cpc>>

\* Variant: the poller is started as soon as the run exists.
SpawnCreate_StartsPoller ==
    /\ spc = "tagged" /\ spc' = "created"
    /\ remote' = "CREATING"
    /\ ppc' = "start"
    /\ UNCHANGED <<handleVars, log, body, polls, attempt, result, exitVars, cpc>>

\* POST /v1/agents, or the Connect RPC of Path-B, succeeds.
SpawnCreate ==
    /\ spc = "tagged" /\ spc' = "created"
    /\ remote' = "CREATING"
    /\ UNCHANGED <<handleVars, log, pollVars, exitVars, cpc>>

\* The seeded copy replaces the handle; Path-B may have got no run id.
SpawnSeed ==
    /\ spc = "created" /\ spc' = "seeded"
    /\ state' = "starting" /\ phase' = "CREATING" /\ agentId' = TRUE
    /\ runId' \in (IF path = "rest" THEN {TRUE} ELSE BOOLEAN)
    /\ UNCHANGED <<path, runtime, log, remote, pollVars, exitVars, cpc>>

SpawnQueue ==
    /\ spc = "seeded" /\ spc' = "queued"
    /\ log' = Append(log, "cloud.queued")
    /\ UNCHANGED <<handleVars, remote, pollVars, exitVars, cpc>>

\* Variant: the poll thread is started on either path.
SpawnReturn_AlwaysPolls ==
    /\ spc = "queued" /\ spc' = "returned"
    /\ ppc' = "start"
    /\ UNCHANGED <<handleVars, log, remote, body, polls, attempt, result, exitVars,
                   cpc>>

\* The poll thread is started, except on Path-B.
SpawnReturn ==
    /\ spc = "queued" /\ spc' = "returned"
    /\ ppc' = IF path = "rest" THEN "start" ELSE ppc
    /\ UNCHANGED <<handleVars, log, remote, body, polls, attempt, result, exitVars,
                   cpc>>

-----------------------------------------------------------------------------
(* The run at Cursor (external) *)

RemoteStep ==
    /\ \/ remote = "CREATING" /\ remote' = "RUNNING"
       \/ remote \in LivePhases /\ remote' \in {"FINISHED", "ERROR", "EXPIRED"}
    /\ UNCHANGED <<handleVars, log, spc, pollVars, exitVars, cpc>>

-----------------------------------------------------------------------------
(* CloudPollLoop.run *)

\* The run index is resolved before cloud.run_started is recorded; no one has
\* put the run into cloud_runs, so the fallback leaves an event of its own.
PollReconcile ==
    /\ ppc = "start" /\ ppc' = "started"
    /\ log' = Append(log, "cloud.run_index_reconciled")
    /\ UNCHANGED <<handleVars, remote, spc, body, polls, attempt, result, exitVars,
                   cpc>>

PollStart ==
    /\ ppc = "started" /\ ppc' = "polling"
    /\ log' = Append(log, "cloud.run_started")
    /\ UNCHANGED <<handleVars, remote, spc, body, polls, attempt, result, exitVars,
                   cpc>>

\* get_run returns the phase of the run, or something that is none of them.
PollGet ==
    /\ ppc = "polling" /\ ppc' = "got"
    /\ \/ body' = remote
       \/ "unknown_phase" \in Faults /\ body' = "UNKNOWN"
    /\ polls' = polls + 1 /\ attempt' = 0
    /\ UNCHANGED <<handleVars, log, remote, spc, result, exitVars, cpc>>

\* A retryable error, with attempts left.
PollRetry ==
    /\ ppc = "polling" /\ "get_run" \in Faults /\ attempt < RetryMax - 1
    /\ attempt' = attempt + 1
    /\ UNCHANGED <<handleVars, log, remote, spc, ppc, body, polls, result,
                   exitVars, cpc>>

\* An error that is not retryable, or the last attempt: FAILED.
PollRaises ==
    /\ ppc = "polling" /\ "get_run" \in Faults /\ ppc' = "ended"
    /\ state' = "failed" /\ result' = "poll_error"
    /\ UNCHANGED <<path, runtime, agentId, runId, phase, log, remote, spc, body,
                   polls, attempt, exitVars, cpc>>

\* A terminal phase ends the loop.
PollTerminal ==
    /\ ppc = "got" /\ body \in TerminalPhases /\ ppc' = "ended"
    /\ state' = Mapped(body) /\ phase' = body /\ result' = body
    /\ UNCHANGED <<path, runtime, agentId, runId, log, remote, spc, body, polls,
                   attempt, exitVars, cpc>>

\* Variant: a status the loop does not know is no poll.
PollLive_UnknownIsFree ==
    /\ ppc = "got" /\ body \notin TerminalPhases
    /\ polls' = IF body = "UNKNOWN" THEN polls - 1 ELSE polls
    /\ ppc' = IF polls' >= MaxPolls THEN "timed_out" ELSE "polling"
    /\ state' = Mapped(body) /\ phase' = body
    /\ UNCHANGED <<path, runtime, agentId, runId, log, remote, spc, body, attempt,
                   result, exitVars, cpc>>

\* Any other phase is stored, and the loop sleeps or gives up.
PollLive ==
    /\ ppc = "got" /\ body \notin TerminalPhases
    /\ ppc' = IF polls >= MaxPolls THEN "timed_out" ELSE "polling"
    /\ state' = Mapped(body) /\ phase' = body
    /\ UNCHANGED <<path, runtime, agentId, runId, log, remote, spc, body, polls,
                   attempt, result, exitVars, cpc>>

PollTimeout ==
    /\ ppc = "timed_out" /\ ppc' = "ended"
    /\ state' = "failed" /\ result' = "poll_timeout"
    /\ UNCHANGED <<path, runtime, agentId, runId, phase, log, remote, spc, body,
                   polls, attempt, exitVars, cpc>>

PollBracket ==
    /\ ppc = "ended" /\ ppc' = "bracketed"
    /\ log' = Append(log, "cloud.run_finished")
    /\ UNCHANGED <<handleVars, remote, spc, body, polls, attempt, result, exitVars,
                   cpc>>

\* Variant: the loop goes on after the poll limit.
PollEmit_GoesOn ==
    /\ ppc = "bracketed"
    /\ ppc' = IF result = "poll_timeout" THEN "timed_out" ELSE "done"
    /\ log' = Append(log, VerdictOf(result))
    /\ xpc' = "called"
    /\ UNCHANGED <<handleVars, remote, spc, body, polls, attempt, result,
                   sawCanceled, cpc>>

\* The terminal event; then the exit callback is called and the thread ends.
PollEmit ==
    /\ ppc = "bracketed" /\ ppc' = "done"
    /\ log' = Append(log, VerdictOf(result))
    /\ xpc' = "called"
    /\ UNCHANGED <<handleVars, remote, spc, body, polls, attempt, result,
                   sawCanceled, cpc>>

-----------------------------------------------------------------------------
(* _on_subprocess_exit, called by the poll loop or by a failed spawn *)

ExitRead ==
    /\ xpc = "called" /\ xpc' = "read"
    /\ sawCanceled' = (state = "canceled")
    /\ UNCHANGED <<handleVars, log, remote, spc, pollVars, cpc>>

\* Variant: every exit code is a success.
ExitUpdate_ErrorIsSuccess ==
    /\ xpc = "read" /\ xpc' = "done"
    /\ state' = IF sawCanceled THEN state ELSE "completed"
    /\ UNCHANGED <<path, runtime, agentId, runId, phase, log, remote, spc,
                   pollVars, sawCanceled, cpc>>

ExitUpdate ==
    /\ xpc = "read" /\ xpc' = "done"
    /\ state' = IF sawCanceled THEN state
                ELSE IF result = "FINISHED" THEN "completed" ELSE "failed"
    /\ UNCHANGED <<path, runtime, agentId, runId, phase, log, remote, spc,
                   pollVars, sawCanceled, cpc>>

-----------------------------------------------------------------------------
(* cancel_task and _cancel_cloud_task; the id of a cloud task starts with    *)
(* "cursor-", so the request waits until the handle is populated             *)

Goto(c, from, to) == cpc[c] = from /\ cpc' = [cpc EXCEPT ![c] = to]

\* A terminal handle is refused: no step.
CancelCheck(c) ==
    /\ state \notin Terminal
    /\ Goto(c, "idle", IF Populated THEN "cloud" ELSE "grace")
    /\ UNCHANGED <<handleVars, log, remote, spc, pollVars, exitVars>>

CancelGraceTerminal(c) ==
    /\ state \in Terminal
    /\ Goto(c, "grace", "rejected")
    /\ UNCHANGED <<handleVars, log, remote, spc, pollVars, exitVars>>

CancelGraceReady(c) ==
    /\ state \notin Terminal /\ Populated
    /\ Goto(c, "grace", "cloud")
    /\ UNCHANGED <<handleVars, log, remote, spc, pollVars, exitVars>>

\* The deadline passes (cloud_cancel_race_window_exceeded).
CancelGraceExpire(c) ==
    /\ state \notin Terminal /\ ~Populated
    /\ Goto(c, "grace", "rejected")
    /\ log' = Append(log, "task.failed")
    /\ UNCHANGED <<handleVars, remote, spc, pollVars, exitVars>>

\* Without both ids there is nothing to post to (cloud_cancel_no_handle).
CancelNoHandle(c) ==
    /\ ~(agentId /\ runId)
    /\ Goto(c, "cloud", "no_handle")
    /\ log' = Append(log, "task.failed")
    /\ UNCHANGED <<handleVars, remote, spc, pollVars, exitVars>>

\* No API key to post with: the request raises and leaves nothing behind.
CancelNoClient(c) ==
    /\ agentId /\ runId /\ "no_key" \in Faults
    /\ Goto(c, "cloud", "rejected")
    /\ UNCHANGED <<handleVars, log, remote, spc, pollVars, exitVars>>

\* Variant: a 409 counts as an accepted cancel.
CancelPost_ConflictAccepted(c) ==
    /\ agentId /\ runId
    /\ Goto(c, "cloud", "accepted")
    /\ remote' = IF remote \in LivePhases THEN "CANCELLED" ELSE remote
    /\ UNCHANGED <<handleVars, log, spc, pollVars, exitVars>>

\* POST .../cancel: accepted, refused with 409 (the run has ended, or the
\* agent is busy), or an error after which the run may or may not be canceled.
CancelPost(c) ==
    /\ agentId /\ runId
    /\ \/ /\ Goto(c, "cloud", "accepted")
          /\ remote \in LivePhases /\ remote' = "CANCELLED"
       \/ Goto(c, "cloud", "conflict") /\ UNCHANGED remote
       \/ /\ Goto(c, "cloud", "erred") /\ "cancel_run" \in Faults
          /\ \/ UNCHANGED remote
             \/ remote \in LivePhases /\ remote' = "CANCELLED"
    /\ UNCHANGED <<handleVars, log, spc, pollVars, exitVars>>

CancelMark(c) ==
    /\ \/ Goto(c, "accepted", "accepted_marked")
       \/ Goto(c, "conflict", "conflict_marked")
    /\ state' = "canceled"
    /\ UNCHANGED <<path, runtime, agentId, runId, phase, log, remote, spc,
                   pollVars, exitVars>>

CancelEmit(c) ==
    /\ \/ Goto(c, "accepted_marked", "canceled")
       \/ Goto(c, "conflict_marked", "best_effort")
    /\ log' = Append(log, "task.canceled")
    /\ UNCHANGED <<handleVars, remote, spc, pollVars, exitVars>>

CancelReport(c) ==
    /\ Goto(c, "erred", "rejected")
    /\ log' = Append(log, "task.failed")
    /\ UNCHANGED <<handleVars, remote, spc, pollVars, exitVars>>

-----------------------------------------------------------------------------
(* The specification *)

Spawn == SpawnTag \/ SpawnFails \/ SpawnCreate \/ SpawnSeed \/ SpawnQueue \/ SpawnReturn

Poll == \/ PollReconcile \/ PollStart \/ PollGet \/ PollRetry \/ PollRaises
        \/ PollTerminal \/ PollLive \/ PollTimeout \/ PollBracket \/ PollEmit

Exit == ExitRead \/ ExitUpdate

Cancel(c) == \/ CancelCheck(c) \/ CancelGraceTerminal(c) \/ CancelGraceReady(c)
             \/ CancelGraceExpire(c) \/ CancelNoHandle(c) \/ CancelNoClient(c)
             \/ CancelPost(c) \/ CancelMark(c) \/ CancelEmit(c) \/ CancelReport(c)

Next == Spawn \/ RemoteStep \/ Poll \/ Exit \/ \E c \in Cancelers : Cancel(c)

Spec == Init /\ [][Next]_vars

\* The threads of the daemon go on, and so does a request inside the call; the
\* API answers, but the run at Cursor may take for ever.
Fairness == /\ WF_vars(Spawn) /\ WF_vars(Poll) /\ WF_vars(Exit)
            /\ \A c \in Cancelers : WF_vars(Cancel(c) /\ cpc[c] # "idle")

FairSpec == Spec /\ Fairness

-----------------------------------------------------------------------------
(* Properties the code has *)

Positions(e) == {i \in DOMAIN log : log[i] = e}

\* I-10 of cloud_events.py, in part: a run has at most one cloud.run_started and
\* one cloud.run_finished, in this order, whatever ends the loop.
RunBrackets ==
    /\ \A i, j \in Positions("cloud.run_started") : i = j
    /\ \A i, j \in Positions("cloud.run_finished") : i = j
    /\ \A i \in Positions("cloud.run_finished") :
          \E j \in Positions("cloud.run_started") : j < i

\* A run whose cancel the API has accepted is never reported completed, by the
\* poll that was in flight or by a later one.
AcceptedNeverCompletes ==
    (\E c \in Cancelers : cpc[c] \in {"accepted", "accepted_marked", "canceled"})
        => Positions("task.completed") = {}

\* With a poller, no cancel request finds a handle without its ids: the grace
\* window waits for the seed and not for the tag.
NoRequestLacksHandle == path = "rest" => \A c \in Cancelers : cpc[c] # "no_handle"

\* The seed, which puts a copy in the place of the handle and resets its state,
\* never overwrites a result: no poller and no cancel gets past it.
SeedOverwritesNoResult == spc = "created" => state \notin Terminal

\* After the exit callback the store says how the run ended, or that a cancel
\* has been recorded.
StoreFollowsRun ==
    xpc = "done" =>
        \/ state = "canceled"
        \/ state = "completed" /\ result = "FINISHED"
        \/ state = "failed" /\ result \notin {"none", "FINISHED", "CANCELLED"}

\* A spawned task comes to an end even if the run never does: the poll limit.
PollEnds == ppc = "start" ~> xpc = "done"

-----------------------------------------------------------------------------
(* state.py: is_terminal means "no further transitions"                      *)

Final == (state \in Terminal) => state' = state

\* True of Path-B, where nothing writes behind a cancel.
PathBTerminalIsFinal == [][path = "jwt" => Final]_vars

\* Not true of the REST path: the poll loop writes the state of the run over a
\* CANCELED handle.
TerminalIsFinal == [][Final]_vars
=============================================================================
