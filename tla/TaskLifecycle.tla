--------------------------- MODULE TaskLifecycle ---------------------------
(***************************************************************************)
(* The life of a task that runs as a local subprocess: Popolad's dispatch, *)
(* the supervisor's wait thread, the graph thread, cancel_task, the crash  *)
(* of the daemon and the rehydrate of the next one (daemon/server.py,      *)
(* daemon/supervisor.py, daemon/state.py).                                 *)
(*                                                                         *)
(* Dispatch and cancel run on the threads of asyncio.to_thread, the wait   *)
(* and graph threads on their own; they share StateStore, the event log    *)
(* and the process table.  An action is one such shared access, together   *)
(* with the local work around it.  The log is projected on the task.* and  *)
(* popolad.* events.                                                       *)
(***************************************************************************)
EXTENDS Integers, Sequences, FiniteSets

CONSTANTS
    Tasks,          \* tasks the daemon may be asked to dispatch, and Foreign ones
    Cancelers,      \* concurrent cancel requests
    CursorIds,      \* tasks whose id starts with "cursor-"
    Foreign,        \* ArkTower rows that popolad did not create
    Faults,         \* which failures of FaultKinds may happen
    UseGraph,       \* dispatch goes through _dispatch_via_graph
    MaxCrashes      \* bound on the crashes of the daemon

FaultKinds == {"create_task", "popen", "dispatch_row", "wait", "graph"}

ASSUME TaskSetsAssumption == CursorIds \subseteq Tasks /\ Foreign \subseteq Tasks
ASSUME FaultsAssumption == Faults \subseteq FaultKinds /\ UseGraph \in BOOLEAN
ASSUME CrashAssumption == MaxCrashes \in Nat

VARIABLES
    up,         \* the daemon process is alive
    crashes,    \* how often it has crashed
    store,      \* StateStore: the state of the handle of t
    hasPid,     \* StateStore: the handle knows its pid
    escalated,  \* StateStore: cancel_escalated_to_sigkill
    ark,        \* status of the ArkTower row of t
    row,        \* t has a popola_dispatch row
    child,      \* the subprocess: its exit once it has exited
    reaped,     \* the exited subprocess has left the process table
    sig,        \* the strongest signal delivered to it while it ran
    log,        \* the event log of t
    durable,    \* how many events of it have reached the file
    dpc,        \* where the dispatch of t is
    wpc,        \* where the wait thread of t is
    seen,       \* exit code the wait thread got
    verdict,    \* terminal event the wait thread has chosen
    sawCanceled,\* what _on_subprocess_exit read from the store
    gpc,        \* where the graph thread of t is
    cpc,        \* where cancel request c is
    target      \* the task it cancels

sysVars    == <<up, crashes>>
storeVars  == <<store, hasPid, escalated>>
dbVars     == <<ark, row>>
procVars   == <<child, reaped, sig>>
logVars    == <<log, durable>>
waitVars   == <<wpc, seen, verdict, sawCanceled>>
cancelVars == <<cpc, target>>
vars == <<sysVars, storeVars, dbVars, procVars, logVars, dpc, waitVars, gpc,
          cancelVars>>

-----------------------------------------------------------------------------
(* Types *)

Exits    == {"ok", "err", "term", "kill"}
Terminal == {"completed", "failed", "canceled"}
Verdicts == {"task.completed", "task.failed", "task.canceled",
             "task.canceled+sigkill"}
Events   == Verdicts \cup
            {"task.dispatched", "task.cancel_requested", "task.cancel_escalated",
             "popolad.recovered", "popolad.spawn_aborted"}

\* Program counters of a cancel request inside one call of cancel_task.
InCall == {"grace", "orphan", "checked", "marked", "signaled", "waiting",
           "escalating", "killed", "finishing", "orphan_marked"}

CancelPoints ==
    {"idle", "canceled", "already_gone", "soft_canceled", "rejected"} \cup InCall

TypeOK ==
    /\ up \in BOOLEAN /\ crashes \in 0..MaxCrashes
    /\ store \in [Tasks -> {"absent", "running"} \cup Terminal]
    /\ hasPid \in [Tasks -> BOOLEAN] /\ escalated \in [Tasks -> BOOLEAN]
    /\ ark \in [Tasks -> {"none", "submitted", "failed", "canceled"}]
    /\ row \in [Tasks -> BOOLEAN]
    /\ child \in [Tasks -> {"none", "running"} \cup Exits]
    /\ reaped \in [Tasks -> BOOLEAN]
    /\ sig \in [Tasks -> {"none", "term", "kill"}]
    /\ log \in [Tasks -> Seq(Events)] /\ durable \in [Tasks -> Nat]
    /\ dpc \in [Tasks -> {"idle", "created", "registered", "spawned", "pid_set",
                          "returned", "raised", "lost"}]
    /\ wpc \in [Tasks -> {"none", "waiting", "reaped", "resolved", "emitted",
                          "exit_read", "done"}]
    /\ seen \in [Tasks -> {"none"} \cup Exits]
    /\ verdict \in [Tasks -> {"none"} \cup Verdicts]
    /\ sawCanceled \in [Tasks -> BOOLEAN]
    /\ gpc \in [Tasks -> {"none", "running", "ended", "blown"}]
    /\ cpc \in [Cancelers -> CancelPoints]
    /\ target \in [Cancelers -> Tasks]

-----------------------------------------------------------------------------
(* Helpers *)

HasVerdict(s) == \E i \in DOMAIN s : s[i] \in Verdicts

\* The log of every task after `e` has been appended to that of t.
Appended(t, e) == [log EXCEPT ![t] = Append(@, e)]

\* os.kill(pid, 0) raises ProcessLookupError: a zombie still answers.
Gone(t) == reaped[t]

\* A signal acts on a running process only; a zombie takes it in silence.
Signaled(t, s) ==
    IF child[t] = "running" /\ sig[t] # "kill" THEN [sig EXCEPT ![t] = s] ELSE sig

\* needs_cloud_grace: the id says "cursor-" and the handle, being local, has
\* no cloud agent; a row that was never dispatched by popolad does not wait.
NeedsCloudGrace(t) == t \in CursorIds /\ ~(t \in Foreign /\ ~row[t])

\* The verdict of _resolve_terminal_event for exit code x.
ResolvedVerdict(t, x) ==
    IF store[t] = "canceled"
    THEN IF escalated[t] THEN "task.canceled+sigkill" ELSE "task.canceled"
    ELSE IF x = "ok" THEN "task.completed" ELSE "task.failed"

-----------------------------------------------------------------------------
(* The initial state: a fresh daemon; the rows of other ArkTower clients    *)
(* are there and its startup rehydrate has put them in the store.           *)

Init ==
    /\ up = TRUE /\ crashes = 0
    /\ store = [t \in Tasks |-> IF t \in Foreign THEN "running" ELSE "absent"]
    /\ hasPid = [t \in Tasks |-> FALSE]
    /\ escalated = [t \in Tasks |-> FALSE]
    /\ ark = [t \in Tasks |-> IF t \in Foreign THEN "submitted" ELSE "none"]
    /\ row = [t \in Tasks |-> FALSE]
    /\ child = [t \in Tasks |-> "none"]
    /\ reaped = [t \in Tasks |-> FALSE]
    /\ sig = [t \in Tasks |-> "none"]
    /\ log = [t \in Tasks |-> IF t \in Foreign THEN <<"popolad.recovered">> ELSE <<>>]
    /\ durable = [t \in Tasks |-> 0]
    /\ dpc = [t \in Tasks |-> IF t \in Foreign THEN "lost" ELSE "idle"]
    /\ wpc = [t \in Tasks |-> "none"]
    /\ seen = [t \in Tasks |-> "none"]
    /\ verdict = [t \in Tasks |-> "none"]
    /\ sawCanceled = [t \in Tasks |-> FALSE]
    /\ gpc = [t \in Tasks |-> "none"]
    /\ cpc = [c \in Cancelers |-> "idle"]
    /\ target \in [Cancelers -> Tasks]

-----------------------------------------------------------------------------
(* Dispatch (_dispatch_via_graph, _dispatch_legacy) *)

\* _maybe_create_arktower_task: a failure is swallowed and leaves no row.
DispatchCreateRow(t) ==
    /\ up /\ dpc[t] = "idle"
    /\ dpc' = [dpc EXCEPT ![t] = "created"]
    /\ \/ ark' = [ark EXCEPT ![t] = "submitted"]
       \/ "create_task" \in Faults /\ UNCHANGED ark
    /\ UNCHANGED <<sysVars, storeVars, row, procVars, logVars, waitVars, gpc,
                   cancelVars>>

\* The handle is registered as RUNNING, before anything is spawned.
DispatchRegister(t) ==
    /\ up /\ dpc[t] = "created"
    /\ dpc' = [dpc EXCEPT ![t] = "registered"]
    /\ store' = [store EXCEPT ![t] = "running"]
    /\ log' = Appended(t, "task.dispatched")
    /\ UNCHANGED <<sysVars, hasPid, escalated, dbVars, procVars, durable,
                   waitVars, gpc, cancelVars>>

\* Supervisor.spawn: Popen, then the drain and wait threads start.
DispatchSpawn(t) ==
    /\ up /\ dpc[t] = "registered"
    /\ dpc' = [dpc EXCEPT ![t] = "spawned"]
    /\ child' = [child EXCEPT ![t] = "running"]
    /\ wpc' = [wpc EXCEPT ![t] = "waiting"]
    /\ UNCHANGED <<sysVars, storeVars, dbVars, reaped, sig, logVars, seen, verdict,
                   sawCanceled, gpc, cancelVars>>

\* Popen raises and so does dispatch_task; nothing undoes the registration.
DispatchSpawnRaises(t) ==
    /\ up /\ dpc[t] = "registered" /\ "popen" \in Faults
    /\ dpc' = [dpc EXCEPT ![t] = "raised"]
    /\ UNCHANGED <<sysVars, storeVars, dbVars, procVars, logVars, waitVars, gpc,
                   cancelVars>>

\* The pid that spawn returned is written to the handle, and nothing else.
DispatchSetPid(t) ==
    /\ up /\ dpc[t] = "spawned"
    /\ dpc' = [dpc EXCEPT ![t] = "pid_set"]
    /\ hasPid' = [hasPid EXCEPT ![t] = TRUE]
    /\ UNCHANGED <<sysVars, store, escalated, dbVars, procVars, logVars, waitVars,
                   gpc, cancelVars>>

\* Variant: only the legacy path records the dispatch.
DispatchRecord_LegacyOnly(t) ==
    /\ up /\ dpc[t] = "pid_set"
    /\ dpc' = [dpc EXCEPT ![t] = "returned"]
    /\ row' = [row EXCEPT ![t] = ark[t] # "none" /\ ~UseGraph]
    /\ gpc' = [gpc EXCEPT ![t] = IF UseGraph THEN "running" ELSE "none"]
    /\ UNCHANGED <<sysVars, storeVars, ark, procVars, logVars, waitVars, cancelVars>>

\* _record_popola_dispatch, whose failure is swallowed, then the graph thread
\* starts and dispatch_task returns the task id.
DispatchRecord(t) ==
    /\ up /\ dpc[t] = "pid_set"
    /\ dpc' = [dpc EXCEPT ![t] = "returned"]
    /\ \/ row' = [row EXCEPT ![t] = ark[t] # "none"]
       \/ "dispatch_row" \in Faults /\ UNCHANGED row
    /\ gpc' = [gpc EXCEPT ![t] = IF UseGraph THEN "running" ELSE "none"]
    /\ UNCHANGED <<sysVars, storeVars, ark, procVars, logVars, waitVars, cancelVars>>

-----------------------------------------------------------------------------
(* The subprocess *)

\* A running process may end by itself; SIGTERM kills it or is handled (the
\* handler exits as it likes, or never); SIGKILL leaves no choice.  A child of
\* a dead daemon is reaped by init.
ExitsFor(s) == IF s = "kill" THEN {"kill"}
               ELSE {"ok", "err"} \cup {x \in {"term"} : x = s}

ChildExit(t) ==
    /\ child[t] = "running"
    /\ \E x \in ExitsFor(sig[t]) : child' = [child EXCEPT ![t] = x]
    /\ reaped' = [reaped EXCEPT ![t] = wpc[t] = "none"]
    /\ UNCHANGED <<sysVars, storeVars, dbVars, sig, logVars, dpc, waitVars, gpc,
                   cancelVars>>

-----------------------------------------------------------------------------
(* The wait thread (_wait_and_finalize, _on_subprocess_exit) *)

\* proc.wait() returns and reaps the child.
WaitReap(t) ==
    /\ up /\ wpc[t] = "waiting" /\ child[t] \in Exits
    /\ wpc' = [wpc EXCEPT ![t] = "reaped"]
    /\ seen' = [seen EXCEPT ![t] = child[t]]
    /\ reaped' = [reaped EXCEPT ![t] = TRUE]
    /\ UNCHANGED <<sysVars, storeVars, dbVars, child, sig, logVars, dpc, verdict,
                   sawCanceled, gpc, cancelVars>>

\* proc.wait() raises: the thread goes on with exit code -1, the child lives.
WaitRaises(t) ==
    /\ up /\ wpc[t] = "waiting" /\ "wait" \in Faults
    /\ wpc' = [wpc EXCEPT ![t] = "reaped"]
    /\ seen' = [seen EXCEPT ![t] = "err"]
    /\ UNCHANGED <<sysVars, storeVars, dbVars, procVars, logVars, dpc, verdict,
                   sawCanceled, gpc, cancelVars>>

\* Variant: the store is brought up to date before the event is written.
WaitResolve_StoreFirst(t) ==
    /\ up /\ wpc[t] = "reaped"
    /\ wpc' = [wpc EXCEPT ![t] = "resolved"]
    /\ verdict' = [verdict EXCEPT ![t] = ResolvedVerdict(t, seen[t])]
    /\ store' = IF store[t] = "canceled" THEN store
                ELSE [store EXCEPT ![t] = IF seen[t] = "ok" THEN "completed" ELSE "failed"]
    /\ UNCHANGED <<sysVars, hasPid, escalated, dbVars, procVars, logVars, dpc, seen,
                   sawCanceled, gpc, cancelVars>>

\* _resolve_terminal_event reads the handle.
WaitResolve(t) ==
    /\ up /\ wpc[t] = "reaped"
    /\ wpc' = [wpc EXCEPT ![t] = "resolved"]
    /\ verdict' = [verdict EXCEPT ![t] = ResolvedVerdict(t, seen[t])]
    /\ UNCHANGED <<sysVars, storeVars, dbVars, procVars, logVars, dpc, seen,
                   sawCanceled, gpc, cancelVars>>

\* The terminal event is appended.
WaitEmit(t) ==
    /\ up /\ wpc[t] = "resolved"
    /\ wpc' = [wpc EXCEPT ![t] = "emitted"]
    /\ log' = Appended(t, verdict[t])
    /\ UNCHANGED <<sysVars, storeVars, dbVars, procVars, durable, dpc, seen, verdict,
                   sawCanceled, gpc, cancelVars>>

\* Variant: the exit callback does not consult the store.
ExitRead_Blind(t) ==
    /\ up /\ wpc[t] = "emitted"
    /\ wpc' = [wpc EXCEPT ![t] = "exit_read"]
    /\ sawCanceled' = [sawCanceled EXCEPT ![t] = FALSE]
    /\ UNCHANGED <<sysVars, storeVars, dbVars, procVars, logVars, dpc, seen, verdict,
                   gpc, cancelVars>>

\* _on_subprocess_exit first looks whether the handle is CANCELED ...
ExitRead(t) ==
    /\ up /\ wpc[t] = "emitted"
    /\ wpc' = [wpc EXCEPT ![t] = "exit_read"]
    /\ sawCanceled' = [sawCanceled EXCEPT ![t] = store[t] = "canceled"]
    /\ UNCHANGED <<sysVars, storeVars, dbVars, procVars, logVars, dpc, seen, verdict,
                   gpc, cancelVars>>

\* Variant: any exit that was not canceled counts as a success.
ExitUpdate_AlwaysCompleted(t) ==
    /\ up /\ wpc[t] = "exit_read"
    /\ wpc' = [wpc EXCEPT ![t] = "done"]
    /\ store' = IF sawCanceled[t] THEN store
                ELSE [store EXCEPT ![t] = "completed"]
    /\ UNCHANGED <<sysVars, hasPid, escalated, dbVars, procVars, logVars, dpc, seen,
                   verdict, sawCanceled, gpc, cancelVars>>

\* Variant: a canceled task returns early, before the exit event is set.
ExitUpdate_NoFinally(t) ==
    /\ up /\ wpc[t] = "exit_read" /\ ~sawCanceled[t]
    /\ wpc' = [wpc EXCEPT ![t] = "done"]
    /\ store' = [store EXCEPT ![t] = IF seen[t] = "ok" THEN "completed" ELSE "failed"]
    /\ UNCHANGED <<sysVars, hasPid, escalated, dbVars, procVars, logVars, dpc, seen,
                   verdict, sawCanceled, gpc, cancelVars>>

\* ... and then, in another critical section, writes the new state; the exit
\* event of the graph is set in the finally clause.
ExitUpdate(t) ==
    /\ up /\ wpc[t] = "exit_read"
    /\ wpc' = [wpc EXCEPT ![t] = "done"]
    /\ store' = IF sawCanceled[t] THEN store
                ELSE [store EXCEPT ![t] = IF seen[t] = "ok" THEN "completed" ELSE "failed"]
    /\ UNCHANGED <<sysVars, hasPid, escalated, dbVars, procVars, logVars, dpc, seen,
                   verdict, sawCanceled, gpc, cancelVars>>

-----------------------------------------------------------------------------
(* The graph thread (_run_graph_for_task).  Its nodes only append graph.step *)
(* events; the wait node blocks on the exit event.                           *)

GraphEnd(t) ==
    /\ up /\ gpc[t] = "running" /\ wpc[t] = "done"
    /\ gpc' = [gpc EXCEPT ![t] = "ended"]
    /\ UNCHANGED <<sysVars, storeVars, dbVars, procVars, logVars, dpc, waitVars,
                   cancelVars>>

\* A node or the checkpointer raises: the handle is forced to FAILED.
GraphBlowsUp(t) ==
    /\ up /\ gpc[t] = "running" /\ "graph" \in Faults
    /\ gpc' = [gpc EXCEPT ![t] = "blown"]
    /\ store' = [store EXCEPT ![t] = "failed"]
    /\ UNCHANGED <<sysVars, hasPid, escalated, dbVars, procVars, logVars, dpc,
                   waitVars, cancelVars>>

-----------------------------------------------------------------------------
(* cancel_task.  A call whose guards raise leaves no trace: it is no step.   *)

\* Moves request c from program counter `from` to `to`.
Goto(c, from, to) == cpc[c] = from /\ cpc' = [cpc EXCEPT ![c] = to]

\* The guards: an active handle, and then its pid or an orphaned row.
CancelCheck(c) ==
    LET t == target[c] IN
    /\ up /\ store[t] = "running"
    /\ \/ NeedsCloudGrace(t) /\ Goto(c, "idle", "grace")
       \/ ~NeedsCloudGrace(t) /\ hasPid[t] /\ Goto(c, "idle", "checked")
       \/ /\ ~NeedsCloudGrace(t) /\ ~hasPid[t] /\ t \in Foreign /\ ~row[t]
          /\ Goto(c, "idle", "orphan")
    /\ UNCHANGED <<sysVars, storeVars, dbVars, procVars, logVars, dpc, waitVars, gpc,
                   target>>

\* The grace loop sees a terminal handle and raises.
CancelGraceTerminal(c) ==
    /\ up /\ store[target[c]] \in Terminal
    /\ Goto(c, "grace", "rejected")
    /\ UNCHANGED <<sysVars, storeVars, dbVars, procVars, logVars, dpc, waitVars, gpc,
                   target>>

\* Its deadline passes (cloud_cancel_race_window_exceeded).
CancelGraceExpire(c) ==
    /\ up /\ store[target[c]] = "running"
    /\ Goto(c, "grace", "rejected")
    /\ log' = Appended(target[c], "task.failed")
    /\ UNCHANGED <<sysVars, storeVars, dbVars, procVars, durable, dpc, waitVars, gpc,
                   target>>

\* _soft_cancel_orphan: the handle, then the row and the event.
CancelSoftMark(c) ==
    /\ up
    /\ Goto(c, "orphan", "orphan_marked")
    /\ store' = [store EXCEPT ![target[c]] = "canceled"]
    /\ UNCHANGED <<sysVars, hasPid, escalated, dbVars, procVars, logVars, dpc,
                   waitVars, gpc, target>>

CancelSoftPersist(c) ==
    /\ up
    /\ Goto(c, "orphan_marked", "soft_canceled")
    /\ ark' = [ark EXCEPT ![target[c]] = "canceled"]
    /\ log' = Appended(target[c], "task.canceled")
    /\ UNCHANGED <<sysVars, storeVars, row, procVars, durable, dpc, waitVars, gpc,
                   target>>

\* Variant: the handle is marked at the end of the call only.
CancelMark_Late(c) ==
    /\ up
    /\ Goto(c, "checked", "marked")
    /\ UNCHANGED <<sysVars, storeVars, dbVars, procVars, logVars, dpc, waitVars, gpc,
                   target>>

\* State first: CANCELED, and no escalation yet, before any signal.
CancelMark(c) ==
    /\ up
    /\ Goto(c, "checked", "marked")
    /\ store' = [store EXCEPT ![target[c]] = "canceled"]
    /\ escalated' = [escalated EXCEPT ![target[c]] = FALSE]
    /\ UNCHANGED <<sysVars, hasPid, dbVars, procVars, logVars, dpc, waitVars, gpc,
                   target>>

\* SIGTERM, or the process is gone and the call returns.
CancelTerm(c) ==
    LET t == target[c] IN
    /\ up
    /\ \/ /\ ~Gone(t) /\ Goto(c, "marked", "signaled")
          /\ sig' = Signaled(t, "term") /\ UNCHANGED log
       \/ /\ Gone(t) /\ Goto(c, "marked", "already_gone")
          /\ log' = Appended(t, "task.cancel_requested") /\ UNCHANGED sig
    /\ UNCHANGED <<sysVars, storeVars, dbVars, child, reaped, durable, dpc, waitVars,
                   gpc, target>>

CancelLog(c) ==
    /\ up
    /\ Goto(c, "signaled", "waiting")
    /\ log' = Appended(target[c], "task.cancel_requested")
    /\ UNCHANGED <<sysVars, storeVars, dbVars, procVars, durable, dpc, waitVars, gpc,
                   target>>

\* The grace loop finds the process gone.
CancelGone(c) ==
    /\ up /\ Gone(target[c])
    /\ Goto(c, "waiting", "finishing")
    /\ UNCHANGED <<sysVars, storeVars, dbVars, procVars, logVars, dpc, waitVars, gpc,
                   target>>

\* Variant: SIGKILL goes out with no record of it.
CancelExpire_NoRecord(c) ==
    /\ up
    /\ Goto(c, "waiting", "escalating")
    /\ UNCHANGED <<sysVars, storeVars, dbVars, procVars, logVars, dpc, waitVars, gpc,
                   target>>

\* Variant: the call gives up at the deadline.
CancelExpire_GivesUp(c) ==
    /\ up
    /\ Goto(c, "waiting", "finishing")
    /\ UNCHANGED <<sysVars, storeVars, dbVars, procVars, logVars, dpc, waitVars, gpc,
                   target>>

\* It times out: the escalation is recorded before SIGKILL is sent.
CancelExpire(c) ==
    /\ up
    /\ Goto(c, "waiting", "escalating")
    /\ escalated' = [escalated EXCEPT ![target[c]] = TRUE]
    /\ UNCHANGED <<sysVars, store, hasPid, dbVars, procVars, logVars, dpc, waitVars,
                   gpc, target>>

\* SIGKILL, or the process is gone by now and the record is taken back.
CancelKill(c) ==
    LET t == target[c] IN
    /\ up
    /\ \/ /\ ~Gone(t) /\ Goto(c, "escalating", "killed")
          /\ sig' = Signaled(t, "kill") /\ UNCHANGED escalated
       \/ /\ Gone(t) /\ Goto(c, "escalating", "finishing")
          /\ escalated' = [escalated EXCEPT ![t] = FALSE] /\ UNCHANGED sig
    /\ UNCHANGED <<sysVars, store, hasPid, dbVars, child, reaped, logVars, dpc,
                   waitVars, gpc, target>>

CancelLogKill(c) ==
    /\ up
    /\ Goto(c, "killed", "finishing")
    /\ log' = Appended(target[c], "task.cancel_escalated")
    /\ UNCHANGED <<sysVars, storeVars, dbVars, procVars, durable, dpc, waitVars, gpc,
                   target>>

\* Variant: cancel_task writes the terminal event itself.
CancelFinish_Event(c) ==
    /\ up
    /\ Goto(c, "finishing", "canceled")
    /\ store' = [store EXCEPT ![target[c]] = "canceled"]
    /\ log' = Appended(target[c], "task.canceled")
    /\ UNCHANGED <<sysVars, hasPid, escalated, dbVars, procVars, durable, dpc,
                   waitVars, gpc, target>>

\* The call ends with another write of CANCELED.
CancelFinish(c) ==
    /\ up
    /\ Goto(c, "finishing", "canceled")
    /\ store' = [store EXCEPT ![target[c]] = "canceled"]
    /\ UNCHANGED <<sysVars, hasPid, escalated, dbVars, procVars, logVars, dpc,
                   waitVars, gpc, target>>

-----------------------------------------------------------------------------
(* Crash and restart *)

\* The buffered events of t reach its file (EventLog's fsync worker).
FlushLog(t) ==
    /\ up /\ durable[t] < Len(log[t])
    /\ durable' = [durable EXCEPT ![t] = Len(log[t])]
    /\ UNCHANGED <<sysVars, storeVars, dbVars, procVars, log, dpc, waitVars, gpc,
                   cancelVars>>

\* SIGKILL of the daemon.  Memory and threads are gone, a suffix of what was
\* not yet durable is lost; the children go on in sessions of their own, and
\* init reaps them.  Every cancel request is open to be made again.
Crash ==
    /\ up /\ crashes < MaxCrashes
    /\ up' = FALSE /\ crashes' = crashes + 1
    /\ store' = [t \in Tasks |-> "absent"]
    /\ hasPid' = [t \in Tasks |-> FALSE]
    /\ escalated' = [t \in Tasks |-> FALSE]
    /\ reaped' = [t \in Tasks |-> reaped[t] \/ child[t] \in Exits]
    /\ \E kept \in [Tasks -> UNION {durable[t]..Len(log[t]) : t \in Tasks}] :
          /\ \A t \in Tasks : kept[t] \in durable[t]..Len(log[t])
          /\ durable' = kept
          /\ log' = [t \in Tasks |-> SubSeq(log[t], 1, kept[t])]
    /\ dpc' = [t \in Tasks |-> IF dpc[t] \in {"idle", "returned", "raised"}
                               THEN dpc[t] ELSE "lost"]
    /\ wpc' = [t \in Tasks |-> "none"]
    /\ seen' = [t \in Tasks |-> "none"]
    /\ verdict' = [t \in Tasks |-> "none"]
    /\ sawCanceled' = [t \in Tasks |-> FALSE]
    /\ gpc' = [t \in Tasks |-> "none"]
    /\ cpc' = [c \in Cancelers |-> "idle"]
    /\ UNCHANGED <<dbVars, child, sig, target>>

\* Variant: rehydrate does not look for the dispatch row.
SpawnAborted_Never(t) == FALSE

\* rehydrate_from_persistence, for one row: a popolad task without a dispatch
\* row was never spawned ...
SpawnAborted(t) == ark[t] = "submitted" /\ t \notin Foreign /\ ~row[t]

\* ... and every other row in flight comes back as a RUNNING handle, under a
\* new id and in a new log when popolad did not create it.
Recovered(t) == ark[t] = "submitted" /\ ~SpawnAborted(t)

Restart ==
    /\ ~up /\ up' = TRUE
    /\ store' = [t \in Tasks |-> IF Recovered(t) THEN "running" ELSE "absent"]
    /\ ark' = [t \in Tasks |-> IF SpawnAborted(t) THEN "failed" ELSE ark[t]]
    /\ log' = [t \in Tasks |->
                 IF SpawnAborted(t) THEN Append(log[t], "popolad.spawn_aborted")
                 ELSE IF ~Recovered(t) THEN log[t]
                 ELSE IF t \in Foreign THEN <<"popolad.recovered">>
                 ELSE Append(log[t], "popolad.recovered")]
    /\ durable' = [t \in Tasks |->
                     IF SpawnAborted(t) THEN Len(log[t]) + 1
                     ELSE IF Recovered(t) /\ t \in Foreign THEN 0 ELSE durable[t]]
    /\ UNCHANGED <<crashes, hasPid, escalated, row, procVars, dpc, waitVars, gpc,
                   cancelVars>>

-----------------------------------------------------------------------------
(* The specification *)

Dispatch(t) == \/ DispatchCreateRow(t) \/ DispatchRegister(t)
               \/ DispatchSpawn(t) \/ DispatchSpawnRaises(t)
               \/ DispatchSetPid(t) \/ DispatchRecord(t)

Wait(t) == \/ WaitReap(t) \/ WaitRaises(t) \/ WaitResolve(t) \/ WaitEmit(t)
           \/ ExitRead(t) \/ ExitUpdate(t)

Graph(t) == GraphEnd(t) \/ GraphBlowsUp(t)

Cancel(c) == \/ CancelCheck(c) \/ CancelGraceTerminal(c) \/ CancelGraceExpire(c)
             \/ CancelSoftMark(c) \/ CancelSoftPersist(c)
             \/ CancelMark(c) \/ CancelTerm(c) \/ CancelLog(c) \/ CancelGone(c)
             \/ CancelExpire(c) \/ CancelKill(c) \/ CancelLogKill(c)
             \/ CancelFinish(c)

Next ==
    \/ \E t \in Tasks : \/ Dispatch(t) \/ ChildExit(t) \/ Wait(t) \/ Graph(t)
                        \/ FlushLog(t)
    \/ \E c \in Cancelers : Cancel(c)
    \/ Crash
    \/ Restart

Spec == Init /\ [][Next]_vars

\* Every thread of the daemon goes on (a cancel request only once it is in the
\* call), and the kernel ends a process that has received SIGKILL.  Nothing
\* makes a process end by itself or obey SIGTERM.
Fairness ==
    /\ \A t \in Tasks : /\ WF_vars(Dispatch(t) /\ dpc[t] # "idle")
                        /\ WF_vars(Wait(t)) /\ WF_vars(Graph(t))
                        /\ WF_vars(ChildExit(t) /\ sig[t] = "kill")
    /\ \A c \in Cancelers : WF_vars(Cancel(c) /\ cpc[c] \in InCall)

FairSpec == Spec /\ Fairness

-----------------------------------------------------------------------------
(* Properties the code has *)

\* The ids for which one log gets its verdicts from the wait thread only.
Plain == Tasks \ (CursorIds \cup Foreign)

\* A log holds at most one terminal event, whatever cancel requests, graph
\* failures, crashes and restarts come in between: _wait_and_finalize is the
\* only writer, and no restart runs it again.
OneVerdictIn(s) ==
    \A i, j \in DOMAIN s : s[i] \in Verdicts /\ s[j] \in Verdicts => i = j

OneVerdict == \A t \in Plain : OneVerdictIn(log[t])

\* A process that dies of a signal of cancel_task is never reported as
\* task.failed: the handle is CANCELED before the signal is out.
SignalDeathIsCanceled ==
    \A t \in Tasks : seen[t] \in {"term", "kill"} =>
        verdict[t] \in {"none", "task.canceled", "task.canceled+sigkill"}

KillReported(t) == verdict[t] \in {"none", "task.canceled+sigkill"}

\* The verdict of a process that the only cancel request has killed by SIGKILL
\* says so: the escalation is on record before the signal is out.
SoleSigkillIsReported ==
    \A t \in Tasks : seen[t] = "kill" =>
        \/ KillReported(t)
        \/ \E c, d \in Cancelers : /\ c # d /\ target[c] = t /\ target[d] = t
                                 /\ cpc[c] # "idle" /\ cpc[d] # "idle"

\* When cancel_task returns after a SIGTERM that reached the process, the
\* handle is CANCELED and stays so: no exit callback still in flight has read
\* the store before the mark.
CancelSticks ==
    \A c \in Cancelers : cpc[c] = "canceled" => store[target[c]] = "canceled"

\* The wait thread and the store agree once the exit callback is through,
\* up to a cancel that marked the handle too late for the verdict.
StoreFollowsVerdict ==
    \A t \in Tasks : wpc[t] = "done" =>
        \/ store[t] = "canceled"
        \/ store[t] = "completed" /\ verdict[t] = "task.completed"
        \/ store[t] = "failed" /\ verdict[t] = "task.failed"

\* A handle is COMPLETED or FAILED only when its terminal event is in the log:
\* attach_stream stops reading at a terminal handle.
VerdictBeforeState ==
    \A t \in Tasks : store[t] \in {"completed", "failed"} => HasVerdict(log[t])

\* A handle that a restart brings back as RUNNING was spawned once
\* (rehydrate_from_persistence checks the popola_dispatch row).
NoGhostRunning ==
    \A t \in Tasks \ Foreign :
        store[t] = "running" /\ dpc[t] \notin {"registered", "raised"} => child[t] # "none"

\* A task whose dispatch returned with a persisted row is on the books of every
\* later daemon: running again, or in the store still.
DispatchSurvives ==
    \A t \in Tasks \ Foreign :
        up /\ dpc[t] = "returned" /\ ark[t] # "none" => store[t] # "absent"

\* A process that was sent SIGTERM by cancel_task is reported canceled in the
\* end, even if it ignores the signal: the grace loop escalates.
CancelEnds ==
    \A c \in Cancelers : cpc[c] = "signaled" ~> HasVerdict(log[target[c]])

\* The exit of the process ends the graph thread of its task: the callback sets
\* the exit event in every case.
ExitEndsGraph ==
    \A t \in Tasks : child[t] \in Exits /\ gpc[t] = "running" ~> gpc[t] # "running"

-----------------------------------------------------------------------------
(* The contract of a local task *)

\* How the process of t is seen from outside.
ProcessOf(t) == IF child[t] \in {"term", "kill"} THEN "killed" ELSE child[t]

\* The end of which a terminal event tells.
EndOf(v) == CASE v = "task.completed" -> "completed"
              [] v = "task.failed" -> "failed"
              [] v \in {"task.canceled", "task.canceled+sigkill"} -> "canceled"

\* The verdicts of a log.
Heard(s) == {w \in Verdicts : \E i \in DOMAIN s : s[i] = w}

Told(t) == {EndOf(v) : v \in Heard(log[t])}

\* The points of a request that has marked the handle.
Accepted == {"marked", "signaled", "waiting", "escalating", "killed", "finishing",
             "canceled", "already_gone"}

AskedFor(t) ==
    sig[t] # "none" \/ \E c \in Cancelers : target[c] = t /\ cpc[c] \in Accepted

WatchOf(t) == CASE wpc[t] = "none" -> "none"
                [] wpc[t] \in {"waiting", "reaped", "resolved"} -> "on"
                [] wpc[t] \in {"emitted", "exit_read"} -> "told"
                [] wpc[t] = "done" -> "over"

Contract == INSTANCE TaskContract WITH
    Promised <- Plain, GraphMayDie <- "graph" \in Faults, WaitMayRaise <- "wait" \in Faults,
    alive <- up,
    shown <- [t \in Plain |-> store[t]], process <- [t \in Plain |-> ProcessOf(t)],
    asked <- [t \in Plain |-> AskedFor(t)], told <- [t \in Plain |-> Told(t)],
    watch <- [t \in Plain |-> WatchOf(t)]

\* However dispatch, wait, graph and cancel threads, crashes and restarts interleave, the
\* log tells one end and the true one, the handle says canceled only if that was asked
\* for and otherwise what the log has told, and nothing without a process comes back
\* (daemon/server.py, supervisor.py).
KeepsTaskContract == Contract!ContractSpec

-----------------------------------------------------------------------------
(* What comments and docs claim and the code does not keep *)

\* server.py: the terminal event is always task.canceled "with the correct
\* sigkill_escalated field"; a second request takes the flag of the first back.
SigkillIsReported ==
    \A t \in Tasks : seen[t] = "kill" => KillReported(t)

\* server.py: rehydrate loads the tasks in flight; one whose terminal event is
\* on file is not.
NoFinishedTaskRevived ==
    \A t \in Plain : \A i, j \in DOMAIN log[t] :
        i < j /\ log[t][i] \in Verdicts => log[t][j] # "popolad.recovered"

\* USER_GUIDE.md: "popola cancel cursor-23e74ec18917" sends SIGTERM, then SIGKILL;
\* so it does not give up on a process that is running and whose pid is known.
CancelSignalsLiveProcess ==
    [][\A c \in Cancelers : cpc[c] = "grace" /\ cpc'[c] = "rejected" =>
          ~(child[target[c]] = "running" /\ hasPid[target[c]])]_vars
=============================================================================
