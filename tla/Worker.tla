------------------------------- MODULE Worker --------------------------------
(***************************************************************************)
(* The self-hosted worker of one directory (cli/cloud_worker_cmd.py): the    *)
(* commands that start it, in the foreground behind a wrapper or detached,   *)
(* stop it, ask how it is and dispatch to it.  Nothing is shared between     *)
(* them but the process table, so each command acts on what it saw there.    *)
(***************************************************************************)
EXTENDS Integers, FiniteSets

CONSTANTS
    Starters,           \* "worker start" commands; each has one worker at most
    Named,              \* those with a --name
    CustomName,         \* which is this one
    DefaultName         \* the name made of the directory

ASSUME NamedAssumption == Named \subseteq Starters

VARIABLES
    startPc,            \* each wrapper
    detached,           \* --detach
    proc,               \* its worker: none, forked, running, failed (no exec), dead
    termed,             \* workers that were sent SIGTERM
    stopPc, stopFound,  \* worker stop, and the worker that it found
    session,            \* what has run on each worker: nothing, a session now, one before
    statusPc,           \* worker status, and what it has been told: by the last worker
    answered,           \*   that answered,
    health, claimed,    \*   /healthz and /readyz,
    served, note,       \*   the time of the last activity or not; the note it prints
    sendPc, sendName    \* worker dispatch, and the worker that it names

startVars == <<startPc, detached>>
procVars == <<proc, termed>>
stopVars == <<stopPc, stopFound>>
statusVars == <<statusPc, answered, health, claimed, served, note>>
sendVars == <<sendPc, sendName>>

workerVars == <<startVars, procVars, stopVars, session, statusVars, sendVars>>

Nothing == "nothing"

WorkerName(s) == IF s \in Named THEN CustomName ELSE DefaultName

\* _detect_running_workers_for_dir: only a process that has become the worker has the
\* command line that is looked for.
Visible == {s \in Starters : proc[s] = "running"}

WorkerTypeOK ==
    /\ startPc \in [Starters -> {"idle", "looked", "forking", "spawned", "waiting",
                                 "ended", "signaled", "killed"}]
    /\ detached \in [Starters -> BOOLEAN]
    /\ proc \in [Starters -> {"none", "forked", "running", "failed", "dead"}]
    /\ termed \subseteq Starters
    /\ stopPc \in {"idle", "found", "polling", "over", "nobody"}
    /\ stopFound \in Starters \cup {Nothing}
    /\ session \in [Starters -> {Nothing, "now", "before"}]
    /\ statusPc \in {"idle", "healthy", "ready", "over"}
    /\ answered \in Starters \cup {Nothing} /\ health \in {"ok", "bad"}
    /\ claimed \in BOOLEAN /\ served \in BOOLEAN /\ note \in BOOLEAN
    /\ sendPc \in {"idle", "named", "checked", "posted", "refused"}
    /\ sendName \in {CustomName, DefaultName}

WorkerInit ==
    /\ startPc = [s \in Starters |-> "idle"]
    /\ detached \in [Starters -> BOOLEAN]
    /\ proc = [s \in Starters |-> "none"] /\ termed = {}
    /\ stopPc = "idle" /\ stopFound = Nothing
    /\ session = [s \in Starters |-> Nothing]
    /\ statusPc = "idle" /\ answered = Nothing /\ health = "ok"
    /\ claimed = FALSE /\ served = FALSE /\ note = FALSE
    /\ sendPc = "idle" /\ sendName = DefaultName

OnlyStart == UNCHANGED <<termed, stopVars, session, statusVars, sendVars>>
OnlyProc == UNCHANGED <<startVars, stopVars, statusVars, sendVars>>

StartGoes(s, pc) ==
    startPc' = [startPc EXCEPT ![s] = pc] /\ UNCHANGED detached

ProcGoes(s, p) == proc' = [proc EXCEPT ![s] = p]

Dies(s) == ProcGoes(s, "dead") /\ UNCHANGED <<termed, session>>

-----------------------------------------------------------------------------
(* worker start *)

\* No login, no agent binary or a bad option ends it, and so does a worker that
\* serves the directory, which is reused.
Look(s) ==
    /\ startPc[s] = "idle" /\ UNCHANGED proc /\ OnlyStart
    /\ StartGoes(s, "ended") \/ (Visible = {} /\ StartGoes(s, "looked"))

\* _run_subprocess: Popen, in a session of its own, returns once the child has become
\* the worker or has failed to.
Fork(s) ==
    /\ startPc[s] = "looked" /\ ~detached[s]
    /\ StartGoes(s, "forking") /\ ProcGoes(s, "forked") /\ OnlyStart

PopenReturns(s) ==
    /\ startPc[s] = "forking" /\ proc[s] # "forked"
    /\ StartGoes(s, IF proc[s] = "failed" THEN "ended" ELSE "spawned")
    /\ UNCHANGED proc /\ OnlyStart

InstallHandlers(s) ==
    /\ startPc[s] = "spawned"
    /\ StartGoes(s, "waiting") /\ UNCHANGED proc /\ OnlyStart

WaitReturns(s) ==
    /\ startPc[s] = "waiting" /\ proc[s] = "dead"
    /\ StartGoes(s, "ended") /\ UNCHANGED proc /\ OnlyStart

\* _spawn_detached_worker: the pid is read from the pipe, written to the pid file and
\* reported, whether or not the grandchild becomes the worker; a failed fork raises.
Detach(s) ==
    /\ startPc[s] = "looked" /\ detached[s]
    /\ StartGoes(s, "ended") /\ OnlyStart
    /\ UNCHANGED proc \/ ProcGoes(s, "forked")

\* Variant: the wrapper takes the signal itself while it waits.
SignalWrapper_Untrapped(s) ==
    /\ startPc[s] \in {"looked", "forking", "spawned", "waiting"}
    /\ StartGoes(s, "signaled") /\ UNCHANGED proc /\ OnlyStart

\* SIGTERM or SIGINT to the wrapper: it ends it, unless the handlers are installed,
\* which send it on to the group of the worker.
SignalWrapper(s) ==
    /\ \/ /\ startPc[s] \in {"looked", "forking", "spawned"}
          /\ StartGoes(s, "signaled") /\ UNCHANGED termed
       \/ /\ startPc[s] = "waiting" /\ proc[s] = "running"
          /\ termed' = termed \cup {s} /\ UNCHANGED startVars
    /\ UNCHANGED <<proc, stopVars, session, statusVars, sendVars>>

\* SIGHUP, SIGQUIT or SIGKILL, which no handler is installed for, ends the wrapper at
\* any time; the worker has a session of its own and is not reached.
KillWrapper(s) ==
    /\ startPc[s] \in {"looked", "forking", "spawned", "waiting"}
    /\ StartGoes(s, "killed") /\ UNCHANGED proc /\ OnlyStart

\* The child calls execvp.
Exec(s) ==
    /\ proc[s] = "forked" /\ \E p \in {"running", "failed"} : ProcGoes(s, p)
    /\ UNCHANGED <<termed, session>> /\ OnlyProc

\* A worker ends by itself, on SIGTERM if it heeds it, or when it is idle long enough.
WorkerEnds(s) ==
    /\ proc[s] = "running" /\ Dies(s) /\ OnlyProc

-----------------------------------------------------------------------------
(* worker stop *)

StopGoes(pc, s) == stopPc' = pc /\ stopFound' = s

OnlyStop == UNCHANGED <<startVars, statusVars, sendVars>>

Find ==
    /\ stopPc = "idle" /\ UNCHANGED <<procVars, session>> /\ OnlyStop
    /\ \/ \E s \in Visible : StopGoes("found", s)
       \/ Visible = {} /\ StopGoes("nobody", Nothing)

\* getpgid and killpg; the worker may have gone since it was found.
Term ==
    /\ stopPc = "found" /\ UNCHANGED <<proc, session>> /\ OnlyStop
    /\ IF proc[stopFound] = "running"
       THEN StopGoes("polling", stopFound) /\ termed' = termed \cup {stopFound}
       ELSE StopGoes("over", stopFound) /\ UNCHANGED termed

Polled ==
    /\ stopPc = "polling" /\ proc[stopFound] = "dead"
    /\ StopGoes("over", stopFound) /\ UNCHANGED <<procVars, session>> /\ OnlyStop

\* Variant: the end of the grace period is the end of the command.
GraceExpires_Leaves ==
    /\ stopPc = "polling" /\ UNCHANGED <<procVars, session>>
    /\ StopGoes("over", stopFound) /\ OnlyStop

\* --grace seconds later: SIGKILL, which a worker that is already gone does not mind.
GraceExpires ==
    /\ stopPc = "polling" /\ StopGoes("over", stopFound) /\ OnlyStop
    /\ IF proc[stopFound] = "running" THEN Dies(stopFound)
       ELSE UNCHANGED <<procVars, session>>

-----------------------------------------------------------------------------
(* worker status: three requests to the management server of a worker *)

OnlyStatus == UNCHANGED <<startVars, procVars, stopVars, sendVars>>

SessionMoves(s) ==
    /\ s \in Visible /\ statusPc # "over"
    /\ session' = [session EXCEPT ![s] = IF @ = "now" THEN "before" ELSE "now"]
    /\ UNCHANGED statusVars /\ OnlyStatus

Unreachable ==
    /\ statusPc \in {"idle", "healthy", "ready"} /\ Visible = {} /\ statusPc' = "over"
    /\ UNCHANGED <<answered, health, claimed, served, note, session>> /\ OnlyStatus

Answers(s, pc) ==
    /\ s \in Visible /\ answered' = s /\ statusPc' = pc /\ UNCHANGED session /\ OnlyStatus

AskHealth(s) ==
    /\ statusPc = "idle" /\ Answers(s, "healthy")
    /\ health' \in {"ok", "bad"} /\ UNCHANGED <<claimed, served, note>>

\* An answer that cannot be parsed claims nothing.
AskReady(s) ==
    /\ statusPc = "healthy" /\ Answers(s, "ready")
    /\ claimed' \in {FALSE, session[s] = "now"} /\ UNCHANGED <<health, served, note>>

\* A gauge in the metrics; it may be missing, as all are if the request is refused.
Gauge(up) == {"missing", IF up THEN "up" ELSE "zero"}

\* Variant: a worker without a session now is a worker without a session.
IsWorkerIdle_NowOnly(active, last) == health = "ok" /\ ~claimed /\ active # "up"

\* _is_worker_idle: not claimed, and no gauge that tells of a session or of activity.
IsWorkerIdle(active, last) == health = "ok" /\ ~claimed /\ active # "up" /\ last # "up"

AskMetrics(s) ==
    /\ statusPc = "ready" /\ Answers(s, "over") /\ UNCHANGED <<health, claimed>>
    /\ \E active \in Gauge(session[s] = "now"), last \in Gauge(session[s] # Nothing) :
           served' = (last # "missing") /\ note' = IsWorkerIdle(active, last)

-----------------------------------------------------------------------------
(* worker dispatch *)

OnlySend == UNCHANGED <<startVars, procVars, stopVars, session, statusVars>>

\* The name of the first worker found in the directory, or the default name.
Name ==
    /\ sendPc = "idle" /\ sendPc' = "named" /\ OnlySend
    /\ \/ \E s \in Visible : sendName' = WorkerName(s)
       \/ Visible = {} /\ sendName' = DefaultName

\* check_self_hosted_worker_exists: an unregistered worker and any error refuse it;
\* without a key the inventory is not asked.
CheckOutcomes == {"refused", "checked"}

\* Nor does a dispatch go on without a JWT.
Enforce ==
    /\ sendPc = "named" /\ sendPc' \in CheckOutcomes
    /\ UNCHANGED sendName /\ OnlySend

\* _dispatch_to_popolad: the daemon may not run, or may refuse the dispatch.
SendOutcomes == {"posted", "refused"}

\* --print-only counts as posted.
Send ==
    /\ sendPc = "checked" /\ sendPc' \in SendOutcomes
    /\ UNCHANGED sendName /\ OnlySend

-----------------------------------------------------------------------------
\* No start and no stop is at work.
WorkersOver ==
    /\ \A s \in Starters : startPc[s] \in {"ended", "signaled", "killed"} /\ proc[s] # "forked"
    /\ stopPc \in {"over", "nobody"} /\ UNCHANGED workerVars

StartStep(s) ==
    \/ Look(s) \/ Fork(s) \/ PopenReturns(s) \/ InstallHandlers(s) \/ WaitReturns(s)
    \/ Detach(s) \/ SignalWrapper(s) \/ KillWrapper(s) \/ Exec(s) \/ WorkerEnds(s)

StatusStep(s) == SessionMoves(s) \/ AskHealth(s) \/ AskReady(s) \/ AskMetrics(s)

WorkerNext ==
    \/ \E s \in Starters : StartStep(s) \/ StatusStep(s)
    \/ Find \/ Term \/ Polled \/ GraceExpires
    \/ Unreachable
    \/ Name \/ Enforce \/ Send
    \/ WorkersOver

WorkerSpec == WorkerInit /\ [][WorkerNext]_workerVars

-----------------------------------------------------------------------------
(* Properties *)

\* A stop that is over leaves no worker running that it found, however the worker
\* treats SIGTERM and whoever else signals it.
StopMeansDead ==
    [][(stopPc # "over" /\ stopPc' = "over") => proc'[stopFound'] # "running"]_workerVars

\* A wrapper that has installed its handlers ends after its worker, whatever signals
\* stop and the user send to the two, if it is not one that it does not trap (SIGHUP,
\* SIGQUIT, SIGKILL).
WrapperOutlivesWorker ==
    [][\A s \in Starters :
          (~detached[s] /\ startPc[s] = "waiting" /\ startPc'[s] \notin {"waiting", "killed"})
          => proc[s] = "dead"]_workerVars

\* The note says that the worker has had no session.  The three answers are from three
\* moments, and perhaps from several workers: a session may come and go between them,
\* and what was said of one worker be taken for another.  All the same the note is true
\* of the worker that answered last, if that one has told of its last activity.
NoteIsTrue ==
    [][(~note /\ note' /\ served') => session[answered'] = Nothing]_workerVars

\* What stop, a wrapper and the note of status say of a worker is so.
WorkerIsAsSaid == StopMeansDead /\ WrapperOutlivesWorker /\ NoteIsTrue

\* USER_GUIDE.md:1077: killing the wrapper cascades to the worker.
WrapperSignalCascades ==
    \A s \in Starters :
        (startPc[s] \in {"signaled", "killed"} /\ proc[s] = "running") => s \in termed

\* USER_GUIDE.md:1006: duplicate starts for one directory reuse the worker.
OneWorkerPerDirectory == Cardinality(Visible) <= 1

\* The note of worker status: "0 sessions claimed since worker started".
NoteMeansNoSession == note => session[answered] = Nothing
=============================================================================
