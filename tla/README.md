# PopolaLoom in TLA+

PopolaLoom is a daemon (`popolad`) that runs coding agents as *tasks*: a task is
a local subprocess of some CLI (claude, codex, cursor) or a run of the Cursor
cloud API. Clients talk to the daemon over a Unix socket; every task has an
in-memory handle, an NDJSON event log, and, when persistence is on, a row in
ArkTower's SQLite database. Around the daemon stand the commands of `popola`,
which share files, a keyring and the process table with it and with each other.
This directory holds the TLA+ modules that model them, the TLC runs that check
the modules and the theorems TLAPS proves. Paths below are relative to
`src/src/popolaloom/` unless they begin with a file of `src/`.

## 1. Inventory

| component | state | operations | hard behaviour | what makes it correct |
|---|---|---|---|---|
| Task lifecycle (`daemon/server.py`, `supervisor.py`, `state.py`, `graph.py`) | handles, the subprocess, a wait and a graph thread per task, ArkTower row and dispatch row | `dispatch_task`, `spawn`, `_wait_and_finalize`, `_on_subprocess_exit`, `cancel_task`, `_soft_cancel_orphan`, `rehydrate_from_persistence` | every operation is a sequence of separate critical sections; cancel, exit and graph threads interleave; crash between any two steps | one terminal event; it agrees with what happened; a restart neither forgets nor invents tasks |
| Cloud tasks (`daemon/cloud_poller.py`, `server.py`, `supervisor.py`) | phase and state of the handle, remote run | spawn, poll loop, cancel by POST, seeding of the handle | cancel against poll; seed against cancel; errors, limits | one bracket per run, final state matches it |
| Event log (`daemon/event_log.py`, `rpc.py`) | file, user-space buffer, fsync worker, streams | `append`, `fsync`, `tail`, `attach_stream` | a crash loses the buffered suffix and tears a line; readers flush and read in two steps | order kept, nothing skipped, events reach the disk |
| Pending-dispatch queue (`daemon/cloud_poller.py`) | FIFO per agent | enqueue, tick, issue, time-out, remove | head inspected and popped in two steps; stale run id | each entry is issued or failed once and does not wait for ever |
| Output of a task (`daemon/supervisor.py`) | pipes, drain threads, timer registry | drain, silence timer, joins, terminal event | children keep the pipes open; timer registered after the threads it watches | the terminal event comes last, or the log says what was cut |
| HITL (`hitl/cloud_bridge.py`, `hitl/sync.py`, `mcp/cloud_hitl_tool.py`, `daemon/rpc.py`) | rows of questions, cards, audit trail | ask, join, wait in slices, time out, answer by four channels | answers against each other and against the deadline | one answer wins, log and callers agree, calls end |
| Lark listener (`lark/listener.py`, `lark/supervisor.py`) | child process, restart count | start, watch, restart, escalate, stop | awaits between look and act | a death ends in a running process or an escalation |
| Primitives (`daemon/primitives/`, `rpc.py`) | children of a request, subscriptions | `/relay`, `/federate`, `/supervise`, vote | some children fail, callbacks raise | the answer names the children that run |
| Handoff envelopes (`handoff/`, `cli/handoff_cmd.py`) | `<id>.md`, its `.tmp`, the archive | write, replay, archive | crash or full disk between two steps; one id for several dispatches | a reader gets a whole envelope |
| Dispatch of a cloud task (`cli/main.py`, `adapters/cursor_cloud.py`, `supervisor.py`) | options, preferences, request | five stages that each decide on target and transport | a later stage undoes an earlier decision | no silent fallback |
| Client of the Cursor API (`adapters/cursor_cloud.py`) | retry loop, reader of the stream | request, classify, wait, dedup | quota, Retry-After, repeated frames | retries what may pass; prints a frame once |
| Following a task (`cli/main.py`) | two threads, stop event | attach, pump, join | a read that blocks for ever | the command leaves |
| Relay of a follow-up (`cli/relay_cmd.py`, `relay/`) | audit log | scan, gate, idempotency, POST, record | death between announcement, POST and record | every request is accounted for |
| Self-hosted worker (`cli/cloud_worker_cmd.py`) | process table, worker sessions | start, stop, status, dispatch | look and act apart; signals at any point | stop stops, no orphan, true status |
| Preferences (`cli/init_cmd.py`, `daemon/main.py`) | `popolad.toml` | set, wizard, reset, migrating load | read-modify-write without a lock, in place | an edit keeps what it does not name |
| Credentials (`credentials.py`, `cli/auth_cmd.py`, `cli/popolad.py`) | keyring, fallback file, metadata | set, clear, init, three look-ups | two stores per command; different orders of look-up | look-ups agree, metadata follows the keyring |
| The daemon as a process (`cli/popolad.py`, `daemon/main.py`) | pid file, socket | start, reload, stop | crash, hang, stale files | one daemon, and it can be reached |
| Update and skills (`evolution/self_update.py`, `skill_*.py`, `cli/update_cmd.py`, `skill_cmd.py`) | wheel, skill files, markers | update, install, upgrade, uninstall | old code after a new wheel; partial writes | exit 0 means done |
| Persistence (`daemon/repository.py`, `checkpoint.py`, `_vendored/arktower/store`) | SQLite rows | insert, update, read | crash between two commits | row and log agree after a restart |
| Others (section 6) | little or none | delegation, presentation, off-line scoring | - | - |

How they interact: an RPC handler calls `Popolad` on a thread of
`asyncio.to_thread`; `Popolad` writes the envelope, registers a handle in
`StateStore`, opens the event log, calls `Supervisor.spawn`, which starts the
drain and wait threads, and starts a graph thread. The wait thread reports back
through the `on_exit` callback, which writes `StateStore` and sets the event the
graph thread waits for. `cancel_task` shares the handle, the log and the process
with all of them. The only synchronisation is one lock inside `StateStore` and one
per log, each held for a single call. The commands hold no lock at all.

## 2. Modules

| module | what it is |
|---|---|
| `TaskLifecycle`, `TaskContract` | local tasks: dispatch, wait thread, graph thread, cancel, crash, restart; and what popolad promises to those who look at handle and log |
| `CloudTask` | cloud tasks: spawn and seed, poll loop, exit callback, cancel |
| `EventLog` | the log of one task: writer, fsync worker, `attach_stream`, crashes |
| `BusyQueue` | the queue of follow-ups to a busy agent and its drainer |
| `Output` | what a local task prints: drains, silence timer, joins, terminal event |
| `Hitl`, `HitlContract` | questions to humans, and what the services promise about them |
| `LarkListener` | the Lark child process and its watchdog |
| `Primitives` | relay, federate, vote, subscriptions |
| `Handoff` | the envelope file of a dispatch and its archive copy |
| `CloudDispatch` | from the command line to an agent at Cursor |
| `CloudRequest`, `CloudStream` | one request with its retries; the reader behind `attach --follow` |
| `Relay`, `Worker`, `Prefs`, `Credentials`, `DaemonProcess`, `SelfUpdate` | the commands of these names |
| `MCTaskLifecycle`, `MCRemote`, `MCServices`, `MCClients` | the modules TLC runs |
| `TaskLifecycleProofs`, `CancelProofs` | the theorems about local tasks |
| `CloudTaskProofs`, `HitlProofs`, `HandoffProofs`, `OutputProofs` | those about the modules of these names |
| `ServicesProofs` | those about `BusyQueue`, `EventLog`, `CloudStream`, `LarkListener`, `Primitives` and `MCServices` |
| `ClientProofs` | those about the parts of `MCClients` and about their joint exploration |

**Parts.** Components that share no state are checked in one run, one at a
time: `MCRemote` (`CloudTask`, `Hitl`), `MCServices` (`EventLog`, `BusyQueue`,
`CloudStream`, `LarkListener`, `Output`, `Primitives`, `Handoff`) and `MCClients`
(the rest) have a variable `part` that names the one that moves; the others stay
in an initial state. This loses no behaviour of a part, and since a property
speaks of one part only, none of a product either; the states add up instead of
multiplying. Fairness is that of each part, conditioned on `part`.

**Where modules meet.** `TaskLifecycle` and `CloudTask` see the log as a
sequence; `EventLog` opens it up and sees the rest of the daemon as threads that
append and, at some point, make the handle terminal. `EndedSawAll` (a stream
that ends has sent what was appended before) and `KeepsTaskContract` (the handle is
COMPLETED or FAILED only after the log has told the end, `VerdictBeforeState`) together say that
a client sees the verdict of a task that ends by itself. `Output` puts the verdict
in its place behind the output. `CloudRequest` says which errors the poll loop of
`CloudTask` sees as errors to retry. `CloudDispatch` ends where `CloudTask` begins.

In every module, operators with a suffix (`CancelMark_Late`, `Rename_Always`, ...)
are variants of a definition that a mutation run puts in its place to show that a
property notices the change; no specification uses them. Properties under a
heading such as "what comments claim and the code does not keep" are those of
section 5.

### TaskLifecycle

One action is one access to something shared (the store, a log, the process
table, the database), together with the local work around it; so the actions
interleave exactly where the threads of the daemon may. Program counters:
`dpc[t]` is `dispatch_task` (row created, handle registered, spawned, pid
written, dispatch row recorded and graph thread started; `raised` when Popen
raises, `lost` when the daemon died in the call); `wpc[t]` the wait thread
(`waiting` in `proc.wait`, `reaped`, `resolved`, `emitted`, `exit_read`, `done`);
`gpc[t]` the graph thread; `cpc[c]` one cancel request inside `cancel_task`, with
the grace window for ids that start with `cursor-` and the soft cancel of a row
that belongs to nobody. `store`, `hasPid` and `escalated` are fields of
`TaskHandle`; `ark` and `row` the ArkTower row and the `popola_dispatch` row;
`child`, `reaped` and `sig` the process as the kernel sees it (a zombie still
answers `os.kill(pid, 0)`); `log` the event log projected on the `task.*` and
`popolad.*` events, `durable` how much of it has reached the file.

Simplifications: pids are not reused; a handle missing at exit is not modelled
because nothing deletes handles; rehydrate runs before the daemon serves requests
and is one step; a request the guards refuse is no step; payloads, workspaces,
notifications and output are left out.

`TaskContract` is what of all this a client may rely on: per task what the handle shows, how
the process ended, whether a cancel was asked for, which end the log tells and whether somebody still
watches; no threads, no buffers, no rows. It promises it of the tasks that have a log of their own
(`Plain`: neither foreign rows nor `cursor-` ids). An end is told once, by the watch, after the process has ended and true to how it
ended or to a cancel; only then the handle settles, on the end told or on the state that a cancel gave it; a
crash may lose what was told and who asked, never invents it; a restart shows only what has had a
process. Two of its branches are the failures that the code does not contain: where a graph
thread may die (`GraphMayDie`) the handle may say FAILED at any time and a settling may contradict a told
cancel, and where `proc.wait` may raise (`WaitMayRaise`) an end may be told of a running process. In
`KeepsTaskContract` these are `"graph" \in Faults` and `"wait" \in Faults`, and the rest of the mapping is
`ProcessOf`, `AskedFor` (a request past its mark, or a signal that outlived a crash), `Told` and `WatchOf`.

### CloudTask

One cloud task; cloud tasks share nothing. `path` says how it is spawned: `rest`
(`create_agent`, then a poll thread) or `jwt` (Path-B, whose run nobody polls).
`spc` is `_spawn_cloud`; `ppc`, `body`, `polls`, `attempt`, `result` the poll loop,
where an answer is stored in a later step than it is got, errors are retried up to
`RetryMax` and `MaxPolls` ends the loop; `xpc`, `sawCanceled` the exit callback,
reading and writing in two steps; `cpc[c]` a cancel request with its grace window,
the POST with three outcomes (accepted, 409, error), the mark and the event;
`remote` the run at Cursor: external, it moves by itself and may hang. When the reply to a create
got lost, the run exists all the same.

Simplifications: one run per task (follow-ups are in `BusyQueue`); the SSE reader,
which only wakes the poll loop, and repeated `cloud.run_status` events are left
out, as is the recovery of cloud tasks after a restart.

### EventLog

Events are numbers in the order of `append`. `lines` and `half` are the file:
complete lines (0 is a line that is no JSON) and the part of a line a full buffer
has left behind it; `buf` is the user-space buffer, `synced` what `os.fsync` has put
on disk. A stream (`fpc`, `since`, `cursor`, `got`) flushes under the lock of the
log, reads the file without it, looks at the handle, and reads once more when that
is terminal. A crash is of the daemon (the file stays, the buffer is gone) or of the
machine (what was not synced may go), and includes the start of the next daemon,
whose first event is glued to the part of a line it finds.

Simplifications: the block size and the length of events are left open, so any
append may spill any part of the buffer; a part of a line is unreadable even if
only its newline is missing; a stream that a UnicodeDecodeError breaks off is a
client that is gone.

### BusyQueue

One agent and its deque; its runs are numbered, only `latest` can be active.
`epc[d]` is `enqueue_dispatch`, `tpc[k]` and `head[k]` a tick of the drainer (peeked and
looked at the deadline, polled, popped, issued, recorded), `fate[d]` what came of an
entry; `lost` is one that a tick popped although it had peeked at another. The
clock is an action per entry. Nothing in the daemon creates a drainer yet: the
module is about the class.

### Output

The two drain threads (a line is appended, then the timer is cancelled), the
timer, which `spawn` registers after it has started the threads and which claims its
entry before it writes its note, and the wait thread: cancel the timer, join each
drain for 30 s at most, append the terminal event. `pipe[s]` stays open as long as
some child holds it, so output may go on after the process has exited. A drain whose read raises (a line that
is not UTF-8) appends `process.stream_error`, reads no more and ends; a wait that raises appends a terminal event that
names the error ("blind") and joins nobody. `TerminalAfterOutput` is about the other terminal event ("verdict") and takes
`stream.truncated` and `process.stream_error` as notes that a stream is not complete. Simplification: the log itself can be written.

### Hitl and HitlContract

All calls ask the same question within one idempotency window, so they compete
for one row. `callPc` goes through lookup, create, metadata, card, reply, and then the
wait in slices: a look at the row, a timeout if it is overdue, a second look by the
endpoint. The answers come by a click on the card, by a text in the chat, and by two
endpoints; each ends in the same compare-and-swap and its own audits. The buttons
of a v1 card carry no option, so the listener drops a click on it. `HitlContract` is
what a reader of the documentation expects: a question is decided once, each human
is told whether it was by that answer, no call reports another end.

Not modelled: `process_timeout`, `cancel_other_channels`, `append_lark_event_id` and
`list_overdue` (no callers), the mutators of cards, the end of the idempotency window, the
defence against an answer that names the wrong task.

### LarkListener

One event loop, so an action is what a coroutine does between two awaits:
`startPc` (spawned, waiting for the first line), `watchPc` (sleeping, restarting),
`stopping`. `readySeen` is an event that nothing clears, so a second process would count
as ready at once.

### Primitives

A behaviour serves one request. A child's dispatch is refused, raises half-way, or runs; `childIds` and
`dispatchErrors` are the two collections that `/federate` fills as it goes and answers with.
`TallyVotes` is `tally_votes` over the outputs in their order: `Voting` are the positions of those that count. `registry`, `due` and
`fired` are the subscriptions, the copy a report made of them, and the calls. Nothing in the
daemon calls `tally_votes`, `on_child_terminal` or `unsubscribe`; they are modelled as the library
they are.

### Handoff

All dispatches have the same id, hence the same `<id>.md` and `<id>.md.tmp`; files
(inodes) are told apart from the names that refer to them, so a writer goes on writing
to a file whose name has moved. A text is whole (named by the dispatch whose
directory it holds), a part, or parts of two. Any step may fail, a failed writer
unlinks `.tmp`, and the daemon may die anywhere.

### CloudDispatch, CloudRequest, CloudStream

`opt` enumerates what the user may give that the decisions depend on; `stage` leads
through the client, the adapter, the supervisor and the request; each stage has its refusals.
`agents` is what Cursor runs in the end, with the machine its request names and whether Cursor keeps to it
(`exact`): over path B it takes any worker of the pool (`main.py:2577-2585`), and `warned` says that the command has
printed so. At most two options differ from one of three command lines: a plain one, one that names a self-hosted worker,
and the replay of an envelope of such a dispatch. The wizard is reduced to the options it can
produce and the preflight to its outcomes.

`CloudRequest` has `_ERROR_CATALOG` and `_map_http_error` as they are (status, code, pattern of the
message), and the loop with its delays and the quota events. The delays are numbers of ms without
jitter.

`CloudStream` is the pump with its LRU of frame ids and the summary of drops, and the
main thread with `stop_event` and the join of two seconds. Frames may come again and
may have no id.

### Relay, Worker, Prefs, Credentials, DaemonProcess, SelfUpdate

* `Relay`: processes that issue one command (a retry, or two at once) with the audit
  file between them. A row may be lost to the disk, torn by a kill, glued to the next, and left
  behind by the idempotency window (`aged`).
* `Worker`: starts (wrapper or detached fork), stop, status and dispatch act on what they saw in the
  process table; only a process that has become the worker is seen there. `session[s]` is what has run on each worker. The
  three requests of `status` are three moments and may reach different workers, and any gauge may be missing in the
  metrics, which the code takes for idle. SIGTERM and SIGINT reach the worker through a wrapper that has its
  handlers; SIGHUP, SIGQUIT and SIGKILL end any wrapper and leave the worker in its session (`KillWrapper`).
* `Prefs`: the file is truncated and written in two steps; a load migrates the flat form.
  The file is reduced to its form, a preference the wizard asks for, one it does not, and
  whether the other sections are there.
* `Credentials`: keyring, fallback file and metadata (with its one temporary file), and the three
  look-ups as operators. Verification of the key against the API is an outcome. A disk that fails ends a set or an init
  with a traceback ("failed") and a clear with a line in the log ("warned"): its output and exit status are those of success.
* `DaemonProcess`: daemon `c` is the one command `c` spawns; it goes through unlinked, written,
  configured, serving, ending, removing. A crash leaves its files; its pid may be reused. Behind a dead pid `stop` removes
  both files, `start --reload-env` neither.
* `SelfUpdate`: one command after another; a command keeps the version it was started with while
  pip replaces the wheel. The target claude is left out: it has the scopes of cursor.

## 3. Runs

Deadlock is not checked in any run: a daemon whose tasks, requests and streams are
finished waits for work, commands end, and the models stop there.

| run | bounds | what it shows |
|---|---|---|
| `cancel` | 1 task, 2 cancel requests, failing Popen and dispatch row, `FairSpec` | a death by the daemon's signal is never reported as a failure; the SIGKILL of a sole request is reported; a returned cancel stays CANCELED; store follows verdict; a signaled task gets its terminal event even if it ignores SIGTERM; the exit ends the graph thread |
| `faults` | 1 task, 2 requests, 1 crash; `proc.wait` and the graph may fail | at most one terminal event per log; the life of a local task implements `TaskContract` |
| `crash` | a `cursor-` task and a foreign row, 1 request, 2 crashes, failing row creation and Popen | no handle is revived that was never spawned; no returned dispatch is forgotten |
| `remote` | both paths, 2 requests, 2 polls of 2 attempts, every failure; 2 questions, 2 answers, every channel; fair | cloud: one bracket per run; an accepted cancel is never reported completed; the store follows the run; on Path-B terminal is final; the poll loop ends. HITL: refinement of the contract, the trail tells the end, calls end |
| `services` | see below, fair | log: what is sent is what was written, an ended stream saw all, events are synced; queue: an entry is in one place and leaves the queue; stream: no frame twice while remembered, attach leaves; Lark: a death is answered; output before verdict; primitives answer truly; an undisturbed envelope is whole |
| `clients` | see below | no silent fallback; retries; one reachable daemon; relays accounted for and not repeated; exit 0 means done; an undisturbed edit is atomic; worker and keys are as said |
| `two_cancels`, `revived`, `cursor`, `cloud_revived`, `key_order`, `update_exit` | smallest instance each | the disagreements of section 5 |

`PrimitivesAnswerTruly` is the conjunction of `VoteIgnoresOrder`, `EveryoneIsTold` and
`AnswerNamesTheChildren`; `WorkerIsAsSaid` that of `StopMeansDead`, `WrapperOutlivesWorker` and
`NoteIsTrue`; `KeysAreAsSaid` that of `ChainsAgree` and `MetadataFollowsKeyring`.
`ServicesTypeOK` and `ClientsTypeOK` join the type invariants of their parts; those of the modules with
proofs are theorems, and the queue's and the retry loop's hold bounds that a bug would exceed.

Why these bounds are enough. Tasks share nothing but the daemon's life, so one task
shows every race between its own threads (`crash` has two rows because foreign rows
take other branches). Two requests are what a second cancel needs to interfere with a
first; two crashes let a restart meet the result of an earlier restart. Of the cloud
polls one keeps the loop going and one meets the limit, of the attempts one is
retried and one is the last. Two questions let one call join the other's row or race it for a
row of its own, and two answers compete. `services`: 4 events and 2 crashes give one event before,
between and after two torn lines and one to be sent twice, and one stream is enough because streams
meet only in the flush, which the fsync worker does as well; two queue entries are a head and the one
that is popped in its place; 5 frames of 3 ids against an LRU of 2 let a frame be forgotten and one be
remembered because it came again; `MAX_RESTARTS` has its real value 3, with as many processes as it takes
to reach it; one line per stream is read in time or too late; four CLIs are one more than the least a
federation takes; three dispatches of one envelope are two that collide and one that finds the result. `clients`: two
retries are the first and the last, `Retry-After` exceeds the cap; three commands start a daemon,
kill or restart it, and look at what is left; two editors, keepers, relays and starters are the pairs that races
need; two versions and two commands are an update that is interrupted and one that follows.

Fairness. In `TaskLifecycle` and `CloudTask` the threads of the daemon are operating
system threads, none holds a lock across a blocking call, so each that can step
eventually does; a cancel request is fair only once it is inside the call. The kernel ends a
process that was sent SIGKILL. Nothing is assumed about a process that runs or has
received SIGTERM, or about the run at Cursor. API calls return, if only with an error (the
clients have timeouts). In `EventLog` the fsync worker wakes up every second and the event
loop gets back to each stream. In `BusyQueue` the drainer ticks and time passes. In
`Hitl` handlers run on and deadlines pass; humans and the tool's own budget owe nothing. In
`CloudStream` the daemon's stream ends with the task and a join with a timeout returns; Cursor's own
stream owes nothing. In `LarkListener` the watchdog's sleep ends and a restart is carried on. Commands
may be killed at any time, so `MCClients` assumes no fairness.

## 4. Theorems

`TaskLifecycleProofs`, for every number of tasks, requests and crashes, every
subset of faults and both dispatch paths:

* `TypeCorrect` - `Spec => []TypeOK`.
* `AtMostOneVerdict` - `Spec => []OneVerdict`. `OneVerdict` is not inductive: that
  there is one verdict says nothing about whether a second is on its way. `VerdictInv`
  adds what rules it out: a wait thread exists only for a task that was spawned
  in this life of the daemon and before its dispatch can be repeated; until the
  thread has passed `emitted` the log holds no verdict; a task whose dispatch has not
  come to the spawn has none, and a crash, which cuts a suffix and ends
  the wait thread, cannot bring either back. The cancel paths that append a verdict
  (grace window and soft cancel) need a `cursor-` id or a foreign row, of which `OneVerdict`
  does not speak.

`CancelProofs` goes on from there with the cancel and the restart. The six invariants that the
`cancel` and `crash` runs check, and `VerdictBeforeState`, follow from one, `LifeInv`:

* `RestartsAreNoGhosts` (`NoGhostRunning`) and `DispatchesSurvive` (`DispatchSurvives`, where
  the insert of a dispatch row does not fail) rest on `Books` (how far a dispatch is bounds what the store, the
  process table and the rows say), `Dead` and `Recorded` (what a restart finds).
* `SignalDeathsAreCanceled`, `SoleSigkillsAreReported`, `StoreFollows`, `VerdictsComeFirst`,
  `CancelsStick` rest on `Process` (a signal reaches running processes only), `Marks` and
  `Escalates` (where a request is, its mark is already on the handle, unless the exit
  callback was under way), `Signals` and `Kills` (who was hit by a signal is marked until the verdict is chosen),
  `Outcome` and `Written` (from the choice of the verdict to the last write).

Their hypotheses are facts about the code, not conveniences: a graph thread that dies of an exception writes FAILED
over whatever the handle says (`server.py:2039`), and a `proc.wait` that raises lets the exit callback run while the
process lives; without them the five are false, and the runs check them without these faults. Each
is stated as `Spec => [](hypothesis => property)`, the hypothesis being about the constant `Faults` alone.

`KeepsPromises`, `Spec => KeepsTaskContract`, has no such hypothesis: the contract itself says what each failure
may do. `ContractInv` adds to `LifeInv` what relates the handle, the exit code and the log: `Handle` (a pid or a thread has a
handle), `Witness` (the exit code that the wait thread has got is that of the process), `Called` (whatever says
canceled says so because of a request) and `Telling` (from the append on the log tells the verdict of the
wait thread and no other). A first group of lemmas says how a step that concerns one task is seen by the contract (`SeenOf`,
`Unseen`, `ThreadFrame`); then there is one for each action of the contract, with what has to hold for a step to be that action, and one for each
kind of step of the daemon: the dispatch is `Accept`, `Start` or nothing that can be seen, `WaitEmit` is `Tell`,
`ExitUpdate` is `Settle`, the mark and the end of a cancel are `Ask`, and so on. The run `faults` checks the
branches with failures on one task; the theorem holds without them as well.

`CloudTaskProofs`, for any set of cancel requests, any limits, faults and paths:
`CloudTypeCorrect`, which holds the two limits of the poll loop; `RunIsBracketed`
(`RunBrackets`), `AcceptedCancelHolds` (`AcceptedNeverCompletes`), `StoreIsRight` (`StoreFollowsRun`),
`GraceWaitsForSeed`, `SeedIsFirst`, and the action property `PathBIsFinal`
(`PathBTerminalIsFinal`). `IInv` has one part per actor: `SpawnStage` (a poller and a posting request
exist only after the seed, so there is no result before it), `PollStage` (what a
poll has read of a run that ended stays true), `ExitStage` (from the end of the loop on the
callback and the cancel marks are the only writers; a CANCELLED run has CANCELED in
the store before the callback reads it), `CancelStage` (an accepted post ended the run) and
`LogStage` (which events the log holds at which point of the loop). Each part is shown to
be kept by every action in a lemma of its own, from the parts it needs.

`HitlProofs`, for any calls, humans, channels and faults: `HitlTypeCorrect`;
`FirstAnswerWins` (`OneWinner`: one winner among the answers, the one the row keeps and every call
reports; the run checks it through the contract); `TrailIsRight` (`TrailTellsTheEnd`); and
`ImplementsContract`: `HitlSpec => KeepsContract`, the refinement, where every step of the services
is a step of `HitlContract` or a stutter under the mapping `Outcome`, `About`, `Reply`. The
inductive invariant joins `HitlTypeOK` with `RowStage` (what a row's status says of its answer, and
that a row exists once its call is past `missed`), `CallStage` (what a call at each point has in hand, and
that what it reports is in the row), `HumanStage` (who was told "ok" is whom the row names)
and `TrailStage` (an audit of an end is written by the one who has made it, once).

`HandoffProofs`, for any number of dispatches of one id: `HandoffTypeCorrect` and
`EnvelopeIsWhole` (`UndisturbedEnvelopeIsWhole`). That the target is whole is not
inductive: a writer might be writing to the very file. The invariant adds `OneInside` (as long as
dispatches were apart at most one is inside), `OwnFile` (its descriptor is the file called
`.tmp`, which holds its text once it is written), `Separate` (the two
names never refer to one file) and `Fresh` (a dispatch that has not begun owns no file).

`OutputProofs`, for any bound on the lines: `OutputTypeCorrect` and `VerdictIsLast`
(`TerminalAfterOutput`). The invariant adds `ClosedIsRead` (a drain that has closed has read
all that was ever written and no writer is left), `JoinsAreOver` (a join that is over has found its
stream closed, or the log says that it is cut), `FailuresAreSaid` (a drain that failed has said so) and `OneTerminal`
(no verdict before the wait thread is done), and reads the order off the places
an append adds to the log (`AppendedAt`).

`ServicesProofs`:

* `BusyQueue`, for any dispatches and faults: `QueueTypeCorrect`; `EntriesHaveOnePlace`, for any number of drainers; and
  `EntriesAreNotLost` (`OnePlace`), where there is one drainer, as in the comment of the property: two may
  each peek at the head the other pops. `QueueInv` says that the queue holds no entry twice, that no two ticks hold one
  entry, and which places exclude each other; `PeekInv` that what a lone tick has peeked at stays the head
  until it is popped or removed.
* `EventLog`, for logs of any length, any number of streams and crashes: `LogTypeCorrect`, `StreamsSkipNothing`
  (`SentAsWritten`) and `EndedStreamsAreComplete` (`EndedSawAll`). `LogInv` relates what a stream has sent to the
  lines up to its cursor, which is never more than the number of lines, and, from the final flush on, what is still in
  the buffer to the moment the handle became terminal.
* `CloudStream`, for any `LruMax` and any stream: `StreamTypeCorrect` and `FramesAreNotRepeated`
  (`SeenFramesAreDropped`). `PumpInv` says what the window holds: the ids in the order of their last arrival, and of an id that
  is not in it that at least `LruMax` others came since.
* `LarkListener`, for any limits: `LarkTypeCorrect`.
* `Primitives`, for any number of children, outputs and subscribers: `PrimitivesTypeCorrect` and `PrimitivesAreTrue`
  (`PrimitivesAnswerTruly`). `PrimitivesInv` has one part per request: `Noted` (ids and errors are those of the children
  dispatched so far), `HandOverInv`, `VoteInv` (the answer is the tally of the ballot) and `SuperviseInv` (who was called is who
  was told and is not still due). That a vote ignores the order is a fact about `TallyVotes`, `VoteInOtherOrder`: an order
  that takes every position is a bijection (`OrderIsBijection`), so each bucket keeps its votes (`OrderKeepsVotes`), and two
  disjoint buckets cannot both have more than half of them.
* `MCServices`: `ServicesAreParts`, a behaviour of the joint exploration is one of every part, so each theorem about
  a part holds of what the run explores; with the types of the parts, `ServicesTypeCorrect` (`ServicesTypeOK`).

`ClientProofs`:

* `DaemonProcess`: `DaemonTypeCorrect`, `OneDaemonIsReachable` (`OneReachableDaemon`). `ProcessInv` says for each point of a
  command (`CommandInv`) and for a moment without one (`Quiet`) which daemons live and whose the two files are.
* `Relay`, for any number of relays: `RelayTypeCorrect`, `RequestsAreAccountedFor`, `SuccessesAreNotRepeated`.
  `RelayInv`: what has been passed on the way to a point (`PastInv`), that a request has its row before it is posted
  (`AnnouncedInv`), that exit 0 means a row that says so (`SuccessInv`), and that a relay which started after such a row does
  not come near the request (`RetryInv`).
* `CloudRequest`, for any number of retries and delays: `RequestTypeCorrect`, `RetriesOnlyWhatMayPass`. The catalog is taken
  as it is, all 19 entries; `MappedRightly` is what it says of any status, code and message.
* `CloudDispatch`, for any local CLIs: `DispatchTypeCorrect`, `FallbacksAreNotSilent` (`NoSilentFallback`), by what
  each stage leaves in the extra fields (`WorkerInv`), whether the warning was printed where they name a worker and path B is
  taken (`WarnedInv`), and which CLI is on its way (`WantedInv`).
* `SelfUpdate`, for any number of versions and commands: `UpdateTypeCorrect`, `ExitZeroIsEarned` (`ExitZeroMeansDone`).
  `UpdateInv`: a place the command names is as it should be or still to be visited, and while its marker is being written its
  file is.
* `Worker`, for any number of starts: `WorkerTypeCorrect`, `WorkersAreAsSaid` (`WorkerIsAsSaid`). `WorkerProcInv`: a
  start that has not forked has no worker, and the one a stop has found had become a worker, which nothing undoes.
* `Prefs`, for any number of editors: `PrefsTypeCorrect`, `UndisturbedEditsAreAtomic` (`UndisturbedEditIsAtomic`).
  `EditInv` says what file and command hold at each point of an edit that nothing has disturbed (`AloneInv`), and that every
  content is well formed, without which a second migration would not be the identity.
* `Credentials`, for any commands and environments: `CredentialsTypeCorrect`, `KeysAreWhereSaid` (`KeysAreAsSaid`).
  `KeysInv`: while a command that no other overlaps is at work no other is, and keyring, temporary file and metadata are as
  far as it has come (`KeeperInv`). `ChainsAgree` compares the three look-ups in every state of the stores, so its proof
  (`ChainsAgreeAlways`) needs their types and definitions only; a daemon that relied on `popolad start` for the fallback file
  would break it (`DaemonEnv_FromStart`).
* `MCClients`: `ClientsAreParts` and `ClientsTypeCorrect` (`ClientsTypeOK`), as for `MCServices`.

TLC has checked each of these inductive invariants as an invariant of the instance before its proof.

Recursive functions and orders are reasoned about without an induction theorem: where a claim about all prefixes of a
sequence is needed (`KeptIsRight`, about what `tail` returns), the least counterexample is taken (`LeastNatural`, from the
well-foundedness of the natural numbers) and refuted.

The assumptions are those on the constants, all named and evaluated by TLC in the runs that extend the modules. Two
deserve a word: `LocalsAssumption` (the empty name and cursor-cloud are not local CLIs) is how the code tells them
apart, and `PowersAssumption` (powers of two are natural numbers) is no restriction but a fact of arithmetic that the
provers have no rule for.

Every invariant and every action property of a run is thus a theorem. The theorems speak of the specifications
without fairness, which those of the runs include. Only model-checked are the liveness properties (`CancelEnds`, `ExitEndsGraph`,
`PollEnds`, `CallEnds`, `SyncedInTheEnd`, `EntryEnds`, `AttachLeaves`, `DeathIsAnswered`): fairness and ENABLED are out
of the prover's reach. And what the six disagreements show is shown by TLC's counterexamples.

## 5. Where code and comments disagree

Six are runs that TLC ends with a counterexample; `PROJECT.json` quotes the line.

* `two_cancels` - a second request resets the escalation flag of the first: a SIGKILL goes unreported.
* `revived` - nothing advances the ArkTower row, so a finished task comes back as RUNNING.
* `cursor` - a local cursor task cannot be canceled: its id makes the daemon wait for a cloud handle.
* `cloud_revived` - a poll answered before the cancel and stored after it turns CANCELED into RUNNING.
* `key_order` - the fallback file that `popola init` writes begins with `export`, which `popolad start` takes for
  a part of the name; a key of the workspace is used instead.
* `update_exit` - an update that brought every skill to the new version exits 3: the doctor compares with the version
  of the old process.

Others are stated in their modules; TLC refutes them on the instances of section 3, but no run is kept for
them, or there is only the text:

* `EventLog!NoEventTwice` - after a torn line `tail` counts lines and `attach_stream` events, and
  events are sent twice (`event_log.py:240-255`, `rpc.py:1241`).
* `BusyQueue!PostFindsAgentIdle` - the drainer polls the run an entry was refused for, not the latest
  (`cloud_poller.py:531-532`, `:935`): the second of two entries is issued on a busy agent, refused and dropped.
* `Hitl!TimeoutIsTerminal` - an answer between the end of a slice and the second look is
  reported as a timeout (`rpc.py:412-421`, `cloud_hitl_tool.py:790-792`). `Hitl!ClickCounts` - the buttons
  of the v1 card carry no option, and the listener drops the click (`cloud_hitl_card.py:346-385`,
  `listener.py:408-414`, `src/docs/USER_GUIDE.md:333`). Lookup, create and persist are not atomic
  (`cloud_bridge.py:695-748`), so two calls may make two rows; `lark_dispatched` is never false
  (`cloud_bridge.py:765-784`).
* `LarkListener!DeathIsRestarted`, `EscalatedAfterRestarts` - no restart succeeds: `LarkListener.start` raises as long as
  `_state.proc` is set, and a process that died leaves it set (`listener.py:231-232`, `:294-297`), so the first death is
  escalated after three vain attempts. `lark/supervisor.py:3-7` and `src/docs/USER_GUIDE.md:58`, `:376` promise restarts, and
  `test_supervisor_watch_restart_then_alive` sees one, with a fake listener that may be started twice. `DeathIsAnswered`, which
  the runs check, asks for a running process or an escalation and would hold of the repaired code as well.
* `Output!EveryTerminalIsLast` - when `proc.wait` raises, the terminal event is appended without a join and without
  `stream.truncated` (`daemon/supervisor.py:1184-1200`), unlike the comment of `_emit_stream_truncated` (`:1314`): output
  follows a terminal event that names the error. A drain that fails says `process.stream_error` and reads no further.
* `CloudDispatch!WorkerIsNamed` - a self-hosted target passes the adapter by one key and reaches the supervisor
  without a machine (`cursor_cloud.py:2712`, `supervisor.py:946-959`). `DowngradeIsSurfaced` - Cursor may run a path-B
  dispatch on another worker of the pool than the named one (`src/docs/known-issues.md:49-72`), which the comment at
  `main.py:2587-2588` says is surfaced: the command line does so, a replayed envelope does not come by that code (`main.py:608-649`, `:2969-2974`), and a target that names its worker by
  `machine_name` alone is not warned of either.
* `CloudRequest!BracketIsClosed` - a request that is given up leaves `queued_quota_exceeded` without `queue_exit`
  (`cursor_cloud.py:1937-1948`, `src/docs/USER_GUIDE.md:1952`). `CloudStream`: a ReadTimeout leaves the summary of
  drops unprinted (`cursor_cloud.py:2056`).
* `Relay!RetryIsSuppressed` - a retry of a relay whose outcome was not recorded sends again
  (`relay_cmd.py:475-477`). `--target-repo` only feeds the gate (`:983-990`); mode confirm asks nothing (`:613-627`);
  a payload that is too large is recorded as "in_allowlist" before the gate ran (`:673`).
* `Worker!WrapperSignalCascades`, `OneWorkerPerDirectory`, `NoteMeansNoSession` - a signal before the handlers are
  installed, and SIGHUP, SIGQUIT or SIGKILL at any time, end the wrapper and leave the worker
  (`cloud_worker_cmd.py:501-524`), unlike `src/docs/USER_GUIDE.md:1077`; two starts may both see no worker
  (`:1069-1106`); the note is printed without metrics or with gauges missing (`:1685-1688`, `:1766-1777`). A detached start exits 0 even
  when exec fails (`:632-639`).
* `Prefs!OtherSectionsSurvive` - two edits at once, or one killed in the middle, lose sections (`init_cmd.py:284-298`).
  The wizard resets each preference it does not ask for (`:2480-2519`).
* `Credentials!ClearedOnEveryDelete` - `delete_cursor_api_key` catches the error of a disk that fails
  (`credentials.py:995-998`) and `auth cursor clear` says "removed" and exits 0 (`auth_cmd.py:510-530`), with the metadata of
  the deleted key still there; the docstring (`credentials.py:988-990`) says they are cleared on every successful
  delete. `MetadataFollowsKeyring` is about the commands that end without that warning. The daemon looks into the fallback file before the keyring, unlike `src/CHANGELOG.md:269`;
  `load_env_fallback` ignores the mode that `status` refuses; two writers share one temporary file.
* `DaemonProcess` - two overlapping starts give two daemons, each removing the other's socket; stop can
  remove the files of a new daemon; a start may report a PID while another daemon answers; an invalid
  configuration leaves a pid file.
* `Primitives` - `on_child_terminal`, `tally_votes` and `unsubscribe` have no caller (`src/docs/API_STABILITY.md:173`);
  `POST /relay` is said to be removed (`:178-182`) and is served (`rpc.py:801-837`); a relay whose log append
  raises answers 500 although the child runs.
* `SelfUpdate` - with `--no-skills` the upgrade exits 0 with stale skills; with `--json` or `--quiet` it never exits 3; an
  install that finds the same text does not repair the marker.
* `Handoff!ReadersSeeNoPart`, `EnvelopeIsOfTheDispatch`, `SnapshotStays` - two dispatches of one id share
  `.tmp`, and one renames what the other has just truncated (`writer.py:119-124`); directory and time are
  not in the hash, so a later dispatch replaces the envelope (`server.py:344-345`); archiving again truncates first
  (`handoff_cmd.py:161-162`).

Behaviour the models show that no document promises otherwise: a handle whose Popen
raised stays RUNNING for ever without a pid; a task brought back by a restart has
neither pid nor wait thread, so it never ends and `cancel_task` refuses it; a
cancel that comes between the verdict and the exit callback is overwritten by it, or
leaves a CANCELED handle with `task.completed` in its log (`StoreFollowsVerdict` says
what remains true); cancel and poll loop make the handle terminal before they
append the terminal event, so a stream may end without it; two soft cancels of one orphan may
both write `task.canceled`; `cloud.busy_queued` may be recorded after `cloud.busy_dispatched`; an
entry is lost when the head is removed between a tick's peek and its pop.

## 6. Not modelled

Left out because there are no states or steps to explore: the auto-merge gate (a decision
over one file and git's output), the local CLI adapters (they build a command line),
MCP server and tools (delegation to the daemon's client), the HITL renderers and triggers and the Lark
cards (presentation), the daemon's event bus (synchronous fan-out), evaluation and evolution gates
(off-line scoring), the listings, doctors and wizards of the command line (presentation; where a
dialogue decides something, its outcomes are inputs of the models). Left out because nothing runs
it: `write_feedback`, the graph interrupts and the subgraph for tests, and ArkTower's own task state machine, which no step
of the daemon drives. Left out as pure I/O: SQL and migrations, the protocol encoding of the internal Cursor API, its login.

Partly modelled components and what is missing are listed in `PROJECT.json`; the
largest gaps are the shutdown of the daemon with tasks running, the recovery of cloud tasks after a restart, and
the start and stop of the drainer thread.

## 7. Plan

1. Done: the modules of section 2 with their runs; theorems of section 4.
2. Theorems to come: that `EventLog`, with its crashes, implements the log of `TaskLifecycle`.
3. Models to come: shutdown against the wait threads; recovery of cloud tasks.
