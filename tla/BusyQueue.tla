----------------------------- MODULE BusyQueue -----------------------------
(***************************************************************************)
(* The queue of follow-up dispatches to a busy cloud agent and the drainer  *)
(* that re-issues them (PendingDispatchQueue and PendingDispatchDrainer in  *)
(* daemon/cloud_poller.py).                                                 *)
(*                                                                         *)
(* Queues of different agents share nothing but the drainer, so the module  *)
(* has one agent.  Its runs are numbered; only the latest can be active.    *)
(* Every method of the queue is one critical section, hence one action; the *)
(* drainer looks at the head, asks the API and pops in separate ones.       *)
(***************************************************************************)
EXTENDS Integers, Sequences, FiniteSets

CONSTANTS
    Dispatches,     \* follow-up dispatches
    Drainers,       \* ticks that may run side by side
    MaxRuns,        \* bound on the runs, up to which other clients start some
    MaxWait,        \* queue_max_wait_s is not 0: entries have a deadline
    QueueFaults     \* which failures of QueueFaultKinds may happen

QueueFaultKinds == {"poll", "invoke"}

ASSUME DispatchesAssumption == IsFiniteSet(Dispatches) /\ Dispatches # {}
ASSUME RunsAssumption == MaxRuns \in Nat \ {0} /\ MaxWait \in BOOLEAN
ASSUME QueueFaultsAssumption == QueueFaults \subseteq QueueFaultKinds

VARIABLES
    latest,     \* the latest run of the agent
    active,     \* it is not in a terminal phase
    queue,      \* the deque of the agent
    epc,        \* where enqueue_dispatch of d is
    current,    \* PendingDispatch.current_run_id
    expired,    \* the deadline of d has passed
    fate,       \* what has become of d
    busyLog,    \* the busy events in the log of d
    tpc,        \* where tick k is
    head        \* the entry it has peeked

agentVars == <<latest, active>>
entryVars == <<epc, current, expired>>
tickVars  == <<tpc, head>>
queueVars == <<agentVars, queue, entryVars, fate, busyLog, tickVars>>

-----------------------------------------------------------------------------
(* Types *)

BusyEvents == {"busy_queued", "busy_dispatched", "busy_timeout"}

\* "failed": the POST raised.  "lost": popped by a tick that had peeked another.
EntryFates == {"none", "dispatched", "failed", "timed_out", "removed", "lost"}

\* The points where a tick holds an entry that it has popped.
Holding == {"popped", "timing_out"}

QueueTypeOK ==
    /\ latest \in 1..MaxRuns + Cardinality(Dispatches) /\ active \in BOOLEAN
    /\ queue \in Seq(Dispatches)
    /\ epc \in [Dispatches -> {"new", "refused", "queued", "recorded"}]
    /\ current \in [Dispatches -> 0..latest]
    /\ \A d \in Dispatches : epc[d] = "new" <=> current[d] = 0
    /\ expired \in [Dispatches -> BOOLEAN]
    /\ fate \in [Dispatches -> EntryFates]
    /\ busyLog \in [Dispatches -> Seq(BusyEvents)]
    /\ tpc \in [Drainers -> {"idle", "peeked", "expired", "ready", "issued"} \cup Holding]
    /\ head \in [Drainers -> Dispatches]

-----------------------------------------------------------------------------
(* Helpers *)

\* get_run(agent, r) answers with a terminal phase.
Ended(r) == r < latest \/ ~active

Queued == {queue[i] : i \in DOMAIN queue}

\* Sequence s without what is at index i.
WithoutEntry(s, i) == SubSeq(s, 1, i - 1) \o SubSeq(s, i + 1, Len(s))

Logged(d, e) == busyLog' = [busyLog EXCEPT ![d] = Append(@, e)]

TickGoto(k, from, to) == tpc[k] = from /\ tpc' = [tpc EXCEPT ![k] = to]

\* pop_head by tick k: it keeps the entry if it is the one it has peeked at;
\* otherwise it gives up, and the entry is gone.
PopHead(k, from, to) ==
    IF queue # <<>> /\ Head(queue) = head[k]
    THEN /\ TickGoto(k, from, to)
         /\ queue' = Tail(queue) /\ UNCHANGED fate
    ELSE /\ TickGoto(k, from, "idle")
         /\ queue' = IF queue = <<>> THEN queue ELSE Tail(queue)
         /\ fate' = IF queue = <<>> THEN fate ELSE [fate EXCEPT ![Head(queue)] = "lost"]

-----------------------------------------------------------------------------
\* The agent is busy with a run.
QueueInit ==
    /\ latest = 1 /\ active = TRUE /\ queue = <<>>
    /\ epc = [d \in Dispatches |-> "new"]
    /\ current = [d \in Dispatches |-> 0]
    /\ expired = [d \in Dispatches |-> FALSE]
    /\ fate = [d \in Dispatches |-> "none"]
    /\ busyLog = [d \in Dispatches |-> <<>>]
    /\ tpc = [k \in Drainers |-> "idle"]
    /\ head = [k \in Drainers |-> CHOOSE d \in Dispatches : TRUE]

-----------------------------------------------------------------------------
(* The agent at Cursor (external) *)

RunEnds ==
    /\ active /\ active' = FALSE
    /\ UNCHANGED <<latest, queue, entryVars, fate, busyLog, tickVars>>

\* The POST of a dispatch that is in no queue finds the agent idle.
OtherRun ==
    /\ ~active /\ latest < MaxRuns
    /\ active' = TRUE /\ latest' = latest + 1
    /\ UNCHANGED <<queue, entryVars, fate, busyLog, tickVars>>

\* Variant: the run that is about to start is put down.
Refuse_NextRun(d) ==
    /\ active /\ epc[d] = "new"
    /\ epc' = [epc EXCEPT ![d] = "refused"]
    /\ current' = [current EXCEPT ![d] = latest + 1]
    /\ UNCHANGED <<agentVars, queue, expired, fate, busyLog, tickVars>>

\* A dispatch gets 409 agent_busy.
Refuse(d) ==
    /\ active /\ epc[d] = "new"
    /\ epc' = [epc EXCEPT ![d] = "refused"]
    /\ current' = [current EXCEPT ![d] = latest]
    /\ UNCHANGED <<agentVars, queue, expired, fate, busyLog, tickVars>>

-----------------------------------------------------------------------------
(* enqueue_dispatch and remove_dispatch *)

\* Variant: the newest entry becomes the head.
Enqueue_Front(d) ==
    /\ epc[d] = "refused"
    /\ epc' = [epc EXCEPT ![d] = "queued"]
    /\ queue' = <<d>> \o queue
    /\ UNCHANGED <<agentVars, current, expired, fate, busyLog, tickVars>>

Enqueue(d) ==
    /\ epc[d] = "refused"
    /\ epc' = [epc EXCEPT ![d] = "queued"]
    /\ queue' = Append(queue, d)
    /\ UNCHANGED <<agentVars, current, expired, fate, busyLog, tickVars>>

\* The drainer may have taken the entry before.
RecordQueued(d) ==
    /\ epc[d] = "queued"
    /\ epc' = [epc EXCEPT ![d] = "recorded"]
    /\ Logged(d, "busy_queued")
    /\ UNCHANGED <<agentVars, queue, current, expired, fate, tickVars>>

EntryDeadline(d) ==
    /\ MaxWait /\ epc[d] \in {"queued", "recorded"} /\ ~expired[d]
    /\ expired' = [expired EXCEPT ![d] = TRUE]
    /\ UNCHANGED <<agentVars, queue, epc, current, fate, busyLog, tickVars>>

\* deque.remove takes the first entry that is d.
Remove(d) ==
    /\ \E i \in DOMAIN queue :
         /\ queue[i] = d /\ \A j \in 1..(i - 1) : queue[j] # d
         /\ queue' = WithoutEntry(queue, i)
    /\ fate' = [fate EXCEPT ![d] = "removed"]
    /\ UNCHANGED <<agentVars, entryVars, busyLog, tickVars>>

-----------------------------------------------------------------------------
(* _tick_agent *)

\* Variant: the deadline is left to the answer of the API.
TickPeek_NoDeadline(k) ==
    /\ queue # <<>>
    /\ head' = [head EXCEPT ![k] = Head(queue)]
    /\ TickGoto(k, "idle", "peeked")
    /\ UNCHANGED <<agentVars, queue, entryVars, fate, busyLog>>

\* peek_head, and the deadline before anything else.
TickPeek(k) ==
    /\ queue # <<>>
    /\ head' = [head EXCEPT ![k] = Head(queue)]
    /\ TickGoto(k, "idle", IF expired[Head(queue)] THEN "expired" ELSE "peeked")
    /\ UNCHANGED <<agentVars, queue, entryVars, fate, busyLog>>

\* The run the entry was refused for; an error leaves the head where it is.
TickPoll(k) ==
    /\ \/ Ended(current[head[k]]) /\ TickGoto(k, "peeked", "ready")
       \/ (~Ended(current[head[k]]) \/ "poll" \in QueueFaults) /\ TickGoto(k, "peeked", "idle")
    /\ UNCHANGED <<agentVars, queue, entryVars, fate, busyLog, head>>

\* Variant: the head stays in the queue until its POST was answered.
TickPop_Peeks(k) ==
    /\ IF queue # <<>> /\ Head(queue) = head[k] THEN TickGoto(k, "ready", "popped")
       ELSE TickGoto(k, "ready", "idle")
    /\ UNCHANGED <<agentVars, queue, entryVars, fate, busyLog, head>>

TickPop(k) ==
    /\ PopHead(k, "ready", "popped")
    /\ UNCHANGED <<agentVars, entryVars, busyLog, head>>

\* The POST: a new run; or 409, or an error that may hide a new run.
TickInvoke(k) ==
    \/ /\ ~active
       /\ active' = TRUE /\ latest' = latest + 1
       /\ \/ TickGoto(k, "popped", "issued") /\ fate' = [fate EXCEPT ![head[k]] = "dispatched"]
          \/ /\ TickGoto(k, "popped", "idle") /\ "invoke" \in QueueFaults
             /\ fate' = [fate EXCEPT ![head[k]] = "failed"]
       /\ UNCHANGED <<queue, entryVars, busyLog, head>>
    \/ /\ active \/ "invoke" \in QueueFaults
       /\ TickGoto(k, "popped", "idle") /\ fate' = [fate EXCEPT ![head[k]] = "failed"]
       /\ UNCHANGED <<agentVars, queue, entryVars, busyLog, head>>

TickRecord(k) ==
    /\ TickGoto(k, "issued", "idle")
    /\ Logged(head[k], "busy_dispatched")
    /\ UNCHANGED <<agentVars, queue, entryVars, fate, head>>

TickTimeout(k) ==
    /\ PopHead(k, "expired", "timing_out")
    /\ UNCHANGED <<agentVars, entryVars, busyLog, head>>

TickRecordTimeout(k) ==
    /\ TickGoto(k, "timing_out", "idle")
    /\ fate' = [fate EXCEPT ![head[k]] = "timed_out"]
    /\ Logged(head[k], "busy_timeout")
    /\ UNCHANGED <<agentVars, queue, entryVars, head>>

-----------------------------------------------------------------------------
(* The specification *)

EnqueueDispatch(d) == Enqueue(d) \/ RecordQueued(d)

Tick(k) == \/ TickPeek(k) \/ TickPoll(k) \/ TickPop(k) \/ TickInvoke(k)
           \/ TickRecord(k) \/ TickTimeout(k) \/ TickRecordTimeout(k)

QueueNext ==
    \/ RunEnds \/ OtherRun
    \/ \E d \in Dispatches : Refuse(d) \/ EnqueueDispatch(d) \/ EntryDeadline(d) \/ Remove(d)
    \/ \E k \in Drainers : Tick(k)

QueueSpec == QueueInit /\ [][QueueNext]_queueVars

\* The drainer thread ticks and time passes; the run may never end.
QueueFairSpec ==
    /\ QueueSpec
    /\ \A k \in Drainers : WF_queueVars(Tick(k))
    /\ \A d \in Dispatches : WF_queueVars(EntryDeadline(d))

-----------------------------------------------------------------------------
(* Properties the code has *)

\* Where the entry of d is now.
Places(d) == {<<"queue", i>> : i \in {j \in DOMAIN queue : queue[j] = d}}
             \cup {<<"tick", k>> : k \in {j \in Drainers : tpc[j] \in Holding /\ head[j] = d}}
             \cup {<<"fate">> : x \in {fate[d]} \ {"none"}}

\* An entry is in one place: in the queue, with one tick that has popped it, or
\* done with.  So no entry is issued twice, or both issued and timed out; and none is
\* lost to a tick that has peeked at another, unless the other one was removed in
\* between (one drainer is assumed).
OnePlace ==
    \A d \in Dispatches :
        /\ epc[d] \in {"queued", "recorded"} => \E p \in Places(d) : Places(d) = {p}
        /\ fate[d] = "lost" => \E e \in Dispatches \ {d} : fate[e] = "removed"

\* An entry does not wait for ever, even if the run hangs or cannot be polled:
\* it is removed, its POST is answered or the deadline is recorded.
Answered(d) ==
    \/ fate[d] \in {"removed", "lost", "failed"}
    \/ \E i \in DOMAIN busyLog[d] : busyLog[d][i] \in {"busy_dispatched", "busy_timeout"}

EntryEnds == MaxWait => \A d \in Dispatches : d \in Queued ~> Answered(d)

-----------------------------------------------------------------------------
(* What comments and docs claim and the code does not keep *)

\* cloud_poller.py: "polls each agent's latest run, dispatches the head when terminal": so, with
\* nobody else starting runs, no POST of the drainer finds the agent busy.  The
\* run that is polled is the one that was active when the entry was refused.
PostFindsAgentIdle == [][\A d \in Dispatches : fate'[d] = "failed" => ~active]_queueVars
=============================================================================
