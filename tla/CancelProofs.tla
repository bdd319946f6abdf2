---------------------------- MODULE CancelProofs ----------------------------
(* Theorems about TaskLifecycle on what the store says of a task: against    *)
(* the verdict of its wait thread, against its subprocess and against the    *)
(* cancel requests, for every set of tasks and requests and every number of  *)
(* crashes.  The invariant comes in seven parts: the books of a dispatch,    *)
(* the requests that signal, the subprocess, the verdict, the signals, the   *)
(* marks of the requests and the record of SIGKILL.  With what handle, exit  *)
(* code and log say besides, it carries the refinement of TaskContract.      *)
EXTENDS TaskLifecycleProofs

\* A failed graph overwrites the handle, whatever it said.
Blown(t) == gpc[t] = "blown"

\* What a wait thread that has not resolved yet will resolve to canceled.
Doomed(t) == store[t] = "canceled" \/ Blown(t)

CancelVerdicts == {"task.canceled", "task.canceled+sigkill"}

\* The wait thread has chosen its verdict.
Chosen(t) == wpc[t] \in {"resolved", "emitted", "exit_read", "done"}

\* The requests that go for the process of their target.
Signaling == {"checked", "marked", "signaled", "waiting", "escalating", "killed",
              "finishing", "canceled"}

-----------------------------------------------------------------------------
(* The invariant *)

\* How far the dispatch of t is bounds what the other books say of it.
Books(t) ==
    /\ dpc[t] \in {"idle", "created"} => store[t] = "absent"
    /\ dpc[t] \in {"idle", "created", "registered", "raised"} => child[t] = "none"
    /\ dpc[t] \in {"spawned", "pid_set", "returned"} => child[t] # "none"
    /\ row[t] => dpc[t] = "returned"
    /\ hasPid[t] => dpc[t] \in {"pid_set", "returned"}
    /\ wpc[t] # "none" => dpc[t] \in {"spawned", "pid_set", "returned"}
    /\ gpc[t] # "none" => dpc[t] = "returned"
    /\ gpc[t] = "blown" => "graph" \in Faults
    /\ t \in Foreign => dpc[t] = "lost"
    /\ t \notin Foreign /\ store[t] # "absent" =>
         child[t] # "none" \/ dpc[t] \in {"registered", "raised"}

\* A dead daemon leaves no handle, no thread and no dispatch half-way.
Dead(t) ==
    ~up => /\ store[t] = "absent" /\ ~hasPid[t] /\ wpc[t] = "none" /\ gpc[t] = "none"
           /\ dpc[t] \notin {"created", "registered", "spawned", "pid_set"}

\* What a restart needs in order to find a dispatched task again.
Recorded(t) ==
    /\ dpc[t] = "idle" => ark[t] = "none"
    /\ up /\ dpc[t] \in {"registered", "spawned", "pid_set"} => store[t] # "absent"
    /\ t \notin Foreign /\ dpc[t] \in {"created", "registered", "spawned", "pid_set"} =>
         ark[t] \in {"none", "submitted"}
    /\ "dispatch_row" \notin Faults /\ t \notin Foreign /\ dpc[t] = "returned"
         /\ ark[t] # "none" => /\ row[t] /\ ark[t] = "submitted"
                               /\ up => store[t] # "absent"

\* A request that signals has found the pid.
Request(c) == cpc[c] \in Signaling => hasPid[target[c]]

\* A signal reaches a running process only, and the wait thread sees the end
\* the process has had.
Process(t) ==
    /\ child[t] = "none" => sig[t] = "none"
    /\ child[t] \in {"term", "kill"} => sig[t] = child[t]
    /\ child[t] \in {"none", "running"} => ~reaped[t]
    /\ wpc[t] = "waiting" => ~reaped[t]
    /\ wpc[t] \in {"none", "waiting"} <=> seen[t] = "none"
    /\ wpc[t] \notin {"none", "waiting"} => reaped[t] \/ "wait" \in Faults
    /\ seen[t] \in {"term", "kill"} => child[t] = seen[t]

\* From the choice of the verdict to the last write of the exit callback.
Outcome(t) ==
    /\ Chosen(t) <=> verdict[t] # "none"
    /\ verdict[t] = "task.completed" => seen[t] = "ok"
    /\ verdict[t] = "task.failed" => seen[t] # "ok"
    /\ wpc[t] \in {"resolved", "emitted"} /\ verdict[t] \in CancelVerdicts => Doomed(t)
    /\ wpc[t] = "exit_read" /\ verdict[t] \in CancelVerdicts => sawCanceled[t] \/ Blown(t)
    /\ wpc[t] = "exit_read" /\ sawCanceled[t] => Doomed(t)
    /\ wpc[t] = "done" => \/ Doomed(t)
                          \/ store[t] = "completed" /\ verdict[t] = "task.completed"
                          \/ store[t] = "failed" /\ verdict[t] = "task.failed"
    /\ store[t] \in {"completed", "failed"} => wpc[t] = "done" \/ Blown(t)

\* The wait thread appends its verdict before it looks at the store.
Written(t) == wpc[t] \in {"emitted", "exit_read", "done"} => HasVerdict(log[t])

\* Whoever was hit by a signal of cancel_task is marked until its verdict is
\* chosen, and that verdict is a cancel.
Signals(t) ==
    /\ wpc[t] = "waiting" /\ sig[t] # "none" => Doomed(t)
    /\ wpc[t] = "reaped" /\ seen[t] \in {"term", "kill"} => Doomed(t)
    /\ Chosen(t) /\ seen[t] \in {"term", "kill"} => verdict[t] \in CancelVerdicts \/ Blown(t)

\* The mark of a request outlives it, unless the exit callback was under way
\* when it was made.
Marks(c) ==
    LET t == target[c] IN
    /\ cpc[c] \in Signaling \ {"checked"} /\ wpc[t] = "waiting" => Doomed(t)
    /\ cpc[c] = "marked" => Doomed(t) \/ reaped[t] \/ "wait" \in Faults
    /\ cpc[c] \in Signaling \ {"checked", "marked"} =>
         \/ "wait" \in Faults
         \/ Blown(t)
         \/ store[t] = "canceled" /\ (wpc[t] = "exit_read" => sawCanceled[t])

\* Two requests have been made for t.
Two(t) == \E c, d \in Cancelers : /\ c # d /\ target[c] = t /\ target[d] = t
                                  /\ cpc[c] # "idle" /\ cpc[d] # "idle"

\* SIGKILL of t is on record, or another request may have taken it back.
OnRecord(t) ==
    \/ Two(t)
    \/ /\ escalated[t]
       /\ \E c \in Cancelers : target[c] = t /\ cpc[c] \in {"killed", "finishing", "canceled"}

Kills(t) ==
    /\ wpc[t] = "waiting" /\ sig[t] = "kill" => OnRecord(t)
    /\ wpc[t] = "reaped" /\ seen[t] = "kill" => OnRecord(t)
    /\ Chosen(t) /\ seen[t] = "kill" => KillReported(t) \/ Blown(t) \/ Two(t)

Escalates(c) == cpc[c] = "escalating" => escalated[target[c]] \/ Two(target[c])

LifeInv ==
    /\ VerdictInv
    /\ \A t \in Tasks : Books(t) /\ Dead(t) /\ Recorded(t)
    /\ \A c \in Cancelers : Request(c)
    /\ \A t \in Tasks : Process(t)
    /\ \A t \in Tasks : Outcome(t) /\ Written(t)
    /\ \A t \in Tasks : Signals(t)
    /\ \A c \in Cancelers : Marks(c)
    /\ \A t \in Tasks : Kills(t)
    /\ \A c \in Cancelers : Escalates(c)

-----------------------------------------------------------------------------
(* Every part is kept by every step *)

\* What no cancel request touches.
LEMMA CancelFrame ==
    ASSUME NEW c \in Cancelers, Cancel(c)
    PROVE  UNCHANGED <<up, hasPid, row, child, reaped, dpc, waitVars, gpc, target>>
  BY DEF Cancel, CancelCheck, CancelGraceTerminal, CancelGraceExpire, CancelSoftMark,
         CancelSoftPersist, CancelMark, CancelTerm, CancelLog, CancelGone, CancelExpire,
         CancelKill, CancelLogKill, CancelFinish, sysVars, storeVars, dbVars, procVars

\* A request changes the handle's state only to CANCELED, of a foreign row or of
\* a handle whose pid it has found.
LEMMA CancelStore ==
    ASSUME LifeInv, NEW c \in Cancelers, Cancel(c)
    PROVE  \/ UNCHANGED store
           \/ /\ store' = [store EXCEPT ![target[c]] = "canceled"] /\ up
              /\ target[c] \in Foreign \/ hasPid[target[c]]
<1>1. CASE CancelSoftMark(c)
  <2>1. target[c] \in Foreign
    BY <1>1 DEF CancelSoftMark, Goto, LifeInv, VerdictInv
  <2> QED BY <1>1, <2>1 DEF CancelSoftMark
<1>2. CASE CancelMark(c) \/ CancelFinish(c)
  <2>1. hasPid[target[c]]
    BY <1>2 DEF CancelMark, CancelFinish, Goto, LifeInv, Request, Signaling
  <2> QED BY <1>2, <2>1 DEF CancelMark, CancelFinish
<1>3. CASE UNCHANGED store
  BY <1>3
<1> QED BY <1>1, <1>2, <1>3 DEF Cancel, CancelCheck, CancelGraceTerminal,
       CancelGraceExpire, CancelSoftPersist, CancelTerm, CancelLog, CancelGone,
       CancelExpire, CancelKill, CancelLogKill, storeVars

\* A running process ends with one of the exits its signals allow.
LEMMA ExitStep ==
    ASSUME NEW u \in Tasks, ChildExit(u)
    PROVE  /\ child[u] = "running"
           /\ \E x \in Exits : /\ child' = [child EXCEPT ![u] = x]
                               /\ x \in {"term", "kill"} => sig[u] = x
           /\ reaped' = [reaped EXCEPT ![u] = wpc[u] = "none"]
           /\ UNCHANGED <<up, store, hasPid, escalated, ark, row, sig, log, dpc, waitVars,
                          gpc, cpc, target>>
<1>1. PICK x \in ExitsFor(sig[u]) : child' = [child EXCEPT ![u] = x]
  BY DEF ChildExit
<1>2. x \in Exits /\ (x \in {"term", "kill"} => sig[u] = x)
  BY <1>1 DEF ExitsFor, Exits
<1> QED BY <1>1, <1>2 DEF ChildExit, sysVars, storeVars, dbVars, logVars, cancelVars

\* The books of a dispatch.
LEMMA BooksStep ==
    ASSUME LifeInv, [Next]_vars, NEW t \in Tasks
    PROVE  Books(t)'
<1>a. TypeOK /\ Books(t) /\ Dead(t)
  BY DEF LifeInv, VerdictInv, TypeInv
<1> USE DEF TypeOK, Books, sysVars, storeVars, dbVars, procVars, waitVars
<1>1. ASSUME NEW u \in Tasks, Dispatch(u) PROVE Books(t)'
  <2>1. CASE DispatchCreateRow(u) BY <1>a, <2>1 DEF DispatchCreateRow
  <2>2. CASE DispatchRegister(u) BY <1>a, <2>2 DEF DispatchRegister
  <2>3. CASE DispatchSpawn(u) BY <1>a, <2>3 DEF DispatchSpawn
  <2>4. CASE DispatchSpawnRaises(u) BY <1>a, <2>4 DEF DispatchSpawnRaises
  <2>5. CASE DispatchSetPid(u) BY <1>a, <2>5 DEF DispatchSetPid
  <2>6. CASE DispatchRecord(u) BY <1>a, <2>6 DEF DispatchRecord
  <2> QED BY <1>1, <2>1, <2>2, <2>3, <2>4, <2>5, <2>6 DEF Dispatch
<1>2. ASSUME NEW u \in Tasks, ChildExit(u) PROVE Books(t)'
  <2>1. PICK x \in Exits : child' = [child EXCEPT ![u] = x]
    BY <1>2, ExitStep
  <2> QED BY <1>a, <1>2, <2>1, ExitStep, ZenonT(60) DEF Exits
<1>3. ASSUME NEW u \in Tasks, Wait(u) PROVE Books(t)'
  <2>1. CASE WaitReap(u) BY <1>a, <2>1 DEF WaitReap
  <2>2. CASE WaitRaises(u) BY <1>a, <2>2 DEF WaitRaises
  <2>3. CASE WaitResolve(u) BY <1>a, <2>3 DEF WaitResolve
  <2>4. CASE WaitEmit(u) BY <1>a, <2>4 DEF WaitEmit
  <2>5. CASE ExitRead(u) BY <1>a, <2>5 DEF ExitRead
  <2>6. CASE ExitUpdate(u) BY <1>a, <2>6 DEF ExitUpdate
  <2> QED BY <1>3, <2>1, <2>2, <2>3, <2>4, <2>5, <2>6 DEF Wait
<1>4. ASSUME NEW u \in Tasks, Graph(u) PROVE Books(t)'
  <2>1. CASE GraphEnd(u) BY <1>a, <2>1 DEF GraphEnd
  <2>2. CASE GraphBlowsUp(u) BY <1>a, <2>2 DEF GraphBlowsUp
  <2> QED BY <1>4, <2>1, <2>2 DEF Graph
<1>5. ASSUME NEW c \in Cancelers, Cancel(c) PROVE Books(t)'
  BY <1>a, <1>5, CancelFrame, CancelStore
<1>6. ASSUME NEW u \in Tasks, FlushLog(u) PROVE Books(t)'
  BY <1>a, <1>6 DEF FlushLog
<1>7. CASE Crash
  BY <1>a, <1>7 DEF Crash
<1>8. CASE Restart
  BY <1>a, <1>8 DEF Restart, Recovered, SpawnAborted
<1>9. CASE UNCHANGED vars
  BY <1>a, <1>9 DEF vars
<1> QED BY <1>1, <1>2, <1>3, <1>4, <1>5, <1>6, <1>7, <1>8, <1>9 DEF Next

\* A dead daemon stays dead until it is restarted, with nothing in memory.
LEMMA DeadStep ==
    ASSUME LifeInv, [Next]_vars, NEW t \in Tasks
    PROVE  Dead(t)'
<1>a. TypeOK /\ Books(t) /\ Dead(t)
  BY DEF LifeInv, VerdictInv, TypeInv
<1> USE DEF TypeOK, Dead, sysVars, storeVars, waitVars
<1>1. ASSUME NEW u \in Tasks, Dispatch(u) \/ Wait(u) \/ Graph(u) \/ FlushLog(u)
      PROVE  up /\ up'
  BY <1>1 DEF Dispatch, DispatchCreateRow, DispatchRegister, DispatchSpawn,
       DispatchSpawnRaises, DispatchSetPid, DispatchRecord, Wait, WaitReap, WaitRaises,
       WaitResolve, WaitEmit, ExitRead, ExitUpdate, Graph, GraphEnd, GraphBlowsUp, FlushLog
<1>2. ASSUME NEW u \in Tasks, ChildExit(u) PROVE Dead(t)'
  BY <1>a, <1>2, ExitStep
<1>3. ASSUME NEW c \in Cancelers, Cancel(c) PROVE Dead(t)'
  BY <1>a, <1>3, CancelFrame, CancelStore
<1>4. CASE Crash
  BY <1>a, <1>4 DEF Crash
<1>5. CASE Restart
  BY <1>5 DEF Restart
<1>6. CASE UNCHANGED vars
  BY <1>a, <1>6 DEF vars
<1> QED BY <1>1, <1>2, <1>3, <1>4, <1>5, <1>6 DEF Next

\* A dispatch that has returned is on record, and stays so.
LEMMA RecordedStep ==
    ASSUME LifeInv, [Next]_vars, NEW t \in Tasks
    PROVE  Recorded(t)'
<1>a. TypeOK /\ Books(t) /\ Dead(t) /\ Recorded(t)
  BY DEF LifeInv, VerdictInv, TypeInv
<1> USE DEF TypeOK, Recorded, sysVars, storeVars, dbVars
<1>1. ASSUME NEW u \in Tasks, Dispatch(u) PROVE Recorded(t)'
  <2>1. CASE DispatchCreateRow(u) BY <1>a, <2>1 DEF DispatchCreateRow
  <2>2. CASE DispatchRegister(u) BY <1>a, <2>2 DEF DispatchRegister, Books
  <2>3. CASE DispatchSpawn(u) BY <1>a, <2>3 DEF DispatchSpawn
  <2>4. CASE DispatchSpawnRaises(u) BY <1>a, <2>4 DEF DispatchSpawnRaises
  <2>5. CASE DispatchSetPid(u) BY <1>a, <2>5 DEF DispatchSetPid
  <2>6. CASE DispatchRecord(u) BY <1>a, <2>6 DEF DispatchRecord
  <2> QED BY <1>1, <2>1, <2>2, <2>3, <2>4, <2>5, <2>6 DEF Dispatch
<1>2. ASSUME NEW u \in Tasks, ChildExit(u) PROVE Recorded(t)'
  BY <1>a, <1>2, ExitStep
<1>3. ASSUME NEW u \in Tasks, Wait(u) PROVE Recorded(t)'
  <2>1. CASE ExitUpdate(u)
    BY <1>a, <2>1 DEF ExitUpdate
  <2>2. CASE UNCHANGED <<up, store, ark, row, dpc>>
    BY <1>a, <2>2
  <2> QED BY <1>3, <2>1, <2>2 DEF Wait, WaitReap, WaitRaises, WaitResolve, WaitEmit, ExitRead
<1>4. ASSUME NEW u \in Tasks, Graph(u) PROVE Recorded(t)'
  BY <1>a, <1>4 DEF Graph, GraphEnd, GraphBlowsUp
<1>5. ASSUME NEW c \in Cancelers, Cancel(c) PROVE Recorded(t)'
  <2>1. ark'[t] = ark[t] \/ t \in Foreign
    <3>1. CASE CancelSoftPersist(c)
      BY <1>a, <3>1 DEF CancelSoftPersist, Goto, LifeInv, VerdictInv
    <3>2. CASE UNCHANGED ark
      BY <3>2
    <3> QED BY <1>5, <3>1, <3>2 DEF Cancel, CancelCheck, CancelGraceTerminal,
           CancelGraceExpire, CancelSoftMark, CancelMark, CancelTerm, CancelLog, CancelGone,
           CancelExpire, CancelKill, CancelLogKill, CancelFinish
  <2> QED BY <1>a, <1>5, <2>1, CancelFrame, CancelStore DEF Books
<1>6. ASSUME NEW u \in Tasks, FlushLog(u) PROVE Recorded(t)'
  BY <1>a, <1>6 DEF FlushLog
<1>7. CASE Crash
  BY <1>a, <1>7 DEF Crash
<1>8. CASE Restart
  BY <1>a, <1>8 DEF Restart, Recovered, SpawnAborted, Dead, Books
<1>9. CASE UNCHANGED vars
  BY <1>a, <1>9 DEF vars
<1> QED BY <1>1, <1>2, <1>3, <1>4, <1>5, <1>6, <1>7, <1>8, <1>9 DEF Next

\* A request that signals has the pid of its target.
LEMMA RequestStep ==
    ASSUME LifeInv, [Next]_vars, NEW c \in Cancelers
    PROVE  Request(c)'
<1>a. TypeOK /\ Request(c)
  BY DEF LifeInv, VerdictInv, TypeInv
<1> USE DEF TypeOK, Request, storeVars, cancelVars
<1>1. ASSUME NEW d \in Cancelers, Cancel(d) PROVE Request(c)'
  <2>1. CASE CancelCheck(d)
    BY <1>a, <2>1 DEF CancelCheck, Goto, Signaling
  <2>2. \/ CancelCheck(d)
        \/ cpc'[c] = cpc[c]
        \/ cpc[c] \in Signaling
        \/ cpc'[c] \notin Signaling
    BY <1>a, <1>1 DEF Cancel, CancelGraceTerminal, CancelGraceExpire, CancelSoftMark,
           CancelSoftPersist, CancelMark, CancelTerm, CancelLog, CancelGone, CancelExpire,
           CancelKill, CancelLogKill, CancelFinish, Goto, Signaling
  <2> QED BY <1>a, <1>1, <2>1, <2>2, CancelFrame
<1>2. ASSUME NEW u \in Tasks, Dispatch(u) PROVE Request(c)'
  <2>1. CASE DispatchSetPid(u) BY <1>a, <2>1 DEF DispatchSetPid
  <2>2. CASE UNCHANGED <<hasPid, cpc, target>> BY <1>a, <2>2
  <2> QED BY <1>2, <2>1, <2>2 DEF Dispatch, DispatchCreateRow, DispatchRegister,
         DispatchSpawn, DispatchSpawnRaises, DispatchRecord
<1>3. ASSUME NEW u \in Tasks, ChildExit(u) \/ Wait(u) \/ Graph(u) \/ FlushLog(u)
      PROVE  UNCHANGED <<hasPid, cpc, target>>
  BY <1>3 DEF ChildExit, Wait, WaitReap, WaitRaises, WaitResolve, WaitEmit, ExitRead,
       ExitUpdate, Graph, GraphEnd, GraphBlowsUp, FlushLog
<1>4. CASE Crash
  BY <1>a, <1>4 DEF Crash, Signaling
<1>5. CASE Restart
  BY <1>a, <1>5 DEF Restart
<1>6. CASE UNCHANGED vars
  BY <1>a, <1>6 DEF vars
<1> QED BY <1>a, <1>1, <1>2, <1>3, <1>4, <1>5, <1>6 DEF Next

\* The subprocess, its signals and what the wait thread has seen of its end.
LEMMA ProcessStep ==
    ASSUME LifeInv, [Next]_vars, NEW t \in Tasks
    PROVE  Process(t)'
<1>a. TypeOK /\ Process(t)
  BY DEF LifeInv, VerdictInv, TypeInv
<1>b. Books(t) /\ (dpc[t] \in {"idle", "created", "registered"} => wpc[t] = "none")
  BY DEF LifeInv, VerdictInv
<1> USE DEF TypeOK, Process, procVars, waitVars, Exits
<1>1. ASSUME NEW u \in Tasks, Dispatch(u) PROVE Process(t)'
  <2>1. CASE DispatchSpawn(u)
    BY <1>a, <1>b, <2>1 DEF DispatchSpawn, Books
  <2>2. CASE UNCHANGED <<child, reaped, sig, wpc, seen>>
    BY <1>a, <2>2
  <2> QED BY <1>1, <2>1, <2>2 DEF Dispatch, DispatchCreateRow, DispatchRegister,
         DispatchSpawnRaises, DispatchSetPid, DispatchRecord
<1>2. ASSUME NEW u \in Tasks, ChildExit(u) PROVE Process(t)'
  <2>1. PICK x \in Exits : /\ child' = [child EXCEPT ![u] = x]
                           /\ x \in {"term", "kill"} => sig[u] = x
    BY <1>2, ExitStep
  <2>2. /\ child[u] = "running" /\ UNCHANGED <<sig, wpc, seen>>
        /\ reaped' = [reaped EXCEPT ![u] = wpc[u] = "none"]
    BY <1>2, ExitStep DEF ChildExit
  <2>3. CASE u = t BY <1>a, <2>1, <2>2, <2>3
  <2>4. CASE u # t BY <1>a, <2>1, <2>2, <2>4
  <2> QED BY <2>3, <2>4
<1>3. ASSUME NEW u \in Tasks, Wait(u) PROVE Process(t)'
  <2>1. CASE WaitReap(u) BY <1>a, <2>1 DEF WaitReap
  <2>2. CASE WaitRaises(u) BY <1>a, <2>2 DEF WaitRaises
  <2>3. CASE WaitResolve(u) BY <1>a, <2>3 DEF WaitResolve
  <2>4. CASE WaitEmit(u) BY <1>a, <2>4 DEF WaitEmit
  <2>5. CASE ExitRead(u) BY <1>a, <2>5 DEF ExitRead
  <2>6. CASE ExitUpdate(u) BY <1>a, <2>6 DEF ExitUpdate
  <2> QED BY <1>3, <2>1, <2>2, <2>3, <2>4, <2>5, <2>6 DEF Wait
<1>4. ASSUME NEW u \in Tasks, Graph(u) \/ FlushLog(u)
      PROVE  UNCHANGED <<child, reaped, sig, wpc, seen>>
  BY <1>4 DEF Graph, GraphEnd, GraphBlowsUp, FlushLog
<1>5. ASSUME NEW c \in Cancelers, Cancel(c) PROVE Process(t)'
  <2>1. \/ sig'[t] = sig[t]
        \/ child[t] = "running"
    <3>1. CASE CancelTerm(c) \/ CancelKill(c)
      BY <1>a, <3>1 DEF CancelTerm, CancelKill, Signaled
    <3>2. CASE UNCHANGED sig
      BY <3>2
    <3> QED BY <1>5, <3>1, <3>2 DEF Cancel, CancelCheck, CancelGraceTerminal,
           CancelGraceExpire, CancelSoftMark, CancelSoftPersist, CancelMark, CancelLog,
           CancelGone, CancelExpire, CancelLogKill, CancelFinish
  <2> QED BY <1>a, <1>5, <2>1, CancelFrame
<1>6. CASE Crash
  BY <1>a, <1>6 DEF Crash
<1>7. CASE Restart
  BY <1>a, <1>7 DEF Restart
<1>8. CASE UNCHANGED vars
  BY <1>a, <1>8 DEF vars
<1> QED BY <1>a, <1>1, <1>2, <1>3, <1>4, <1>5, <1>6, <1>7, <1>8 DEF Next

\* The verdict, and the handle after it.
LEMMA OutcomeStep ==
    ASSUME LifeInv, [Next]_vars, NEW t \in Tasks
    PROVE  Outcome(t)'
<1>a. TypeOK /\ Outcome(t)
  BY DEF LifeInv, VerdictInv, TypeInv
<1>b. Books(t) /\ Dead(t) /\ (dpc[t] \in {"idle", "created", "registered"} => wpc[t] = "none")
  BY DEF LifeInv, VerdictInv
<1> USE DEF TypeOK, Outcome, Doomed, Blown, Chosen, CancelVerdicts, storeVars, waitVars
<1>1. ASSUME NEW u \in Tasks, Dispatch(u) PROVE Outcome(t)'
  <2>1. CASE DispatchRegister(u) BY <1>a, <1>b, <2>1 DEF DispatchRegister
  <2>2. CASE DispatchSpawn(u) BY <1>a, <1>b, <2>2 DEF DispatchSpawn
  <2>3. CASE DispatchRecord(u) BY <1>a, <1>b, <2>3 DEF DispatchRecord, Books
  <2>4. CASE UNCHANGED <<store, wpc, seen, verdict, sawCanceled, gpc>>
    BY <1>a, <2>4
  <2> QED BY <1>1, <2>1, <2>2, <2>3, <2>4 DEF Dispatch, DispatchCreateRow,
         DispatchSpawnRaises, DispatchSetPid
<1>2. ASSUME NEW u \in Tasks, ChildExit(u) \/ FlushLog(u)
      PROVE  UNCHANGED <<store, wpc, seen, verdict, sawCanceled, gpc>>
  BY <1>2 DEF ChildExit, FlushLog
<1>3. ASSUME NEW u \in Tasks, Wait(u) PROVE Outcome(t)'
  <2>1. CASE WaitReap(u) BY <1>a, <2>1 DEF WaitReap
  <2>2. CASE WaitRaises(u) BY <1>a, <2>2 DEF WaitRaises
  <2>3. CASE WaitResolve(u) BY <1>a, <2>3 DEF WaitResolve, ResolvedVerdict
  <2>4. CASE WaitEmit(u) BY <1>a, <2>4 DEF WaitEmit
  <2>5. CASE ExitRead(u) BY <1>a, <2>5 DEF ExitRead
  <2>6. CASE ExitUpdate(u) BY <1>a, <2>6 DEF ExitUpdate, Verdicts
  <2> QED BY <1>3, <2>1, <2>2, <2>3, <2>4, <2>5, <2>6 DEF Wait
<1>4. ASSUME NEW u \in Tasks, Graph(u) PROVE Outcome(t)'
  <2>1. CASE GraphEnd(u) BY <1>a, <2>1 DEF GraphEnd
  <2>2. CASE GraphBlowsUp(u) BY <1>a, <2>2 DEF GraphBlowsUp
  <2> QED BY <1>4, <2>1, <2>2 DEF Graph
<1>5. ASSUME NEW c \in Cancelers, Cancel(c) PROVE Outcome(t)'
  BY <1>a, <1>5, CancelFrame, CancelStore, ZenonT(60)
<1>6. CASE Crash
  BY <1>a, <1>6 DEF Crash
<1>7. CASE Restart
  BY <1>a, <1>b, <1>7 DEF Restart, Dead
<1>8. CASE UNCHANGED vars
  BY <1>a, <1>8 DEF vars
<1> QED BY <1>a, <1>1, <1>2, <1>3, <1>4, <1>5, <1>6, <1>7, <1>8 DEF Next

\* An appended event keeps the verdict of a log, or is one.
LEMMA VerdictKept ==
    ASSUME NEW s \in Seq(Events), NEW e \in Events, HasVerdict(s) \/ e \in Verdicts
    PROVE  HasVerdict(Append(s, e))
<1>1. /\ Len(s) \in Nat
      /\ DOMAIN s = 1..Len(s) /\ DOMAIN Append(s, e) = 1..(Len(s) + 1)
      /\ \A i \in 1..Len(s) : Append(s, e)[i] = s[i]
      /\ Append(s, e)[Len(s) + 1] = e
  BY AppendProperties, LenProperties
<1> QED BY <1>1 DEF HasVerdict

\* The verdict is in the log before the exit callback reads the store.
LEMMA WrittenStep ==
    ASSUME LifeInv, [Next]_vars, NEW t \in Tasks
    PROVE  Written(t)'
<1>a. /\ TypeOK /\ VerdictChosen /\ Written(t) /\ Dead(t)
      /\ dpc[t] \in {"idle", "created", "registered"} => wpc[t] = "none"
  BY DEF LifeInv, VerdictInv, TypeInv
<1>log. log \in [Tasks -> Seq(Events)] /\ target \in [Cancelers -> Tasks]
        /\ wpc \in [Tasks -> {"none", "waiting", "reaped", "resolved", "emitted",
                          "exit_read", "done"}]
  BY <1>a DEF TypeOK
<1> DEFINE Longer == \E e \in Events : log'[t] = Append(log[t], e)
<1>app. ASSUME NEW u \in Tasks, NEW e \in Events, log' = Appended(u, e)
        PROVE  log'[t] = log[t] \/ Longer
  <2>1. CASE u = t BY <1>app, <1>log, <2>1 DEF Appended
  <2>2. CASE u # t BY <1>app, <1>log, <2>2 DEF Appended
  <2> QED BY <2>1, <2>2
<1>keep. ASSUME log'[t] = log[t] \/ Longer, wpc'[t] = wpc[t] PROVE Written(t)'
  <2>1. CASE log'[t] = log[t] BY <1>a, <1>keep, <2>1 DEF Written, HasVerdict
  <2>2. CASE Longer
    <3>1. PICK e \in Events : log'[t] = Append(log[t], e)
      BY <2>2
    <3>2. HasVerdict(log[t]) => HasVerdict(Append(log[t], e))
      BY <1>log, VerdictKept
    <3>3. HasVerdict(log[t]) => HasVerdict(log'[t])
      BY <3>1, <3>2, Zenon
    <3> HIDE DEF Longer
    <3> QED BY <1>a, <1>keep, <3>3 DEF Written
  <2> QED BY <1>keep, <2>1, <2>2
<1>1. ASSUME NEW u \in Tasks, Dispatch(u) PROVE Written(t)'
  <2>1. CASE DispatchRegister(u)
    <3>1. log'[t] = log[t] \/ Longer
      BY <2>1, <1>app, EventNames DEF DispatchRegister
    <3>2. wpc'[t] = wpc[t]
      BY <2>1 DEF DispatchRegister, waitVars
    <3> QED BY <3>1, <3>2, <1>keep
  <2>2. CASE DispatchSpawn(u)
    BY <1>a, <1>log, <2>2 DEF DispatchSpawn, Written, logVars
  <2>3. CASE UNCHANGED <<log, wpc>>
    BY <1>a, <2>3 DEF Written
  <2> QED BY <1>1, <2>1, <2>2, <2>3 DEF Dispatch, DispatchCreateRow,
         DispatchSpawnRaises, DispatchSetPid, DispatchRecord, logVars, waitVars
<1>2. ASSUME NEW u \in Tasks, ChildExit(u) \/ Graph(u) \/ FlushLog(u)
      PROVE  UNCHANGED <<log, wpc>>
  BY <1>2 DEF ChildExit, Graph, GraphEnd, GraphBlowsUp, FlushLog, logVars, waitVars
<1>3. ASSUME NEW u \in Tasks, Wait(u) PROVE Written(t)'
  <2>1. CASE WaitEmit(u)
    <3>1. verdict[u] \in Verdicts /\ verdict[u] \in Events
      BY <1>a, <2>1, EventNames DEF WaitEmit, VerdictChosen
    <3>2. HasVerdict(Append(log[u], verdict[u]))
      BY <3>1, <1>log, VerdictKept
    <3>3. log'[u] = Append(log[u], verdict[u])
      BY <2>1, <1>log DEF WaitEmit, Appended
    <3>4. CASE u = t
      BY <3>2, <3>3, <3>4 DEF Written
    <3>5. CASE u # t
      BY <1>a, <1>log, <2>1, <3>5 DEF WaitEmit, Appended, Written
    <3> QED BY <3>4, <3>5
  <2>2. CASE ExitRead(u) BY <1>a, <1>log, <2>2 DEF ExitRead, Written, logVars
  <2>3. CASE ExitUpdate(u) BY <1>a, <1>log, <2>3 DEF ExitUpdate, Written, logVars
  <2>4. CASE WaitReap(u) \/ WaitRaises(u) \/ WaitResolve(u)
    BY <1>a, <1>log, <2>4 DEF WaitReap, WaitRaises, WaitResolve, Written, logVars
  <2> QED BY <1>3, <2>1, <2>2, <2>3, <2>4 DEF Wait
<1>4. ASSUME NEW c \in Cancelers, Cancel(c) PROVE Written(t)'
  <2>1. wpc'[t] = wpc[t]
    BY <1>4, CancelFrame DEF waitVars
  <2>2. \/ UNCHANGED log
        \/ \E e \in Events : log' = Appended(target[c], e)
    BY <1>4, EventNames DEF Cancel, CancelCheck, CancelGraceTerminal, CancelGraceExpire,
         CancelSoftMark, CancelSoftPersist, CancelMark, CancelTerm, CancelLog, CancelGone,
         CancelExpire, CancelKill, CancelLogKill, CancelFinish, logVars
  <2>3. log'[t] = log[t] \/ Longer
    BY <2>2, <1>app, <1>log
  <2> QED BY <2>1, <2>3, <1>keep
<1>5. CASE Crash
  BY <1>5 DEF Crash, Written
<1>6. CASE Restart
  BY <1>a, <1>6 DEF Restart, Dead, Written, waitVars
<1>7. CASE UNCHANGED vars
  BY <1>a, <1>7 DEF vars, Written, logVars, waitVars
<1>8. CASE UNCHANGED <<log, wpc>>
  BY <1>a, <1>8 DEF Written
<1> QED BY <1>1, <1>2, <1>3, <1>4, <1>5, <1>6, <1>7, <1>8 DEF Next

\* Where the signals come from: a request that has marked the handle.
LEMMA SignalsFrom ==
    ASSUME TypeOK, NEW c \in Cancelers, Cancel(c), NEW t \in Tasks
    PROVE  \/ sig'[t] = sig[t]
           \/ /\ cpc[c] = "marked" /\ sig'[t] = "term"
              /\ target[c] = t /\ child[t] = "running" /\ sig[t] # "kill"
           \/ /\ cpc[c] = "escalating" /\ sig'[t] = "kill" /\ cpc'[c] = "killed"
              /\ target[c] = t /\ UNCHANGED escalated
<1> USE DEF TypeOK
<1>1. CASE CancelTerm(c)
  BY <1>1 DEF CancelTerm, Goto, Signaled
<1>2. CASE CancelKill(c)
  BY <1>2 DEF CancelKill, Goto, Signaled
<1>3. CASE UNCHANGED sig
  BY <1>3
<1> QED BY <1>1, <1>2, <1>3 DEF Cancel, CancelCheck, CancelGraceTerminal,
       CancelGraceExpire, CancelSoftMark, CancelSoftPersist, CancelMark, CancelLog,
       CancelGone, CancelExpire, CancelLogKill, CancelFinish, procVars

\* A signal is out only after the mark, and the mark lasts until the verdict.
LEMMA SignalsStep ==
    ASSUME LifeInv, [Next]_vars, NEW t \in Tasks
    PROVE  Signals(t)'
<1>a. TypeOK /\ Books(t) /\ Dead(t) /\ Process(t) /\ Outcome(t) /\ Signals(t)
  BY DEF LifeInv, VerdictInv, TypeInv
<1>b. dpc[t] \in {"idle", "created", "registered"} => wpc[t] = "none"
  BY DEF LifeInv, VerdictInv
<1> USE DEF TypeOK, Signals, Doomed, Blown, Chosen, CancelVerdicts, storeVars, procVars,
            waitVars
<1>1. ASSUME NEW u \in Tasks, Dispatch(u) PROVE Signals(t)'
  <2>1. CASE DispatchRegister(u) BY <1>a, <1>b, <2>1 DEF DispatchRegister
  <2>2. CASE DispatchSpawn(u)
    BY <1>a, <1>b, <2>2 DEF DispatchSpawn, Books, Process
  <2>3. CASE DispatchRecord(u) BY <1>a, <1>b, <2>3 DEF DispatchRecord, Books
  <2>4. CASE UNCHANGED <<store, sig, wpc, seen, verdict, gpc>>
    BY <1>a, <2>4
  <2> QED BY <1>1, <2>1, <2>2, <2>3, <2>4 DEF Dispatch, DispatchCreateRow,
         DispatchSpawnRaises, DispatchSetPid
<1>2. ASSUME NEW u \in Tasks, ChildExit(u) \/ FlushLog(u)
      PROVE  UNCHANGED <<store, sig, wpc, seen, verdict, gpc>>
  BY <1>2 DEF ChildExit, FlushLog
<1>3. ASSUME NEW u \in Tasks, Wait(u) PROVE Signals(t)'
  <2>1. CASE WaitReap(u) BY <1>a, <2>1 DEF WaitReap, Process
  <2>2. CASE WaitRaises(u) BY <1>a, <2>2 DEF WaitRaises
  <2>3. CASE WaitResolve(u) BY <1>a, <2>3 DEF WaitResolve, ResolvedVerdict
  <2>4. CASE WaitEmit(u) BY <1>a, <2>4 DEF WaitEmit
  <2>5. CASE ExitRead(u) BY <1>a, <2>5 DEF ExitRead
  <2>6. CASE ExitUpdate(u) BY <1>a, <2>6 DEF ExitUpdate
  <2> QED BY <1>3, <2>1, <2>2, <2>3, <2>4, <2>5, <2>6 DEF Wait
<1>4. ASSUME NEW u \in Tasks, Graph(u) PROVE Signals(t)'
  <2>1. CASE GraphEnd(u) BY <1>a, <2>1 DEF GraphEnd
  <2>2. CASE GraphBlowsUp(u) BY <1>a, <2>2 DEF GraphBlowsUp
  <2> QED BY <1>4, <2>1, <2>2 DEF Graph
<1>5. ASSUME NEW c \in Cancelers, Cancel(c) PROVE Signals(t)'
  <2>1. Marks(c)
    BY DEF LifeInv
  <2>2. sig'[t] = sig[t] \/ (wpc[t] = "waiting" => Doomed(t))
    BY <1>a, <1>5, <2>1, SignalsFrom DEF Marks, Signaling
  <2> QED BY <1>a, <1>5, <2>2, CancelFrame, CancelStore
<1>6. CASE Crash
  BY <1>a, <1>6 DEF Crash
<1>7. CASE Restart
  BY <1>a, <1>7 DEF Restart, Dead
<1>8. CASE UNCHANGED vars
  BY <1>a, <1>8 DEF vars
<1> QED BY <1>a, <1>1, <1>2, <1>3, <1>4, <1>5, <1>6, <1>7, <1>8 DEF Next

\* A request's mark is on the handle when it returns.
LEMMA MarksStep ==
    ASSUME LifeInv, [Next]_vars, NEW c \in Cancelers
    PROVE  Marks(c)'
<1> DEFINE t == target[c]
<1>a. TypeOK /\ t \in Tasks /\ Marks(c) /\ Request(c)
  BY DEF LifeInv, VerdictInv, TypeInv, TypeOK
<1>b. /\ Books(t) /\ Dead(t) /\ Process(t) /\ Outcome(t)
      /\ dpc[t] \in {"idle", "created", "registered"} => wpc[t] = "none"
  BY <1>a DEF LifeInv, VerdictInv
<1> USE DEF TypeOK, Doomed, Blown, storeVars, procVars, waitVars, cancelVars
<1>1. ASSUME NEW u \in Tasks, Dispatch(u) PROVE Marks(c)'
  <2>1. CASE DispatchRegister(u)
    BY <1>a, <1>b, <2>1 DEF DispatchRegister, Books, Marks, Request, Signaling
  <2>2. CASE DispatchSpawn(u)
    BY <1>a, <1>b, <2>2 DEF DispatchSpawn, Books, Marks, Request, Signaling
  <2>3. CASE DispatchRecord(u)
    BY <1>a, <1>b, <2>3 DEF DispatchRecord, Books, Marks
  <2>4. CASE UNCHANGED <<store, reaped, wpc, sawCanceled, gpc, cpc, target>>
    BY <1>a, <2>4 DEF Marks
  <2> QED BY <1>1, <2>1, <2>2, <2>3, <2>4 DEF Dispatch, DispatchCreateRow,
         DispatchSpawnRaises, DispatchSetPid
<1>2. ASSUME NEW u \in Tasks, ChildExit(u) PROVE Marks(c)'
  <2>1. reaped[t] => reaped'[t]
    <3>1. child[u] = "running" /\ reaped' = [reaped EXCEPT ![u] = wpc[u] = "none"]
      BY <1>2, ExitStep
    <3> QED BY <1>a, <1>b, <3>1 DEF Process
  <2> QED BY <1>a, <1>2, <2>1 DEF ChildExit, Marks
<1>3. ASSUME NEW u \in Tasks, Wait(u) PROVE Marks(c)'
  <2>1. CASE WaitReap(u) BY <1>a, <2>1 DEF WaitReap, Marks
  <2>2. CASE WaitRaises(u) BY <1>a, <2>2 DEF WaitRaises, Marks
  <2>3. CASE WaitResolve(u) BY <1>a, <2>3 DEF WaitResolve, Marks
  <2>4. CASE WaitEmit(u) BY <1>a, <2>4 DEF WaitEmit, Marks
  <2>5. CASE ExitRead(u) BY <1>a, <2>5 DEF ExitRead, Marks
  <2>6. CASE ExitUpdate(u) BY <1>a, <1>b, <2>6 DEF ExitUpdate, Marks, Process
  <2> QED BY <1>3, <2>1, <2>2, <2>3, <2>4, <2>5, <2>6 DEF Wait
<1>4. ASSUME NEW u \in Tasks, Graph(u) PROVE Marks(c)'
  <2>1. CASE GraphEnd(u) BY <1>a, <2>1 DEF GraphEnd, Marks
  <2>2. CASE GraphBlowsUp(u) BY <1>a, <2>2 DEF GraphBlowsUp, Marks
  <2> QED BY <1>4, <2>1, <2>2 DEF Graph
<1>5. ASSUME NEW d \in Cancelers, Cancel(d) PROVE Marks(c)'
  <2>s. store'[t] = store[t] \/ store'[t] = "canceled"
    BY <1>a, <1>5, CancelStore
  <2>f. UNCHANGED <<reaped, wpc, sawCanceled, gpc, target>>
    BY <1>5, CancelFrame
  <2>1. CASE cpc'[c] = cpc[c]
    BY <1>a, <2>1, <2>s, <2>f DEF Marks
  <2>2. CASE CancelMark(c)
    <3>1. cpc'[c] = "marked" /\ store'[t] = "canceled"
      BY <1>a, <2>2 DEF CancelMark, Goto
    <3> QED BY <3>1, <2>f DEF Marks, Signaling
  <2>3. CASE CancelTerm(c)
    BY <1>a, <1>b, <2>3, <2>s, <2>f DEF CancelTerm, Goto, Gone, Marks, Signaling, Process
  <2>4. CASE CancelFinish(c)
    BY <1>a, <2>4, <2>f DEF CancelFinish, Goto, Marks, Signaling
  <2>5. CASE /\ cpc[c] \in Signaling \ {"checked", "marked"}
             /\ cpc'[c] \in Signaling \ {"checked", "marked"}
    BY <1>a, <2>5, <2>s, <2>f DEF Marks, Signaling
  <2>6. CASE cpc'[c] \notin Signaling \ {"checked"}
    BY <2>6 DEF Marks, Signaling
  <2> QED BY <1>a, <1>5, <2>1, <2>2, <2>3, <2>4, <2>5, <2>6 DEF Cancel, CancelCheck,
         CancelGraceTerminal, CancelGraceExpire, CancelSoftMark, CancelSoftPersist,
         CancelMark, CancelLog, CancelGone, CancelExpire, CancelKill, CancelLogKill, Goto,
         Signaling, CancelTerm, CancelFinish
<1>6. ASSUME NEW u \in Tasks, FlushLog(u) PROVE Marks(c)'
  BY <1>a, <1>6 DEF FlushLog, Marks
<1>7. CASE Crash
  BY <1>a, <1>7 DEF Crash, Marks, Signaling
<1>8. CASE Restart
  BY <1>a, <1>b, <1>8 DEF Restart, Dead, Marks, Request, Signaling
<1>9. CASE UNCHANGED vars
  BY <1>a, <1>9 DEF vars, Marks
<1> QED BY <1>1, <1>2, <1>3, <1>4, <1>5, <1>6, <1>7, <1>8, <1>9 DEF Next

\* Two requests for one task remain two, until the daemon crashes.
LEMMA TwoStay ==
    ASSUME TypeOK, [Next]_vars, ~Crash, NEW t \in Tasks, Two(t)
    PROVE  Two(t)'
<1>1. UNCHANGED target /\ \A c \in Cancelers : cpc[c] # "idle" => cpc'[c] # "idle"
  <2>1. ASSUME NEW d \in Cancelers, Cancel(d)
        PROVE  UNCHANGED target /\ \A c \in Cancelers : cpc[c] # "idle" => cpc'[c] # "idle"
    BY <2>1 DEF Cancel, CancelCheck, CancelGraceTerminal, CancelGraceExpire,
         CancelSoftMark, CancelSoftPersist, CancelMark, CancelTerm, CancelLog, CancelGone,
         CancelExpire, CancelKill, CancelLogKill, CancelFinish, Goto, TypeOK
  <2>2. ASSUME NEW u \in Tasks,
               Dispatch(u) \/ ChildExit(u) \/ Wait(u) \/ Graph(u) \/ FlushLog(u)
        PROVE  UNCHANGED cancelVars
    BY <2>2 DEF Dispatch, DispatchCreateRow, DispatchRegister, DispatchSpawn,
         DispatchSpawnRaises, DispatchSetPid, DispatchRecord, ChildExit, Wait, WaitReap,
         WaitRaises, WaitResolve, WaitEmit, ExitRead, ExitUpdate, Graph, GraphEnd,
         GraphBlowsUp, FlushLog
  <2>3. CASE Restart BY <2>3 DEF Restart, cancelVars
  <2>4. CASE UNCHANGED vars BY <2>4 DEF vars, cancelVars
  <2> QED BY <2>1, <2>2, <2>3, <2>4 DEF Next, cancelVars
<1> QED BY <1>1 DEF Two

\* The record of a SIGKILL is taken back only on behalf of another request.
LEMMA RecordStays ==
    ASSUME LifeInv, [Next]_vars, NEW t \in Tasks, OnRecord(t), wpc[t] # "none", ~Crash
    PROVE  OnRecord(t)'
<1>a. TypeOK /\ Dead(t)
  BY DEF LifeInv, VerdictInv, TypeInv
<1>1. CASE Two(t)
  BY <1>a, <1>1, TwoStay DEF OnRecord
<1>2. CASE ~Two(t)
  <2>1. PICK c \in Cancelers : /\ target[c] = t /\ escalated[t]
                               /\ cpc[c] \in {"killed", "finishing", "canceled"}
    BY <1>2 DEF OnRecord
  <2>2. \A d \in Cancelers : target[d] = t /\ cpc[d] # "idle" => d = c
    BY <1>2, <2>1 DEF Two
  <2>3. CASE UNCHANGED <<escalated, cpc, target>>
    BY <2>1, <2>3 DEF OnRecord
  <2>4. ASSUME NEW d \in Cancelers, Cancel(d) PROVE OnRecord(t)'
    <3>1. escalated'[t]
      <4>1. CASE CancelMark(d) \/ CancelKill(d)
        <5>1. cpc[d] \in {"checked", "escalating"}
          BY <4>1 DEF CancelMark, CancelKill, Goto
        <5>2. target[d] # t
          BY <5>1, <2>1, <2>2
        <5> QED BY <4>1, <5>2, <2>1, <1>a DEF CancelMark, CancelKill, TypeOK
      <4>2. CASE CancelExpire(d)
        BY <4>2, <2>1, <1>a DEF CancelExpire, TypeOK
      <4>3. CASE UNCHANGED escalated
        BY <4>3, <2>1
      <4> QED BY <2>4, <4>1, <4>2, <4>3 DEF Cancel, CancelCheck, CancelGraceTerminal,
             CancelGraceExpire, CancelSoftMark, CancelSoftPersist, CancelTerm, CancelLog,
             CancelGone, CancelLogKill, CancelFinish, storeVars
    <3>2. cpc'[c] \in {"killed", "finishing", "canceled"} /\ UNCHANGED target
      BY <2>1, <2>4, <1>a DEF Cancel, CancelCheck, CancelGraceTerminal, CancelGraceExpire,
         CancelSoftMark, CancelSoftPersist, CancelMark, CancelTerm, CancelLog, CancelGone,
         CancelExpire, CancelKill, CancelLogKill, CancelFinish, Goto, TypeOK
    <3> QED BY <2>1, <3>1, <3>2 DEF OnRecord
  <2>5. ASSUME NEW u \in Tasks,
               Dispatch(u) \/ ChildExit(u) \/ Wait(u) \/ Graph(u) \/ FlushLog(u)
        PROVE  UNCHANGED <<escalated, cpc, target>>
    BY <2>5 DEF Dispatch, DispatchCreateRow, DispatchRegister, DispatchSpawn,
         DispatchSpawnRaises, DispatchSetPid, DispatchRecord, ChildExit, Wait, WaitReap,
         WaitRaises, WaitResolve, WaitEmit, ExitRead, ExitUpdate, Graph, GraphEnd,
         GraphBlowsUp, FlushLog, storeVars, cancelVars
  <2>6. CASE Restart
    BY <1>a, <2>6 DEF Restart, Dead
  <2>7. CASE UNCHANGED vars
    BY <2>3, <2>7 DEF vars, storeVars, cancelVars
  <2> QED BY <2>3, <2>4, <2>5, <2>6, <2>7 DEF Next
<1> QED BY <1>1, <1>2

\* A SIGKILL that was sent and seen is reported, or two requests were made.
LEMMA KillsStep ==
    ASSUME LifeInv, [Next]_vars, NEW t \in Tasks
    PROVE  Kills(t)'
<1>a. TypeOK /\ Books(t) /\ Dead(t) /\ Process(t) /\ Outcome(t) /\ Signals(t) /\ Kills(t)
  BY DEF LifeInv, VerdictInv, TypeInv
<1>b. dpc[t] \in {"idle", "created", "registered"} => wpc[t] = "none"
  BY DEF LifeInv, VerdictInv
<1>c. CASE Crash
  BY <1>c DEF Crash, Kills, Chosen
<1>d. CASE Restart
  BY <1>a, <1>d DEF Restart, Dead, Kills, Chosen, waitVars
<1>e. ASSUME ~Crash, wpc[t] # "none" PROVE OnRecord(t) => OnRecord(t)'
  BY <1>e, RecordStays
<1>f. ASSUME ~Crash PROVE Two(t) => Two(t)'
  BY <1>a, <1>f, TwoStay
<1>g. ASSUME ~Crash, wpc'[t] = wpc[t], seen'[t] = seen[t], verdict'[t] = verdict[t],
             sig'[t] = sig[t], gpc'[t] = gpc[t] \/ gpc'[t] = "blown" \/ wpc[t] = "none"
                               \/ gpc[t] # "blown"
      PROVE  Kills(t)'
  <2>1. CASE wpc[t] = "none"
    BY <1>g, <2>1 DEF Kills, Chosen
  <2>2. CASE wpc[t] # "none"
    BY <1>a, <1>e, <1>f, <1>g, <2>2 DEF Kills, Chosen, KillReported, Blown
  <2> QED BY <2>1, <2>2
<1>1. ASSUME NEW u \in Tasks, Dispatch(u), ~Crash PROVE Kills(t)'
  <2>1. CASE DispatchSpawn(u)
    <3>1. CASE u = t
      <4>1. sig'[t] = "none" /\ wpc'[t] = "waiting"
        BY <1>a, <2>1, <3>1 DEF DispatchSpawn, Books, Process, TypeOK
      <4> QED BY <4>1 DEF Kills, Chosen
    <3>2. CASE u # t
      BY <1>a, <1>1, <1>g, <2>1, <3>2 DEF DispatchSpawn, TypeOK
    <3> QED BY <3>1, <3>2
  <2>2. CASE DispatchRecord(u)
    <3>1. UNCHANGED <<wpc, seen, verdict, sig>>
      BY <2>2 DEF DispatchRecord, waitVars, procVars
    <3>2. gpc'[t] = gpc[t] \/ gpc[t] # "blown"
      BY <1>a, <2>2 DEF DispatchRecord, Books, TypeOK
    <3> QED BY <1>1, <1>g, <3>1, <3>2
  <2>3. CASE UNCHANGED <<wpc, seen, verdict, sig, gpc>>
    BY <1>1, <1>g, <2>3
  <2> QED BY <1>1, <2>1, <2>2, <2>3 DEF Dispatch, DispatchCreateRow, DispatchRegister,
         DispatchSpawnRaises, DispatchSetPid, procVars, waitVars
<1>2. ASSUME NEW u \in Tasks, ChildExit(u) \/ FlushLog(u), ~Crash PROVE Kills(t)'
  <2>1. UNCHANGED <<wpc, seen, verdict, sig, gpc>>
    BY <1>2 DEF ChildExit, FlushLog, procVars, waitVars
  <2> QED BY <1>2, <1>g, <2>1
<1>3. ASSUME NEW u \in Tasks, Wait(u), ~Crash PROVE Kills(t)'
  <2>1. CASE u # t
    <3>1. /\ wpc'[t] = wpc[t] /\ seen'[t] = seen[t] /\ verdict'[t] = verdict[t]
          /\ UNCHANGED <<sig, gpc>>
      BY <1>a, <1>3, <2>1 DEF TypeOK, Wait, WaitReap, WaitRaises, WaitResolve, WaitEmit,
           ExitRead, ExitUpdate, procVars
    <3> QED BY <1>3, <1>g, <3>1
  <2>2. CASE u = t
    <3>0. OnRecord(t) => OnRecord(t)'
      BY <1>3, <1>e, <2>2 DEF Wait, WaitReap, WaitRaises, WaitResolve, WaitEmit,
           ExitRead, ExitUpdate
    <3>1. CASE WaitReap(t)
      BY <1>a, <3>0, <3>1 DEF WaitReap, Kills, Chosen, Process, TypeOK
    <3>2. CASE WaitRaises(t)
      BY <1>a, <3>2 DEF WaitRaises, Kills, Chosen, TypeOK
    <3>3. CASE WaitResolve(t)
      <4>1. /\ wpc[t] = "reaped" /\ wpc'[t] = "resolved" /\ UNCHANGED <<seen, gpc>>
            /\ verdict'[t] = ResolvedVerdict(t, seen[t])
        BY <1>a, <3>3 DEF WaitResolve, TypeOK
      <4>2. SUFFICES ASSUME seen[t] = "kill", ~Blown(t), ~Two(t)'
                     PROVE  KillReported(t)'
        BY <4>1 DEF Kills, Chosen, Blown
      <4>3. escalated[t] /\ store[t] = "canceled"
        <5>1. ~Two(t)
          BY <1>3, <1>f, <4>2
        <5> QED BY <1>a, <4>1, <4>2, <5>1 DEF Kills, OnRecord, Signals, Doomed
      <4> QED BY <4>1, <4>3 DEF ResolvedVerdict, KillReported
    <3>4. CASE WaitEmit(t) \/ ExitRead(t) \/ ExitUpdate(t)
      <4>1. /\ Chosen(t) /\ wpc'[t] \in {"emitted", "exit_read", "done"}
            /\ UNCHANGED <<seen, verdict, gpc>>
        BY <1>a, <3>4 DEF WaitEmit, ExitRead, ExitUpdate, Chosen, TypeOK
      <4> QED BY <1>3, <1>a, <1>f, <4>1 DEF Kills, Chosen, KillReported, Blown
    <3> QED BY <1>3, <2>2, <3>1, <3>2, <3>3, <3>4 DEF Wait
  <2> QED BY <2>1, <2>2
<1>4. ASSUME NEW u \in Tasks, Graph(u), ~Crash PROVE Kills(t)'
  <2>1. /\ UNCHANGED <<wpc, seen, verdict, sig>>
        /\ gpc'[t] = gpc[t] \/ gpc[t] # "blown"
    BY <1>a, <1>4 DEF Graph, GraphEnd, GraphBlowsUp, TypeOK, procVars, waitVars
  <2> QED BY <1>4, <1>g, <2>1
<1>5. ASSUME NEW c \in Cancelers, Cancel(c), ~Crash PROVE Kills(t)'
  <2>1. UNCHANGED <<wpc, seen, verdict, gpc, target>>
    BY <1>5, CancelFrame DEF waitVars
  <2>2. CASE sig'[t] = sig[t]
    BY <1>5, <1>g, <2>1, <2>2
  <2>3. CASE sig'[t] # sig[t]
    <3>1. sig'[t] = "kill" => OnRecord(t)'
      <4>1. SUFFICES ASSUME sig'[t] = "kill" PROVE OnRecord(t)'
        OBVIOUS
      <4>2. /\ cpc[c] = "escalating" /\ cpc'[c] = "killed" /\ target[c] = t
            /\ UNCHANGED escalated
        BY <1>a, <1>5, <2>3, <4>1, SignalsFrom
      <4>3. escalated[t] \/ Two(t)
        BY <4>2 DEF LifeInv, Escalates
      <4> QED BY <1>5, <1>f, <2>1, <4>2, <4>3 DEF OnRecord
    <3>2. CASE wpc[t] = "none"
      BY <2>1, <3>2 DEF Kills, Chosen
    <3>3. CASE wpc[t] # "none"
      BY <1>5, <1>a, <1>e, <1>f, <2>1, <3>1, <3>3 DEF Kills, Chosen, KillReported, Blown
    <3> QED BY <3>2, <3>3
  <2> QED BY <2>2, <2>3
<1>6. CASE UNCHANGED vars
  <2>1. Two(t)' = Two(t) /\ OnRecord(t)' = OnRecord(t)
    BY <1>6 DEF vars, Two, OnRecord, cancelVars, storeVars
  <2> QED BY <1>a, <1>6, <2>1 DEF vars, Kills, Chosen, KillReported, Blown, waitVars, procVars
<1> QED BY <1>c, <1>d, <1>1, <1>2, <1>3, <1>4, <1>5, <1>6 DEF Next

\* The escalation is on record before SIGKILL goes out.
LEMMA EscalatesStep ==
    ASSUME LifeInv, [Next]_vars, NEW c \in Cancelers
    PROVE  Escalates(c)'
<1>t. PICK t \in Tasks : t = target[c]
  BY DEF LifeInv, VerdictInv, TypeInv, TypeOK
<1>a. TypeOK /\ Escalates(c) /\ Request(c) /\ target[c] = t
  BY <1>t DEF LifeInv, VerdictInv, TypeInv
<1>b. Dead(t)
  BY <1>a DEF LifeInv
<1>1. CASE Crash
  BY <1>a, <1>1 DEF Crash, Escalates
<1>2. CASE Restart
  BY <1>a, <1>b, <1>2 DEF Restart, Dead, Escalates, Request, Signaling, cancelVars
<1>two. ASSUME ~Crash PROVE Two(t) => Two(t)'
  BY <1>a, <1>two, TwoStay
<1>3. ASSUME UNCHANGED <<escalated, cpc, target>>, ~Crash PROVE Escalates(c)'
  BY <1>a, <1>3, <1>two DEF Escalates
<1>4. ASSUME NEW d \in Cancelers, Cancel(d), ~Crash PROVE Escalates(c)'
  <2>0. UNCHANGED target
    BY <1>4, CancelFrame
  <2>1. CASE CancelExpire(d)
    <3>1. /\ escalated' = [escalated EXCEPT ![target[d]] = TRUE]
          /\ cpc' = [cpc EXCEPT ![d] = "escalating"]
      BY <2>1 DEF CancelExpire, Goto
    <3>2. CASE d = c
      BY <1>a, <2>0, <3>1, <3>2 DEF Escalates, TypeOK
    <3>3. CASE d # c
      BY <1>a, <1>4, <1>two, <2>0, <3>1, <3>3 DEF Escalates, TypeOK
    <3> QED BY <3>2, <3>3
  <2>2. CASE CancelMark(d) \/ CancelKill(d)
    <3>1. SUFFICES ASSUME cpc'[c] = "escalating" PROVE escalated'[t] \/ Two(t)'
      BY <1>a, <2>0 DEF Escalates
    <3>2. /\ c # d /\ cpc[c] = "escalating" /\ cpc[d] # "idle"
      BY <1>a, <2>2, <3>1 DEF CancelMark, CancelKill, Goto, TypeOK
    <3>3. CASE target[d] = t
      <4>1. Two(t)
        BY <1>a, <3>2, <3>3 DEF Two
      <4> QED BY <1>4, <1>two, <4>1
    <3>4. CASE target[d] # t
      <4>1. escalated'[t] = escalated[t]
        BY <1>a, <2>2, <3>4 DEF CancelMark, CancelKill, TypeOK
      <4> QED BY <1>a, <1>4, <1>two, <3>2, <4>1 DEF Escalates
    <3> QED BY <3>3, <3>4
  <2>3. CASE UNCHANGED escalated /\ (cpc'[c] = "escalating" => cpc[c] = "escalating")
    BY <1>a, <1>4, <1>two, <2>0, <2>3 DEF Escalates
  <2> QED BY <1>a, <1>4, <2>1, <2>2, <2>3 DEF Cancel, CancelCheck, CancelGraceTerminal,
         CancelGraceExpire, CancelSoftMark, CancelSoftPersist, CancelTerm, CancelLog,
         CancelGone, CancelLogKill, CancelFinish, Goto, TypeOK, storeVars
<1>5. ASSUME NEW u \in Tasks,
             Dispatch(u) \/ ChildExit(u) \/ Wait(u) \/ Graph(u) \/ FlushLog(u)
      PROVE  UNCHANGED <<escalated, cpc, target>>
  BY <1>5 DEF Dispatch, DispatchCreateRow, DispatchRegister, DispatchSpawn,
       DispatchSpawnRaises, DispatchSetPid, DispatchRecord, ChildExit, Wait, WaitReap,
       WaitRaises, WaitResolve, WaitEmit, ExitRead, ExitUpdate, Graph, GraphEnd,
       GraphBlowsUp, FlushLog, storeVars, cancelVars
<1>6. CASE UNCHANGED vars
  BY <1>a, <1>6 DEF vars, Escalates, Two, cancelVars, storeVars
<1> QED BY <1>1, <1>2, <1>3, <1>4, <1>5, <1>6 DEF Next

-----------------------------------------------------------------------------
(* The invariant, and what it says of the system *)

LEMMA LifeInit == Init => LifeInv
<1> SUFFICES ASSUME Init PROVE LifeInv
  OBVIOUS
<1>1. VerdictInv
  <2>1. \A t \in Plain : log[t] = <<>>
    BY DEF Init, Plain
  <2>2. OneVerdict /\ \A t \in Plain : ~HasVerdict(log[t])
    BY <2>1 DEF OneVerdict, OneVerdictIn, HasVerdict
  <2> QED BY <2>2, TypeInit DEF VerdictInv, Init
<1>2. ASSUME NEW t \in Tasks PROVE Books(t) /\ Dead(t) /\ Recorded(t)
  BY DEF Init, Books, Dead, Recorded
<1>3. ASSUME NEW c \in Cancelers PROVE Request(c) /\ Marks(c) /\ Escalates(c)
  BY DEF Init, Request, Marks, Escalates, Signaling
<1>4. ASSUME NEW t \in Tasks PROVE Process(t) /\ Outcome(t) /\ Written(t)
  BY DEF Init, Process, Outcome, Written, Chosen, CancelVerdicts
<1>5. ASSUME NEW t \in Tasks PROVE Signals(t) /\ Kills(t)
  BY DEF Init, Signals, Kills, Chosen
<1> QED BY <1>1, <1>2, <1>3, <1>4, <1>5 DEF LifeInv

LEMMA LifeStep == LifeInv /\ [Next]_vars => LifeInv'
<1> SUFFICES ASSUME LifeInv, [Next]_vars PROVE LifeInv'
  OBVIOUS
<1>1. VerdictInv'
  BY VerdictInvStep DEF LifeInv
<1>2. \A t \in Tasks : Books(t)' /\ Dead(t)' /\ Recorded(t)'
  BY BooksStep, DeadStep, RecordedStep
<1>3. \A c \in Cancelers : Request(c)' /\ Marks(c)' /\ Escalates(c)'
  BY RequestStep, MarksStep, EscalatesStep
<1>4. \A t \in Tasks : Process(t)' /\ Outcome(t)' /\ Written(t)'
  BY ProcessStep, OutcomeStep, WrittenStep
<1>5. \A t \in Tasks : Signals(t)' /\ Kills(t)'
  BY SignalsStep, KillsStep
<1> QED BY <1>1, <1>2, <1>3, <1>4, <1>5 DEF LifeInv

\* What the invariant says, in the words of the properties.
LEMMA LifeSays ==
    ASSUME LifeInv
    PROVE  /\ NoGhostRunning
           /\ "dispatch_row" \notin Faults => DispatchSurvives
           /\ "graph" \notin Faults =>
                /\ SignalDeathIsCanceled /\ SoleSigkillIsReported
                /\ StoreFollowsVerdict /\ VerdictBeforeState
           /\ "graph" \notin Faults /\ "wait" \notin Faults => CancelSticks
<1>t. TypeOK
  BY DEF LifeInv, VerdictInv, TypeInv
<1>1. NoGhostRunning
  BY DEF LifeInv, Books, NoGhostRunning
<1>2. "dispatch_row" \notin Faults => DispatchSurvives
  BY DEF LifeInv, Recorded, DispatchSurvives
<1>3. "graph" \notin Faults => \A t \in Tasks : ~Blown(t)
  BY DEF LifeInv, Books, Blown
<1>4. "graph" \notin Faults => SignalDeathIsCanceled
  BY <1>3 DEF LifeInv, Outcome, Signals, CancelVerdicts, SignalDeathIsCanceled
<1>5. "graph" \notin Faults => SoleSigkillIsReported
  <2>1. ASSUME "graph" \notin Faults, NEW t \in Tasks, seen[t] = "kill"
        PROVE  KillReported(t) \/ Two(t)
    <3>1. Kills(t) /\ Outcome(t) /\ ~Blown(t)
      BY <1>3, <2>1 DEF LifeInv
    <3> QED BY <2>1, <3>1 DEF Kills, Outcome, KillReported
  <2> QED BY <2>1 DEF SoleSigkillIsReported, Two
<1>6. "graph" \notin Faults => StoreFollowsVerdict
  BY <1>3 DEF LifeInv, Outcome, Doomed, StoreFollowsVerdict
<1>7. "graph" \notin Faults => VerdictBeforeState
  BY <1>3 DEF LifeInv, Outcome, Written, VerdictBeforeState
<1>8. "graph" \notin Faults /\ "wait" \notin Faults => CancelSticks
  BY <1>t, <1>3 DEF LifeInv, Marks, Signaling, CancelSticks, TypeOK
<1> QED BY <1>1, <1>2, <1>4, <1>5, <1>6, <1>7, <1>8

LEMMA LifeHolds == Spec => []LifeInv
  BY LifeInit, LifeStep, PTL DEF Spec

\* No restart brings back as RUNNING a task of popolad that was never spawned
\* (rehydrate_from_persistence), whatever fails.
THEOREM RestartsAreNoGhosts == Spec => []NoGhostRunning
<1>1. LifeInv => NoGhostRunning
  BY LifeSays
<1> QED BY <1>1, LifeHolds, PTL

\* A task whose dispatch has returned is in the store of every later daemon,
\* where the row of the dispatch gets written (_record_popola_dispatch swallows
\* its failure).
THEOREM DispatchesSurvive ==
    Spec => []("dispatch_row" \notin Faults => DispatchSurvives)
<1>1. LifeInv => ("dispatch_row" \notin Faults => DispatchSurvives)
  BY LifeSays
<1> QED BY <1>1, LifeHolds, PTL

\* A process that dies of a signal of cancel_task is reported canceled, where no
\* graph thread overwrites the handle (_run_graph_for_task).
THEOREM SignalDeathsAreCanceled ==
    Spec => []("graph" \notin Faults => SignalDeathIsCanceled)
<1>1. LifeInv => ("graph" \notin Faults => SignalDeathIsCanceled)
  BY LifeSays
<1> QED BY <1>1, LifeHolds, PTL

\* With one request for a task, the verdict of a process that SIGKILL ended says
\* that the cancel escalated.
THEOREM SoleSigkillsAreReported ==
    Spec => []("graph" \notin Faults => SoleSigkillIsReported)
<1>1. LifeInv => ("graph" \notin Faults => SoleSigkillIsReported)
  BY LifeSays
<1> QED BY <1>1, LifeHolds, PTL

\* The exit callback leaves the handle in the state of the verdict, or CANCELED.
THEOREM StoreFollows ==
    Spec => []("graph" \notin Faults => StoreFollowsVerdict)
<1>1. LifeInv => ("graph" \notin Faults => StoreFollowsVerdict)
  BY LifeSays
<1> QED BY <1>1, LifeHolds, PTL

\* attach_stream, which stops at a terminal handle, has the terminal event in
\* the log by then.
THEOREM VerdictsComeFirst ==
    Spec => []("graph" \notin Faults => VerdictBeforeState)
<1>1. LifeInv => ("graph" \notin Faults => VerdictBeforeState)
  BY LifeSays
<1> QED BY <1>1, LifeHolds, PTL

\* A handle is CANCELED when the call that canceled it returns, and stays so,
\* where neither the graph nor proc.wait() fails.
THEOREM CancelsStick ==
    Spec => []("graph" \notin Faults /\ "wait" \notin Faults => CancelSticks)
<1>1. LifeInv => ("graph" \notin Faults /\ "wait" \notin Faults => CancelSticks)
  BY LifeSays
<1> QED BY <1>1, LifeHolds, PTL
-----------------------------------------------------------------------------
(* The contract.  What the handle, the exit code and the log say that the    *)
(* theorems above did not need.                                             *)

\* A thread or a pid has a handle.
Handle(t) ==
    /\ hasPid[t] \/ wpc[t] # "none" \/ gpc[t] # "none" => store[t] # "absent"
    /\ Blown(t) => store[t] \in Terminal
    /\ dpc[t] = "registered" => store[t] = "running"

\* The wait thread has the exit code of the process, unless proc.wait raised.
Witness(t) ==
    /\ seen[t] = "ok" => child[t] = "ok"
    /\ seen[t] = "err" => child[t] = "err" \/ "wait" \in Faults

\* Whatever says canceled says so because of a request.
Called(t) ==
    store[t] = "canceled" \/ verdict[t] \in CancelVerdicts \/ sawCanceled[t] => AskedFor(t)

\* The log tells the verdict of the wait thread, from the append on.
Telling(t) == wpc[t] \in {"emitted", "exit_read", "done"} => Heard(log[t]) = {verdict[t]}

ContractInv ==
    /\ LifeInv
    /\ \A t \in Tasks : Handle(t) /\ Witness(t)
    /\ \A t \in Plain : Called(t) /\ Telling(t)

LEMMA HandleStep ==
    ASSUME LifeInv, [Next]_vars, NEW t \in Tasks, Handle(t)
    PROVE  Handle(t)'
<1>a. TypeOK /\ Books(t) /\ Dead(t) /\ Outcome(t)
  BY DEF LifeInv, VerdictInv, TypeInv
<1>b. dpc[t] \in {"idle", "created", "registered"} => wpc[t] = "none"
  BY DEF LifeInv, VerdictInv
<1> USE DEF TypeOK, Handle, Books, Blown, Terminal, sysVars, storeVars, waitVars
<1>1. ASSUME NEW u \in Tasks, Dispatch(u) PROVE Handle(t)'
  <2>1. CASE DispatchCreateRow(u) BY <1>a, <1>b, <2>1 DEF DispatchCreateRow
  <2>2. CASE DispatchRegister(u) BY <1>a, <1>b, <2>2 DEF DispatchRegister
  <2>3. CASE DispatchSpawn(u) BY <1>a, <1>b, <2>3 DEF DispatchSpawn
  <2>4. CASE DispatchSpawnRaises(u) BY <1>a, <1>b, <2>4 DEF DispatchSpawnRaises
  <2>5. CASE DispatchSetPid(u)
    <3>1. store[u] # "absent"
      BY <2>5 DEF DispatchSetPid, LifeInv, Recorded
    <3> QED BY <1>a, <1>b, <2>5, <3>1 DEF DispatchSetPid
  <2>6. CASE DispatchRecord(u)
    <3>1. store[u] # "absent"
      BY <2>6 DEF DispatchRecord, LifeInv, Recorded
    <3> QED BY <1>a, <1>b, <2>6, <3>1 DEF DispatchRecord
  <2> QED BY <1>1, <2>1, <2>2, <2>3, <2>4, <2>5, <2>6 DEF Dispatch
<1>2. ASSUME NEW u \in Tasks, ChildExit(u) \/ FlushLog(u)
      PROVE  UNCHANGED <<store, hasPid, wpc, gpc, dpc>>
  BY <1>2 DEF ChildExit, FlushLog
<1>3. ASSUME NEW u \in Tasks, Wait(u) PROVE Handle(t)'
  <2>1. CASE ExitUpdate(u) BY <1>a, <1>b, <2>1 DEF ExitUpdate
  <2>2. CASE WaitReap(u) \/ WaitRaises(u) \/ WaitResolve(u) \/ WaitEmit(u) \/ ExitRead(u)
    BY <1>a, <2>2 DEF WaitReap, WaitRaises, WaitResolve, WaitEmit, ExitRead
  <2> QED BY <1>3, <2>1, <2>2 DEF Wait
<1>4. ASSUME NEW u \in Tasks, Graph(u) PROVE Handle(t)'
  BY <1>a, <1>b, <1>4 DEF Graph, GraphEnd, GraphBlowsUp
<1>5. ASSUME NEW c \in Cancelers, Cancel(c) PROVE Handle(t)'
  <2>1. UNCHANGED <<hasPid, wpc, gpc, dpc>>
    BY <1>5, CancelFrame
  <2>2. CASE UNCHANGED store
    BY <2>1, <2>2
  <2>3. CASE /\ store' = [store EXCEPT ![target[c]] = "canceled"]
             /\ target[c] \in Foreign \/ hasPid[target[c]]
    <3>1. CASE target[c] = t
      BY <1>a, <2>1, <2>3, <3>1
    <3>2. CASE target[c] # t
      <4>1. store'[t] = store[t]
        BY <1>a, <2>3, <3>2
      <4> QED BY <2>1, <4>1
    <3> QED BY <3>1, <3>2
  <2> QED BY <1>5, <2>2, <2>3, CancelStore
<1>6. CASE Crash
  BY <1>a, <1>6 DEF Crash
<1>7. CASE Restart
  BY <1>a, <1>7 DEF Restart, Dead
<1>8. CASE UNCHANGED vars
  BY <1>a, <1>8 DEF vars
<1> QED BY <1>a, <1>1, <1>2, <1>3, <1>4, <1>5, <1>6, <1>7, <1>8 DEF Next

LEMMA WitnessStep ==
    ASSUME LifeInv, [Next]_vars, NEW t \in Tasks, Witness(t)
    PROVE  Witness(t)'
<1>a. TypeOK /\ Books(t) /\ Process(t)
  BY DEF LifeInv, VerdictInv, TypeInv
<1>b. dpc[t] \in {"idle", "created", "registered"} => wpc[t] = "none"
  BY DEF LifeInv, VerdictInv
<1> USE DEF TypeOK, Witness, procVars, waitVars, Exits
<1>1. ASSUME NEW u \in Tasks, Dispatch(u) PROVE Witness(t)'
  <2>1. CASE DispatchSpawn(u)
    BY <1>a, <1>b, <2>1 DEF DispatchSpawn, Books, Process
  <2>2. CASE UNCHANGED <<child, seen>>
    BY <2>2
  <2> QED BY <1>1, <2>1, <2>2 DEF Dispatch, DispatchCreateRow, DispatchRegister,
         DispatchSpawnRaises, DispatchSetPid, DispatchRecord
<1>2. ASSUME NEW u \in Tasks, ChildExit(u) PROVE Witness(t)'
  <2>1. PICK x \in Exits : child' = [child EXCEPT ![u] = x]
    BY <1>2, ExitStep
  <2>2. child[u] = "running" /\ UNCHANGED seen
    BY <1>2, ExitStep
  <2> QED BY <1>a, <2>1, <2>2
<1>3. ASSUME NEW u \in Tasks, Wait(u) PROVE Witness(t)'
  <2>1. CASE WaitReap(u) BY <1>a, <2>1 DEF WaitReap
  <2>2. CASE WaitRaises(u) BY <1>a, <2>2 DEF WaitRaises
  <2>3. CASE UNCHANGED <<child, seen>> BY <2>3
  <2> QED BY <1>3, <2>1, <2>2, <2>3 DEF Wait, WaitResolve, WaitEmit, ExitRead, ExitUpdate
<1>4. ASSUME NEW u \in Tasks, Graph(u) \/ FlushLog(u) PROVE UNCHANGED <<child, seen>>
  BY <1>4 DEF Graph, GraphEnd, GraphBlowsUp, FlushLog
<1>5. ASSUME NEW c \in Cancelers, Cancel(c) PROVE UNCHANGED <<child, seen>>
  BY <1>5, CancelFrame
<1>6. CASE Crash
  BY <1>a, <1>6 DEF Crash
<1>7. CASE Restart
  BY <1>7 DEF Restart
<1>8. CASE UNCHANGED vars
  BY <1>8 DEF vars
<1> QED BY <1>1, <1>2, <1>3, <1>4, <1>5, <1>6, <1>7, <1>8 DEF Next

\* What has been asked for stays asked for, unless the daemon crashes.
LEMMA AskStays ==
    ASSUME LifeInv, Next, ~Crash, NEW t \in Tasks, AskedFor(t)
    PROVE  AskedFor(t)'
<1>a. TypeOK
  BY DEF LifeInv, VerdictInv, TypeInv
<1>0. CASE UNCHANGED <<sig, cpc, target>>
  BY <1>0 DEF AskedFor
<1>1. ASSUME NEW u \in Tasks,
             Dispatch(u) \/ ChildExit(u) \/ Wait(u) \/ Graph(u) \/ FlushLog(u)
      PROVE  UNCHANGED <<sig, cpc, target>>
  BY <1>1 DEF Dispatch, DispatchCreateRow, DispatchRegister, DispatchSpawn,
       DispatchSpawnRaises, DispatchSetPid, DispatchRecord, ChildExit, Wait, WaitReap,
       WaitRaises, WaitResolve, WaitEmit, ExitRead, ExitUpdate, Graph, GraphEnd,
       GraphBlowsUp, FlushLog, procVars, cancelVars
<1>2. ASSUME NEW c \in Cancelers, Cancel(c) PROVE AskedFor(t)'
  <2>1. sig[t] # "none" => sig'[t] # "none"
    BY <1>a, <1>2, SignalsFrom
  <2>2. UNCHANGED target /\ \A d \in Cancelers : cpc[d] \in Accepted => cpc'[d] \in Accepted
    BY <1>a, <1>2 DEF TypeOK, Cancel, CancelCheck, CancelGraceTerminal, CancelGraceExpire,
       CancelSoftMark, CancelSoftPersist, CancelMark, CancelTerm, CancelLog, CancelGone,
       CancelExpire, CancelKill, CancelLogKill, CancelFinish, Goto, Accepted
  <2> QED BY <2>1, <2>2 DEF AskedFor
<1>3. CASE Restart
  BY <1>0, <1>3 DEF Restart, procVars, cancelVars
<1> QED BY <1>0, <1>1, <1>2, <1>3 DEF Next

\* What a request writes in the handle it was asked to.
LEMMA CancelAsks ==
    ASSUME LifeInv, NEW c \in Cancelers, Cancel(c), NEW t \in Plain
    PROVE  \/ store'[t] = store[t]
           \/ store'[t] = "canceled" /\ up /\ hasPid[t] /\ AskedFor(t)'
<1>a. TypeOK /\ t \in Tasks /\ t \notin Foreign
  BY DEF LifeInv, VerdictInv, TypeInv, Plain
<1>1. CASE CancelMark(c) \/ CancelFinish(c)
  <2>1. /\ store' = [store EXCEPT ![target[c]] = "canceled"] /\ UNCHANGED <<sig, target>>
        /\ cpc'[c] \in Accepted
    BY <1>a, <1>1 DEF CancelMark, CancelFinish, Goto, Accepted, TypeOK, procVars
  <2>2. CASE target[c] = t
    <3>1. AskedFor(t)'
      BY <2>1, <2>2 DEF AskedFor
    <3>2. up /\ (t \in Foreign \/ hasPid[t] \/ UNCHANGED store)
      BY <1>1, <2>2, CancelStore DEF CancelMark, CancelFinish
    <3> QED BY <1>a, <2>1, <2>2, <3>1, <3>2 DEF TypeOK
  <2>3. CASE target[c] # t
    BY <1>a, <2>1, <2>3 DEF TypeOK
  <2> QED BY <2>2, <2>3
<1>2. CASE CancelSoftMark(c)
  <2>1. target[c] \in Foreign
    BY <1>2 DEF CancelSoftMark, Goto, LifeInv, VerdictInv
  <2> QED BY <1>a, <1>2, <2>1 DEF CancelSoftMark, TypeOK
<1>3. CASE UNCHANGED store
  BY <1>3
<1> QED BY <1>1, <1>2, <1>3 DEF Cancel, CancelCheck, CancelGraceTerminal,
       CancelGraceExpire, CancelSoftPersist, CancelTerm, CancelLog, CancelGone,
       CancelExpire, CancelKill, CancelLogKill, storeVars

LEMMA CalledStep ==
    ASSUME LifeInv, [Next]_vars, NEW t \in Plain, Called(t)
    PROVE  Called(t)'
<1>a. TypeOK /\ t \in Tasks
  BY DEF LifeInv, VerdictInv, TypeInv, Plain
<1>0. ASSUME store'[t] = "canceled" => store[t] = "canceled",
             verdict'[t] \in CancelVerdicts =>
                 verdict[t] \in CancelVerdicts \/ store[t] = "canceled",
             sawCanceled'[t] = TRUE => sawCanceled[t] \/ store[t] = "canceled",
             AskedFor(t) => AskedFor(t)', sawCanceled' \in [Tasks -> BOOLEAN]
      PROVE  Called(t)'
  BY <1>0, <1>a DEF Called
<1>b. sawCanceled' \in [Tasks -> BOOLEAN]
  BY TypeStep DEF LifeInv, VerdictInv, TypeOK
<1>c. Next /\ ~Crash => (AskedFor(t) => AskedFor(t)')
  BY <1>a, AskStays
<1> USE DEF TypeOK, storeVars, waitVars
<1>1. ASSUME NEW u \in Tasks, Dispatch(u)
      PROVE  /\ store'[t] = "canceled" => store[t] = "canceled"
             /\ verdict'[t] = verdict[t] /\ sawCanceled'[t] = sawCanceled[t]
  BY <1>a, <1>1 DEF Dispatch, DispatchCreateRow, DispatchRegister, DispatchSpawn,
     DispatchSpawnRaises, DispatchSetPid, DispatchRecord
<1>2. ASSUME NEW u \in Tasks, ChildExit(u) \/ FlushLog(u) \/ Graph(u)
      PROVE  /\ store'[t] = "canceled" => store[t] = "canceled"
             /\ verdict'[t] = verdict[t] /\ sawCanceled'[t] = sawCanceled[t]
  BY <1>a, <1>2 DEF ChildExit, FlushLog, Graph, GraphEnd, GraphBlowsUp
<1>3. ASSUME NEW u \in Tasks, Wait(u)
      PROVE  /\ store'[t] = "canceled" => store[t] = "canceled"
             /\ verdict'[t] \in CancelVerdicts =>
                    verdict[t] \in CancelVerdicts \/ store[t] = "canceled"
             /\ sawCanceled'[t] = TRUE => sawCanceled[t] \/ store[t] = "canceled"
  <2>1. CASE WaitResolve(u)
    BY <1>a, <2>1 DEF WaitResolve, ResolvedVerdict, CancelVerdicts
  <2>2. CASE ExitRead(u)
    BY <1>a, <2>2 DEF ExitRead
  <2>3. CASE ExitUpdate(u)
    BY <1>a, <2>3 DEF ExitUpdate
  <2>4. CASE UNCHANGED <<store, verdict, sawCanceled>>
    BY <2>4
  <2> QED BY <1>3, <2>1, <2>2, <2>3, <2>4 DEF Wait, WaitReap, WaitRaises, WaitEmit
<1>4. ASSUME NEW c \in Cancelers, Cancel(c) PROVE Called(t)'
  <2>1. UNCHANGED <<verdict, sawCanceled>> /\ ~Crash
    BY <1>4, CancelFrame DEF Crash, Cancel, CancelCheck, CancelGraceTerminal,
       CancelGraceExpire, CancelSoftMark, CancelSoftPersist, CancelMark, CancelTerm,
       CancelLog, CancelGone, CancelExpire, CancelKill, CancelLogKill, CancelFinish
  <2>2. AskedFor(t) => AskedFor(t)'
    BY <1>4, <1>c, <2>1 DEF Next
  <2> QED BY <1>4, <2>1, <2>2, CancelAsks DEF Called
<1>5. CASE Crash
  BY <1>a, <1>5 DEF Crash, Called, CancelVerdicts
<1>6. CASE Restart
  <2>1. UNCHANGED <<sig, cpc, target, verdict, sawCanceled>> /\ store'[t] # "canceled"
    BY <1>a, <1>6 DEF Restart, procVars, cancelVars
  <2>2. AskedFor(t) => AskedFor(t)'
    BY <2>1 DEF AskedFor
  <2> QED BY <1>b, <2>1, <2>2, <1>0
<1>7. CASE UNCHANGED vars
  BY <1>7 DEF vars, Called, AskedFor, procVars, cancelVars
<1> QED BY <1>0, <1>1, <1>2, <1>3, <1>4, <1>5, <1>6, <1>7, <1>b, <1>c DEF Next

\* What an append and the loss of a suffix do to the verdicts of a log.
LEMMA HeardAppend ==
    ASSUME NEW s \in Seq(Events), NEW e \in Events
    PROVE  /\ e \notin Verdicts => Heard(Append(s, e)) = Heard(s)
           /\ e \in Verdicts => Heard(Append(s, e)) = Heard(s) \cup {e}
<1>1. /\ Len(s) \in Nat
      /\ DOMAIN s = 1..Len(s) /\ DOMAIN Append(s, e) = 1..(Len(s) + 1)
      /\ \A i \in 1..Len(s) : Append(s, e)[i] = s[i]
      /\ Append(s, e)[Len(s) + 1] = e
  BY AppendProperties, LenProperties
<1>2. ASSUME NEW w
      PROVE  (\E i \in DOMAIN Append(s, e) : Append(s, e)[i] = w)
               <=> (w = e \/ \E i \in DOMAIN s : s[i] = w)
  BY <1>1
<1> QED BY <1>2 DEF Heard

LEMMA HeardTruncated ==
    ASSUME NEW s \in Seq(Events), NEW k \in 0..Len(s)
    PROVE  Heard(SubSeq(s, 1, k)) \subseteq Heard(s)
<1>1. /\ DOMAIN s = 1..Len(s) /\ DOMAIN SubSeq(s, 1, k) = 1..k
      /\ \A i \in 1..k : SubSeq(s, 1, k)[i] = s[i] /\ i \in 1..Len(s)
  BY TruncatedLog, LenProperties
<1> QED BY <1>1 DEF Heard

\* The verdicts of a log change with the append of the wait thread, and a crash
\* may lose them.
LEMMA HeardMoves ==
    ASSUME VerdictInv, [Next]_vars, NEW t \in Plain
    PROVE  /\ Crash \/ WaitEmit(t) \/ Heard(log'[t]) = Heard(log[t])
           /\ WaitEmit(t) => /\ Heard(log[t]) = {} /\ Heard(log'[t]) = {verdict[t]}
                             /\ verdict[t] \in Verdicts
           /\ Crash => Heard(log'[t]) \subseteq Heard(log[t])
<1>t. t \in Tasks /\ log[t] \in Seq(Events)
  BY DEF Plain, VerdictInv, TypeInv, TypeOK
<1>1. ASSUME WaitEmit(t)
      PROVE  /\ Heard(log[t]) = {} /\ Heard(log'[t]) = {verdict[t]}
             /\ verdict[t] \in Verdicts
  <2>1. ~VerdictIsOut(t) /\ verdict[t] \in Verdicts /\ verdict[t] \in Events
    BY <1>1, <1>t, EventNames
       DEF WaitEmit, VerdictIsOut, VerdictInv, TypeInv, VerdictChosen
  <2>2. Heard(log[t]) = {}
    BY <2>1 DEF VerdictInv, HasVerdict, Heard
  <2>3. log'[t] = Append(log[t], verdict[t])
    BY <1>1, <1>t DEF WaitEmit, Appended, VerdictInv, TypeInv, TypeOK
  <2> QED BY <1>t, <2>1, <2>2, <2>3, HeardAppend
<1>2. ASSUME NEW k \in 0..Len(log[t]), log'[t] = SubSeq(log[t], 1, k)
      PROVE  Heard(log'[t]) \subseteq Heard(log[t])
  BY <1>t, <1>2, HeardTruncated
<1>3. ASSUME NEW e \in Events, e \notin Verdicts, log'[t] = Append(log[t], e)
      PROVE  Heard(log'[t]) = Heard(log[t])
  BY <1>t, <1>3, HeardAppend
<1>4. Crash => ~WaitEmit(t)
  <2>1. Crash => up /\ ~up'
    BY DEF Crash
  <2>2. WaitEmit(t) => up' = up
    BY DEF WaitEmit, sysVars
  <2> QED BY <2>1, <2>2
<1>5. CASE log'[t] = log[t]
  BY <1>1, <1>5
<1>6. CASE \E e \in Events : e \notin Verdicts /\ log'[t] = Append(log[t], e)
  BY <1>1, <1>3, <1>6
<1>7. CASE WaitEmit(t)
  BY <1>1, <1>4, <1>7
<1>8. CASE Crash /\ \E k \in 0..Len(log[t]) : log'[t] = SubSeq(log[t], 1, k)
  BY <1>2, <1>4, <1>8
<1> QED BY <1>5, <1>6, <1>7, <1>8, LogMoves

\* The wait thread appends the verdict it has chosen, and the log keeps it.
LEMMA TellingStep ==
    ASSUME LifeInv, [Next]_vars, NEW t \in Plain, Telling(t)
    PROVE  Telling(t)'
<1>a. TypeOK /\ t \in Tasks /\ VerdictInv
  BY DEF LifeInv, VerdictInv, TypeInv, Plain
<1> DEFINE Out == {"emitted", "exit_read", "done"}
<1>1. CASE Crash
  BY <1>a, <1>1 DEF Crash, Telling
<1>2. CASE WaitEmit(t)
  <2>1. UNCHANGED verdict
    BY <1>2 DEF WaitEmit
  <2> QED BY <1>a, <1>2, <2>1, HeardMoves DEF Telling
<1>3. ASSUME ~Crash, ~WaitEmit(t), wpc'[t] \in Out => wpc[t] \in Out,
             wpc[t] \in Out => verdict'[t] = verdict[t]
      PROVE  Telling(t)'
  <2>1. Heard(log'[t]) = Heard(log[t])
    BY <1>a, <1>3, HeardMoves
  <2> QED BY <1>3, <2>1 DEF Telling
<1>4. ASSUME UNCHANGED <<wpc, verdict>>, ~WaitEmit(t) PROVE Telling(t)'
  BY <1>1, <1>3, <1>4
<1>5. ASSUME NEW u \in Tasks, Wait(u) PROVE Telling(t)'
  <2>1. CASE WaitEmit(u) /\ u # t
    BY <1>a, <1>1, <1>2, <1>3, <2>1 DEF WaitEmit, TypeOK
  <2>2. CASE WaitReap(u) \/ WaitRaises(u) \/ ExitRead(u) \/ ExitUpdate(u) \/ WaitResolve(u)
    <3>1. wpc'[t] \in Out => wpc[t] \in Out
      BY <1>a, <2>2 DEF WaitReap, WaitRaises, ExitRead, ExitUpdate, WaitResolve, TypeOK
    <3>2. wpc[t] \in Out => verdict'[t] = verdict[t]
      BY <1>a, <2>2 DEF WaitReap, WaitRaises, ExitRead, ExitUpdate, WaitResolve, TypeOK
    <3> QED BY <1>1, <1>2, <1>3, <3>1, <3>2
  <2> QED BY <1>2, <1>5, <2>1, <2>2 DEF Wait
<1>6. ASSUME NEW u \in Tasks, Dispatch(u) PROVE Telling(t)'
  <2>1. CASE DispatchSpawn(u)
    <3>1. wpc'[t] \in Out => wpc[t] \in Out
      BY <1>a, <2>1 DEF DispatchSpawn, TypeOK
    <3> QED BY <1>1, <1>2, <1>3, <2>1, <3>1 DEF DispatchSpawn
  <2>2. CASE UNCHANGED <<wpc, verdict>>
    BY <1>2, <1>4, <2>2
  <2> QED BY <1>6, <2>1, <2>2 DEF Dispatch, DispatchCreateRow, DispatchRegister,
         DispatchSpawnRaises, DispatchSetPid, DispatchRecord, waitVars
<1>7. ASSUME NEW u \in Tasks, ChildExit(u) \/ FlushLog(u) \/ Graph(u)
      PROVE  UNCHANGED <<wpc, verdict>>
  BY <1>7 DEF ChildExit, FlushLog, Graph, GraphEnd, GraphBlowsUp, waitVars
<1>8. ASSUME NEW c \in Cancelers, Cancel(c) PROVE UNCHANGED <<wpc, verdict>>
  BY <1>8, CancelFrame DEF waitVars
<1>9. CASE Restart
  BY <1>2, <1>4, <1>9 DEF Restart, waitVars
<1>10. CASE UNCHANGED vars
  BY <1>2, <1>4, <1>10 DEF vars, waitVars
<1> QED BY <1>1, <1>2, <1>4, <1>5, <1>6, <1>7, <1>8, <1>9, <1>10 DEF Next

LEMMA ContractInvHolds == Spec => []ContractInv
<1>1. Init => ContractInv
  <2> SUFFICES ASSUME Init PROVE ContractInv
    OBVIOUS
  <2>1. ASSUME NEW t \in Tasks PROVE Handle(t) /\ Witness(t)
    BY DEF Init, Handle, Witness, Blown
  <2>2. ASSUME NEW t \in Plain PROVE Called(t) /\ Telling(t)
    BY DEF Init, Called, Telling, CancelVerdicts, Plain
  <2> QED BY <2>1, <2>2, LifeInit DEF ContractInv
<1>2. ContractInv /\ [Next]_vars => ContractInv'
  <2> SUFFICES ASSUME ContractInv, [Next]_vars PROVE ContractInv'
    OBVIOUS
  <2>1. ASSUME NEW t \in Tasks PROVE Handle(t)' /\ Witness(t)'
    BY HandleStep, WitnessStep DEF ContractInv
  <2>2. ASSUME NEW t \in Plain PROVE Called(t)' /\ Telling(t)'
    BY CalledStep, TellingStep DEF ContractInv
  <2>3. LifeInv'
    BY LifeStep DEF ContractInv
  <2> QED BY <2>1, <2>2, <2>3 DEF ContractInv
<1> QED BY <1>1, <1>2, PTL DEF Spec

-----------------------------------------------------------------------------
(* The refinement.  What the contract sees of a task that a step leaves alone *)
(* is given first; then every action is an action of the contract, or nothing *)
(* that it sees.                                                              *)

\* The contract sees nothing happen to t.
Same(t) ==
    /\ store'[t] = store[t] /\ ProcessOf(t)' = ProcessOf(t) /\ Told(t)' = Told(t)
    /\ AskedFor(t)' <=> AskedFor(t)
    /\ WatchOf(t)' = WatchOf(t)

SameBut(t) == \A u \in Plain : u # t => Same(u)

LEMMA Unseen ==
    ASSUME up' = up, \A u \in Plain : Same(u)
    PROVE  UNCHANGED Contract!contractVars
<1>1. [t \in Plain |-> store[t]]' = [t \in Plain |-> store[t]]
  BY DEF Same
<1>2. [t \in Plain |-> ProcessOf(t)]' = [t \in Plain |-> ProcessOf(t)]
  BY DEF Same
<1>3. [t \in Plain |-> AskedFor(t)]' = [t \in Plain |-> AskedFor(t)]
  <2>1. ASSUME NEW t \in Plain PROVE AskedFor(t)' = AskedFor(t)
    BY DEF Same, AskedFor
  <2> QED BY <2>1
<1>4. [t \in Plain |-> Told(t)]' = [t \in Plain |-> Told(t)]
  BY DEF Same
<1>5. [t \in Plain |-> WatchOf(t)]' = [t \in Plain |-> WatchOf(t)]
  BY DEF Same
<1> QED BY <1>1, <1>2, <1>3, <1>4, <1>5 DEF Contract!contractVars

\* What a step that is not of the wait thread does to the sight of the log.
LEMMA ToldStays ==
    ASSUME LifeInv, [Next]_vars, NEW t \in Plain, ~Crash, ~WaitEmit(t)
    PROVE  Told(t)' = Told(t)
<1>1. Heard(log'[t]) = Heard(log[t])
  BY HeardMoves DEF LifeInv
<1> QED BY <1>1 DEF Told

\* What the contract sees of the tasks, and how it sees a step that only one of
\* them takes.
Shown     == [t \in Plain |-> store[t]]
Processes == [t \in Plain |-> ProcessOf(t)]
Asked     == [t \in Plain |-> AskedFor(t)]
Tellings  == [t \in Plain |-> Told(t)]
Watches   == [t \in Plain |-> WatchOf(t)]

LEMMA SeenOf ==
    ASSUME NEW t \in Plain, SameBut(t)
    PROVE  /\ Shown' = [Shown EXCEPT ![t] = store'[t]]
           /\ Processes' = [Processes EXCEPT ![t] = ProcessOf(t)']
           /\ Asked' = [Asked EXCEPT ![t] = AskedFor(t)']
           /\ Tellings' = [Tellings EXCEPT ![t] = Told(t)']
           /\ Watches' = [Watches EXCEPT ![t] = WatchOf(t)']
           /\ store'[t] = store[t] => Shown' = Shown
           /\ ProcessOf(t)' = ProcessOf(t) => Processes' = Processes
           /\ (AskedFor(t)' <=> AskedFor(t)) => Asked' = Asked
           /\ Told(t)' = Told(t) => Tellings' = Tellings
           /\ WatchOf(t)' = WatchOf(t) => Watches' = Watches
<1>1. /\ Shown' = [Shown EXCEPT ![t] = store'[t]]
      /\ store'[t] = store[t] => Shown' = Shown
  BY DEF SameBut, Same, Shown
<1>2. /\ Processes' = [Processes EXCEPT ![t] = ProcessOf(t)']
      /\ ProcessOf(t)' = ProcessOf(t) => Processes' = Processes
  BY DEF SameBut, Same, Processes
<1>3. ASSUME NEW u \in Plain, u # t PROVE AskedFor(u)' = AskedFor(u)
  BY <1>3 DEF SameBut, Same, AskedFor
<1>4. (AskedFor(t)' <=> AskedFor(t)) => AskedFor(t)' = AskedFor(t)
  BY DEF AskedFor
<1>5. /\ Asked' = [Asked EXCEPT ![t] = AskedFor(t)']
      /\ (AskedFor(t)' <=> AskedFor(t)) => Asked' = Asked
  BY <1>3, <1>4 DEF Asked
<1>6. /\ Tellings' = [Tellings EXCEPT ![t] = Told(t)']
      /\ Told(t)' = Told(t) => Tellings' = Tellings
  BY DEF SameBut, Same, Tellings
<1>7. /\ Watches' = [Watches EXCEPT ![t] = WatchOf(t)']
      /\ WatchOf(t)' = WatchOf(t) => Watches' = Watches
  BY DEF SameBut, Same, Watches
<1> QED BY <1>1, <1>2, <1>5, <1>6, <1>7

\* One lemma for each action of the contract.
LEMMA Accepts ==
    ASSUME NEW t \in Plain, SameBut(t), up, up' = up,
           store[t] = "absent", ProcessOf(t) = "none", Told(t) = {}, store'[t] = "running",
           ProcessOf(t)' = ProcessOf(t), AskedFor(t)' <=> AskedFor(t),
           Told(t)' = Told(t), WatchOf(t)' = WatchOf(t)
    PROVE  Contract!Accept(t)
  BY SeenOf DEF Contract!Accept, Shown, Processes, Asked, Tellings, Watches

LEMMA Starts ==
    ASSUME NEW t \in Plain, SameBut(t), up, up' = up,
           store[t] = "running", ProcessOf(t) = "none", Told(t) = {}, store'[t] = store[t],
           ProcessOf(t)' = "running", AskedFor(t)' <=> AskedFor(t),
           Told(t)' = Told(t), WatchOf(t)' = "on"
    PROVE  Contract!Start(t)
  BY SeenOf DEF Contract!Start, Shown, Processes, Asked, Tellings, Watches

LEMMA ProcessEnds ==
    ASSUME NEW t \in Plain, SameBut(t), up' = up, NEW how, ProcessOf(t) = "running",
           how = "killed" => AskedFor(t), store'[t] = store[t],
           ProcessOf(t)' = how, AskedFor(t)' <=> AskedFor(t),
           Told(t)' = Told(t), WatchOf(t)' = WatchOf(t)
    PROVE  Contract!End(t, how)
  BY SeenOf DEF Contract!End, Shown, Processes, Asked, Tellings, Watches

LEMMA Asks ==
    ASSUME NEW t \in Plain, SameBut(t), up, up' = up, store[t] # "absent",
           ProcessOf(t) # "none", store'[t] = "canceled", AskedFor(t)',
           ProcessOf(t)' = ProcessOf(t), Told(t)' = Told(t), WatchOf(t)' = WatchOf(t)
    PROVE  Contract!Ask(t)
<1>1. AskedFor(t)' = TRUE
  BY DEF AskedFor
<1> QED BY <1>1, SeenOf DEF Contract!Ask, Shown, Processes, Asked, Tellings, Watches

LEMMA Tells ==
    ASSUME NEW t \in Plain, SameBut(t), up, up' = up, NEW end, WatchOf(t) = "on",
           Told(t) = {}, Told(t)' = {end}, WatchOf(t)' = "told",
           ProcessOf(t) \in {"ok", "err", "killed"} \/ "wait" \in Faults,
           end = "completed" => ProcessOf(t) = "ok",
           end = "failed" => \/ ProcessOf(t) = "err" \/ "wait" \in Faults
                             \/ ProcessOf(t) = "killed" /\ "graph" \in Faults,
           end = "canceled" => AskedFor(t),
           store'[t] = store[t], ProcessOf(t)' = ProcessOf(t), AskedFor(t)' <=> AskedFor(t)
    PROVE  Contract!Tell(t, end)
<1>1. Contract!TrueOf(t, end)
  BY DEF Contract!TrueOf, Contract!Ended
<1> QED BY <1>1, SeenOf DEF Contract!Tell, Shown, Processes, Asked, Tellings, Watches

LEMMA Settles ==
    ASSUME NEW t \in Plain, SameBut(t), up, up' = up, NEW end, WatchOf(t) = "told",
           store'[t] = end,
           \/ end = store[t] /\ AskedFor(t)
           \/ end \in Told(t) \ {"canceled"}
           \/ end \in {"completed", "failed"} /\ Told(t) = {"canceled"} /\ "graph" \in Faults,
           ProcessOf(t)' = ProcessOf(t), AskedFor(t)' <=> AskedFor(t),
           Told(t)' = Told(t), WatchOf(t)' = "over"
    PROVE  Contract!Settle(t, end)
  BY SeenOf DEF Contract!Settle, Shown, Processes, Asked, Tellings, Watches

LEMMA Blows ==
    ASSUME NEW t \in Plain, SameBut(t), up, up' = up, "graph" \in Faults,
           store[t] # "absent", ProcessOf(t) # "none", store'[t] = "failed",
           ProcessOf(t)' = ProcessOf(t), AskedFor(t)' <=> AskedFor(t),
           Told(t)' = Told(t), WatchOf(t)' = WatchOf(t)
    PROVE  Contract!GraphDies(t)
  BY SeenOf DEF Contract!GraphDies, Shown, Processes, Asked, Tellings, Watches

LEMMA CancelRefines ==
    ASSUME ContractInv, NEW c \in Cancelers, Cancel(c)
    PROVE  (\E t \in Plain : Contract!Ask(t)) \/ UNCHANGED Contract!contractVars
<1>a. TypeOK /\ LifeInv /\ Next /\ Plain \subseteq Tasks
  BY DEF ContractInv, LifeInv, VerdictInv, TypeInv, Plain, Next
<1>b. UNCHANGED <<up, child, wpc, target>>
  BY CancelFrame DEF waitVars
<1>c. ~Crash /\ \A u \in Plain : ~WaitEmit(u)
  <2>1. ~Crash
    BY <1>b DEF Crash
  <2>2. \A u \in Plain : WaitEmit(u) => wpc'[u] # wpc[u]
    BY <1>a DEF WaitEmit, TypeOK
  <2> QED BY <1>b, <2>1, <2>2
<1>d. ASSUME NEW u \in Plain
      PROVE  /\ ProcessOf(u)' = ProcessOf(u) /\ WatchOf(u)' = WatchOf(u)
             /\ Told(u)' = Told(u)
  BY <1>a, <1>b, <1>c, ToldStays DEF ProcessOf, WatchOf
<1>e. ASSUME NEW u \in Plain, AskedFor(u) PROVE AskedFor(u)'
  BY <1>a, <1>c, <1>e, AskStays
<1>1. CASE (CancelMark(c) \/ CancelFinish(c)) /\ target[c] \in Plain
  <2>0. PICK t \in Plain : t = target[c]
    BY <1>1
  <2>1. /\ store' = [store EXCEPT ![t] = "canceled"] /\ up /\ UNCHANGED sig
        /\ cpc'[c] \in Accepted /\ \A d \in Cancelers : d # c => cpc'[d] = cpc[d]
    BY <1>a, <1>1, <2>0 DEF CancelMark, CancelFinish, Goto, Accepted, TypeOK, procVars
  <2>2. store[t] # "absent" /\ ProcessOf(t) # "none"
    <3>1. hasPid[t]
      BY <1>1, <2>0 DEF CancelMark, CancelFinish, Goto, ContractInv, LifeInv, Request, Signaling
    <3> QED BY <1>a, <1>1, <3>1 DEF ContractInv, LifeInv, Handle, Books, ProcessOf
  <2>3. AskedFor(t)'
    BY <1>b, <2>0, <2>1 DEF AskedFor
  <2>4. ASSUME NEW u \in Plain, u # t PROVE Same(u)
    <3>1. AskedFor(u)' => AskedFor(u)
      BY <1>b, <2>0, <2>1, <2>4 DEF AskedFor
    <3>2. store'[u] = store[u]
      BY <1>a, <2>1, <2>4 DEF TypeOK
    <3> QED BY <1>d, <1>e, <3>1, <3>2 DEF Same
  <2>5. store'[t] = "canceled"
    BY <1>a, <1>1, <2>1 DEF TypeOK
  <2>6. SameBut(t)
    BY <2>4 DEF SameBut
  <2>7. Contract!Ask(t)
    BY <1>b, <1>d, <2>1, <2>2, <2>3, <2>5, <2>6, Asks
  <2> QED BY <2>7
<1>2. CASE ~((CancelMark(c) \/ CancelFinish(c)) /\ target[c] \in Plain)
  <2>1. ASSUME NEW u \in Plain PROVE Same(u)
    <3>1. store'[u] = store[u]
      <4>1. CASE CancelMark(c) \/ CancelFinish(c)
        BY <1>a, <1>2, <2>1, <4>1 DEF CancelMark, CancelFinish, TypeOK
      <4>2. CASE CancelSoftMark(c)
        <5>1. target[c] \in Foreign
          BY <1>a, <4>2 DEF CancelSoftMark, Goto, LifeInv, VerdictInv
        <5> QED BY <1>a, <2>1, <4>2, <5>1 DEF CancelSoftMark, TypeOK, Plain
      <4>3. CASE UNCHANGED store
        BY <4>3
      <4> QED BY <4>1, <4>2, <4>3 DEF Cancel, CancelCheck, CancelGraceTerminal,
             CancelGraceExpire, CancelSoftPersist, CancelTerm, CancelLog, CancelGone,
             CancelExpire, CancelKill, CancelLogKill, storeVars
    <3>2. ASSUME NEW d \in Cancelers, target[d] = u, cpc'[d] \in Accepted
          PROVE  cpc[d] \in Accepted
      <4>1. CASE d # c
        BY <1>a, <4>1, <3>2 DEF TypeOK, Cancel, CancelCheck, CancelGraceTerminal,
           CancelGraceExpire, CancelSoftMark, CancelSoftPersist, CancelMark, CancelTerm,
           CancelLog, CancelGone, CancelExpire, CancelKill, CancelLogKill, CancelFinish, Goto
      <4>2. CASE d = c
        <5>1. ~CancelMark(c) /\ ~CancelFinish(c)
          BY <1>2, <3>2, <4>2
        <5> QED BY <1>a, <3>2, <4>2, <5>1 DEF TypeOK, Cancel, CancelCheck, CancelGraceTerminal,
           CancelGraceExpire, CancelSoftMark, CancelSoftPersist, CancelTerm, CancelLog,
           CancelGone, CancelExpire, CancelKill, CancelLogKill, Goto, Accepted
      <4> QED BY <4>1, <4>2
    <3>3. sig'[u] # "none" => sig[u] # "none" \/ (target[c] = u /\ cpc[c] \in Accepted)
      BY <1>a, SignalsFrom DEF Accepted
    <3>4. AskedFor(u)' => AskedFor(u)
      BY <1>b, <3>2, <3>3 DEF AskedFor
    <3> QED BY <1>d, <1>e, <3>1, <3>4 DEF Same
  <2> QED BY <1>b, <2>1, Unseen
<1> QED BY <1>1, <1>2

\* A thread, a process or the flush of a log concerns one task.
LEMMA ThreadFrame ==
    ASSUME ContractInv, NEW u \in Tasks,
           Dispatch(u) \/ ChildExit(u) \/ Wait(u) \/ Graph(u) \/ FlushLog(u)
    PROVE  /\ up' = up
           /\ \A v \in Plain : AskedFor(v)' <=> AskedFor(v)
           /\ \A v \in Plain : ~WaitEmit(v) => Told(v)' = Told(v)
           /\ SameBut(u)
<1>a. TypeOK /\ LifeInv /\ Next /\ Plain \subseteq Tasks
  BY DEF ContractInv, LifeInv, VerdictInv, TypeInv, Plain, Next
<1>1. UNCHANGED <<up, sig, cpc, target>>
  BY DEF Dispatch, DispatchCreateRow, DispatchRegister, DispatchSpawn,
       DispatchSpawnRaises, DispatchSetPid, DispatchRecord, ChildExit, Wait, WaitReap,
       WaitRaises, WaitResolve, WaitEmit, ExitRead, ExitUpdate, Graph, GraphEnd,
       GraphBlowsUp, FlushLog, sysVars, procVars, cancelVars
<1>2. ~Crash
  BY <1>1 DEF Crash
<1>3. ASSUME NEW v \in Plain PROVE AskedFor(v)' <=> AskedFor(v)
  BY <1>1 DEF AskedFor
<1>4. ASSUME NEW v \in Plain, ~WaitEmit(v) PROVE Told(v)' = Told(v)
  BY <1>a, <1>2, <1>4, ToldStays
<1>5. ASSUME NEW v \in Plain, v # u PROVE Same(v)
  <2>1. store'[v] = store[v] /\ child'[v] = child[v] /\ wpc'[v] = wpc[v]
    <3>1. CASE Dispatch(u)
      BY <1>a, <1>5, <3>1 DEF TypeOK, Dispatch, DispatchCreateRow, DispatchRegister,
         DispatchSpawn, DispatchSpawnRaises, DispatchSetPid, DispatchRecord, storeVars,
         procVars, waitVars
    <3>2. CASE ChildExit(u)
      <4>1. PICK x \in Exits : child' = [child EXCEPT ![u] = x]
        BY <3>2, ExitStep
      <4>2. UNCHANGED <<store, wpc>>
        BY <3>2, ExitStep DEF waitVars
      <4> QED BY <1>a, <1>5, <4>1, <4>2 DEF TypeOK
    <3>3. CASE Wait(u)
      BY <1>a, <1>5, <3>3 DEF TypeOK, Wait, WaitReap, WaitRaises, WaitResolve, WaitEmit,
         ExitRead, ExitUpdate, storeVars, procVars
    <3>4. CASE Graph(u) \/ FlushLog(u)
      BY <1>a, <1>5, <3>4 DEF TypeOK, Graph, GraphEnd, GraphBlowsUp, FlushLog, storeVars,
         procVars, waitVars
    <3> QED BY <3>1, <3>2, <3>3, <3>4
  <2>2. ~WaitEmit(v)
    BY <1>a, <2>1 DEF WaitEmit, TypeOK
  <2>3. ProcessOf(v)' = ProcessOf(v) /\ WatchOf(v)' = WatchOf(v)
    BY <2>1 DEF ProcessOf, WatchOf
  <2> QED BY <1>3, <1>4, <2>1, <2>2, <2>3 DEF Same
<1> QED BY <1>1, <1>3, <1>4, <1>5 DEF SameBut

\* When only the books change, the contract sees nothing.
LEMMA Silent ==
    ASSUME ContractInv, NEW u \in Tasks,
           Dispatch(u) \/ ChildExit(u) \/ Wait(u) \/ Graph(u) \/ FlushLog(u),
           u \in Plain => /\ ~WaitEmit(u) /\ store'[u] = store[u]
                          /\ ProcessOf(u)' = ProcessOf(u) /\ WatchOf(u)' = WatchOf(u)
    PROVE  UNCHANGED Contract!contractVars
<1>1. up' = up /\ SameBut(u)
  BY ThreadFrame
<1>2. u \in Plain => Same(u)
  BY ThreadFrame DEF Same
<1> QED BY <1>1, <1>2, Unseen DEF SameBut

LEMMA DispatchRefines ==
    ASSUME ContractInv, NEW u \in Plain, Dispatch(u)
    PROVE  Contract!Accept(u) \/ Contract!Start(u) \/ UNCHANGED Contract!contractVars
<1>a. TypeOK /\ VerdictInv /\ u \in Tasks /\ Books(u) /\ Handle(u)
  BY DEF ContractInv, LifeInv, VerdictInv, TypeInv, Plain
<1>b. ~WaitEmit(u)
  BY <1>a DEF TypeOK, WaitEmit, Dispatch, DispatchCreateRow, DispatchRegister, DispatchSpawn,
     DispatchSpawnRaises, DispatchSetPid, DispatchRecord, waitVars
<1>c. /\ SameBut(u) /\ up' = up /\ Told(u)' = Told(u)
      /\ AskedFor(u)' <=> AskedFor(u)
  BY <1>a, <1>b, ThreadFrame
<1>d. dpc[u] \in {"created", "registered"} => Told(u) = {} /\ ProcessOf(u) = "none"
  <2>1. dpc[u] \in {"created", "registered"} => ~VerdictIsOut(u) /\ child[u] = "none"
    BY <1>a DEF VerdictInv, VerdictIsOut, Books
  <2> QED BY <2>1, <1>a DEF VerdictInv, HasVerdict, Told, Heard, ProcessOf
<1>1. CASE DispatchRegister(u)
  <2>1. /\ up /\ store[u] = "absent" /\ store'[u] = "running"
        /\ dpc[u] = "created" /\ ProcessOf(u)' = ProcessOf(u) /\ WatchOf(u)' = WatchOf(u)
    BY <1>a, <1>1 DEF DispatchRegister, TypeOK, Books, ProcessOf, WatchOf, procVars, waitVars
  <2> QED BY <1>c, <1>d, <2>1, Accepts
<1>2. CASE DispatchSpawn(u)
  <2>1. /\ up /\ store[u] = "running" /\ store'[u] = store[u] /\ dpc[u] = "registered"
        /\ ProcessOf(u)' = "running" /\ WatchOf(u)' = "on"
    BY <1>a, <1>2 DEF DispatchSpawn, TypeOK, Handle, ProcessOf, WatchOf, storeVars
  <2> QED BY <1>c, <1>d, <2>1, Starts
<1>3. CASE UNCHANGED <<store, child, wpc>>
  <2>1. ProcessOf(u)' = ProcessOf(u) /\ WatchOf(u)' = WatchOf(u)
    BY <1>3 DEF ProcessOf, WatchOf
  <2> QED BY <1>a, <1>b, <1>3, <2>1, Silent
<1> QED BY <1>1, <1>2, <1>3 DEF Dispatch, DispatchCreateRow, DispatchSpawnRaises,
       DispatchSetPid, DispatchRecord, storeVars, procVars, waitVars

LEMMA ExitRefines ==
    ASSUME ContractInv, NEW u \in Plain, ChildExit(u)
    PROVE  \E how \in {"ok", "err", "killed"} : Contract!End(u, how)
<1>a. TypeOK /\ u \in Tasks
  BY DEF ContractInv, LifeInv, VerdictInv, TypeInv, Plain
<1>1. PICK x \in Exits : /\ child' = [child EXCEPT ![u] = x]
                         /\ x \in {"term", "kill"} => sig[u] = x
  BY <1>a, ExitStep
<1>2. child[u] = "running" /\ UNCHANGED <<store, wpc>>
  BY <1>a, ExitStep DEF waitVars
<1>3. ~WaitEmit(u)
  BY <1>a, <1>2 DEF WaitEmit, TypeOK
<1>4. /\ SameBut(u) /\ up' = up /\ Told(u)' = Told(u)
      /\ AskedFor(u)' <=> AskedFor(u)
  BY <1>a, <1>3, ThreadFrame
<1>5. PICK how \in {"ok", "err", "killed"} : /\ ProcessOf(u)' = how
                                             /\ how = "killed" => x \in {"term", "kill"}
  BY <1>a, <1>1 DEF ProcessOf, TypeOK, Exits
<1>6. /\ ProcessOf(u) = "running" /\ WatchOf(u)' = WatchOf(u)
      /\ how = "killed" => AskedFor(u)
  BY <1>1, <1>2, <1>5 DEF ProcessOf, WatchOf, AskedFor
<1>7. Contract!End(u, how)
  BY <1>2, <1>4, <1>5, <1>6, ProcessEnds
<1> QED BY <1>7

LEMMA WaitRefines ==
    ASSUME ContractInv, NEW u \in Plain, Wait(u)
    PROVE  \/ \E end \in Contract!Ends : Contract!Tell(u, end) \/ Contract!Settle(u, end)
           \/ UNCHANGED Contract!contractVars
<1>a. /\ TypeOK /\ VerdictInv /\ u \in Tasks /\ Process(u) /\ Outcome(u) /\ Signals(u)
      /\ Books(u) /\ Handle(u) /\ Witness(u) /\ Called(u) /\ Telling(u)
  BY DEF ContractInv, LifeInv, VerdictInv, TypeInv, Plain
<1>1. CASE WaitEmit(u)
  <2>1. /\ up /\ wpc[u] = "resolved" /\ wpc'[u] = "emitted"
        /\ UNCHANGED <<store, child>>
    BY <1>a, <1>1 DEF WaitEmit, TypeOK, storeVars, procVars
  <2>2. /\ verdict[u] \in Verdicts
        /\ Heard(log[u]) = {} /\ Heard(log'[u]) = {verdict[u]}
    BY <1>1, <1>a, HeardMoves DEF Next
  <2> DEFINE end == EndOf(verdict[u])
  <2>3. PICK e \in Contract!Ends : e = end
    BY <2>2 DEF Contract!Ends, EndOf, Verdicts
  <2>4. Told(u) = {} /\ Told(u)' = {e}
    <3>1. Told(u)' = {EndOf(v) : v \in {verdict[u]}}
      BY <2>2 DEF Told
    <3> QED BY <2>2, <2>3, <3>1 DEF Told
  <2>5. /\ WatchOf(u) = "on" /\ WatchOf(u)' = "told" /\ ProcessOf(u)' = ProcessOf(u)
        /\ store'[u] = store[u]
    BY <2>1 DEF WatchOf, ProcessOf
  <2>6. /\ SameBut(u) /\ up' = up
        /\ AskedFor(u)' <=> AskedFor(u)
    BY <1>a, <1>1, ThreadFrame DEF Wait
  <2>7. ProcessOf(u) \in {"ok", "err", "killed"} \/ "wait" \in Faults
    <3>1. reaped[u] \/ "wait" \in Faults
      BY <1>a, <2>1 DEF Process
    <3>2. reaped[u] => child[u] \in Exits
      BY <1>a DEF Process, TypeOK
    <3> QED BY <3>1, <3>2 DEF ProcessOf, Exits
  <2>8. e = "completed" => ProcessOf(u) = "ok"
    BY <1>a, <2>2, <2>3 DEF EndOf, Verdicts, Outcome, Witness, ProcessOf
  <2>9. e = "failed" => \/ ProcessOf(u) = "err" \/ "wait" \in Faults
                        \/ ProcessOf(u) = "killed" /\ "graph" \in Faults
    <3>1. SUFFICES ASSUME verdict[u] = "task.failed"
                   PROVE  \/ ProcessOf(u) = "err" \/ "wait" \in Faults
                          \/ ProcessOf(u) = "killed" /\ "graph" \in Faults
      BY <2>2, <2>3 DEF EndOf, Verdicts
    <3>2. seen[u] \in {"err", "term", "kill"}
      BY <1>a, <2>1, <3>1 DEF Outcome, Process, TypeOK, Exits
    <3>3. CASE seen[u] = "err"
      BY <1>a, <3>3 DEF Witness, ProcessOf
    <3>4. CASE seen[u] \in {"term", "kill"}
      <4>1. Blown(u)
        BY <1>a, <2>1, <3>1, <3>4 DEF Signals, Chosen, CancelVerdicts
      <4>2. child[u] = seen[u]
        BY <1>a, <3>4 DEF Process
      <4> QED BY <1>a, <3>4, <4>1, <4>2 DEF Blown, Books, ProcessOf
    <3> QED BY <3>2, <3>3, <3>4
  <2>10. e = "canceled" => AskedFor(u)
    BY <1>a, <2>2, <2>3 DEF EndOf, Verdicts, Called, CancelVerdicts
  <2>11. Contract!Tell(u, e)
    BY <2>1, <2>4, <2>5, <2>6, <2>7, <2>8, <2>9, <2>10, Tells
  <2> QED BY <2>11
<1>2. CASE ExitUpdate(u)
  <2>1. /\ up /\ wpc[u] = "exit_read" /\ wpc'[u] = "done" /\ UNCHANGED child
        /\ store'[u] = IF sawCanceled[u] THEN store[u]
                       ELSE IF seen[u] = "ok" THEN "completed" ELSE "failed"
    BY <1>a, <1>2 DEF ExitUpdate, TypeOK, procVars
  <2>2. /\ WatchOf(u) = "told" /\ WatchOf(u)' = "over" /\ ProcessOf(u)' = ProcessOf(u)
    BY <2>1 DEF WatchOf, ProcessOf
  <2>3. /\ SameBut(u) /\ up' = up /\ Told(u)' = Told(u)
        /\ AskedFor(u)' <=> AskedFor(u)
    <3>1. ~WaitEmit(u)
      BY <2>1 DEF WaitEmit
    <3> QED BY <1>a, <1>2, <3>1, ThreadFrame DEF Wait
  <2>4. Told(u) = {EndOf(verdict[u])} /\ verdict[u] \in Verdicts
    <3>1. Heard(log[u]) = {verdict[u]}
      BY <1>a, <2>1 DEF Telling
    <3> QED BY <3>1 DEF Told, Heard
  <2>5. /\ \/ store'[u] = store[u] /\ AskedFor(u)
           \/ store'[u] \in Told(u) \ {"canceled"}
           \/ store'[u] \in {"completed", "failed"} /\ Told(u) = {"canceled"}
                /\ "graph" \in Faults
        /\ store'[u] \in Contract!Ends
    <3>1. CASE sawCanceled[u]
      <4>1. AskedFor(u) /\ store'[u] = store[u]
        BY <1>a, <2>1, <3>1 DEF Called
      <4>2. store[u] \in Terminal
        BY <1>a, <2>1, <3>1 DEF Outcome, Doomed, Handle, Terminal
      <4> QED BY <4>1, <4>2 DEF Terminal, Contract!Ends
    <3>2. CASE ~sawCanceled[u]
      <4>1. store'[u] = IF seen[u] = "ok" THEN "completed" ELSE "failed"
        BY <2>1, <3>2
      <4>2. CASE verdict[u] \in CancelVerdicts
        <5>1. "graph" \in Faults
          BY <1>a, <2>1, <3>2, <4>2 DEF Outcome, Blown, Books
        <5> QED BY <2>4, <4>1, <4>2, <5>1 DEF EndOf, CancelVerdicts, Contract!Ends
      <4>3. CASE verdict[u] = "task.completed"
        BY <1>a, <2>4, <4>1, <4>3 DEF EndOf, Outcome, Contract!Ends
      <4>4. CASE verdict[u] = "task.failed"
        BY <1>a, <2>4, <4>1, <4>4 DEF EndOf, Outcome, Contract!Ends
      <4> QED BY <2>4, <4>2, <4>3, <4>4 DEF Verdicts, CancelVerdicts
    <3> QED BY <3>1, <3>2
  <2>6. PICK end \in Contract!Ends : end = store'[u]
    BY <2>5
  <2>7. Contract!Settle(u, end)
    BY <2>1, <2>2, <2>3, <2>5, <2>6, Settles
  <2> QED BY <2>7
<1>3. CASE WaitReap(u) \/ WaitRaises(u) \/ WaitResolve(u) \/ ExitRead(u)
  <2>1. /\ UNCHANGED <<store, child>> /\ WatchOf(u)' = WatchOf(u)
        /\ ~WaitEmit(u)
    BY <1>a, <1>3 DEF WaitReap, WaitRaises, WaitResolve, ExitRead, WaitEmit, WatchOf, TypeOK,
       storeVars, procVars
  <2>2. ProcessOf(u)' = ProcessOf(u)
    BY <2>1 DEF ProcessOf
  <2> QED BY <1>a, <2>1, <2>2, Silent
<1> QED BY <1>1, <1>2, <1>3 DEF Wait

LEMMA GraphRefines ==
    ASSUME ContractInv, NEW u \in Plain, Graph(u)
    PROVE  Contract!GraphDies(u) \/ UNCHANGED Contract!contractVars
<1>a. TypeOK /\ u \in Tasks /\ Books(u) /\ Handle(u)
  BY DEF ContractInv, LifeInv, VerdictInv, TypeInv, Plain
<1>1. /\ up /\ gpc[u] = "running" /\ UNCHANGED <<child, wpc>> /\ ~WaitEmit(u)
      /\ store'[u] = store[u] \/ (store'[u] = "failed" /\ "graph" \in Faults)
  BY <1>a DEF Graph, GraphEnd, GraphBlowsUp, WaitEmit, TypeOK, storeVars, procVars, waitVars
<1>2. ProcessOf(u)' = ProcessOf(u) /\ WatchOf(u)' = WatchOf(u)
  BY <1>1 DEF ProcessOf, WatchOf
<1>3. CASE store'[u] = store[u]
  BY <1>a, <1>1, <1>2, <1>3, Silent
<1>4. CASE store'[u] = "failed" /\ "graph" \in Faults
  <2>1. store[u] # "absent" /\ ProcessOf(u) # "none"
    BY <1>a, <1>1 DEF Handle, Books, ProcessOf
  <2>2. /\ SameBut(u) /\ up' = up /\ Told(u)' = Told(u)
        /\ AskedFor(u)' <=> AskedFor(u)
    BY <1>a, <1>1, ThreadFrame
  <2> QED BY <1>1, <1>2, <1>4, <2>1, <2>2, Blows
<1> QED BY <1>1, <1>3, <1>4

LEMMA CrashRefines ==
    ASSUME ContractInv, Crash
    PROVE  Contract!Crash
<1>a. TypeOK /\ VerdictInv /\ Plain \subseteq Tasks /\ Next
  BY DEF ContractInv, LifeInv, VerdictInv, TypeInv, Plain, Next
<1>1. /\ up /\ up' = FALSE /\ UNCHANGED <<child, sig, target>>
      /\ \A t \in Tasks : store'[t] = "absent" /\ wpc'[t] = "none"
      /\ \A c \in Cancelers : cpc'[c] = "idle"
  BY DEF Crash
<1>2. Shown' = [t \in Plain |-> "absent"]
  BY <1>a, <1>1 DEF Shown
<1>3. Watches' = [t \in Plain |-> "none"]
  BY <1>a, <1>1 DEF Watches, WatchOf
<1>4. Processes' = Processes
  BY <1>1 DEF Processes, ProcessOf
<1>5. ASSUME NEW t \in Plain PROVE Told(t)' \subseteq Told(t) /\ Told(t) \subseteq Contract!Ends
  <2>1. Heard(log'[t]) \subseteq Heard(log[t])
    BY <1>a, HeardMoves
  <2>2. Told(t)' \subseteq Told(t)
    BY <2>1 DEF Told
  <2>3. Told(t) \subseteq Contract!Ends
    BY DEF Told, Heard, EndOf, Verdicts, Contract!Ends
  <2> QED BY <2>2, <2>3
<1>6. /\ Tellings' \in [Plain -> SUBSET Contract!Ends]
      /\ \A t \in Plain : Tellings'[t] \subseteq Tellings[t]
  BY <1>5 DEF Tellings
<1>7. ASSUME NEW t \in Plain PROVE AskedFor(t)' \in BOOLEAN /\ (AskedFor(t)' => AskedFor(t))
  BY <1>1 DEF AskedFor, Accepted
<1>8. /\ Asked' \in [Plain -> BOOLEAN]
      /\ \A t \in Plain : Asked'[t] => Asked[t]
  BY <1>7 DEF Asked
<1> QED BY <1>1, <1>2, <1>3, <1>4, <1>6, <1>8
       DEF Contract!Crash, Shown, Processes, Asked, Tellings, Watches

LEMMA RestartRefines ==
    ASSUME ContractInv, Restart
    PROVE  Contract!Restart
<1>a. TypeOK /\ LifeInv /\ Plain \subseteq Tasks /\ Next
  BY DEF ContractInv, LifeInv, VerdictInv, TypeInv, Plain, Next
<1>1. /\ ~up /\ up' = TRUE /\ UNCHANGED <<child, sig, cpc, target, wpc>>
      /\ \A t \in Tasks : store'[t] = IF Recovered(t) THEN "running" ELSE "absent"
  BY DEF Restart, procVars, cancelVars, waitVars
<1>2. /\ UNCHANGED Processes
      /\ UNCHANGED Asked
      /\ UNCHANGED Watches
  BY <1>1 DEF Processes, Asked, Watches, ProcessOf, AskedFor, WatchOf
<1>3. UNCHANGED Tellings
  <2>1. ASSUME NEW t \in Plain PROVE Told(t)' = Told(t)
    <3>1. ~Crash /\ ~WaitEmit(t)
      BY <1>1 DEF Crash, WaitEmit
    <3> QED BY <1>a, <3>1, ToldStays
  <2> QED BY <2>1 DEF Tellings
<1>4. ASSUME NEW t \in Plain, Recovered(t) PROVE ProcessOf(t) # "none"
  <2>1. t \notin Foreign /\ Books(t)
    BY <1>a DEF Plain, LifeInv
  <2> QED BY <1>4, <2>1 DEF Recovered, SpawnAborted, Books, ProcessOf
<1>5. /\ Shown' \in [Plain -> {"absent", "running"}]
      /\ \A t \in Plain : Shown'[t] = "running" => Processes[t] # "none"
  BY <1>a, <1>1, <1>4 DEF Shown, Processes
<1> QED BY <1>1, <1>2, <1>3, <1>5
       DEF Contract!Restart, Shown, Processes, Asked, Tellings, Watches

\* However its threads, its cancel requests, its failures and its crashes
\* interleave, popolad keeps what the contract of a local task promises: one end
\* in the log, and the true one, and a handle that follows it (server.py,
\* supervisor.py).
THEOREM KeepsPromises == Spec => KeepsTaskContract
<1>1. Init => Contract!ContractInit
  <2> SUFFICES ASSUME Init PROVE Contract!ContractInit
    OBVIOUS
  <2>1. ASSUME NEW t \in Plain
        PROVE  /\ store[t] = "absent" /\ ProcessOf(t) = "none" /\ AskedFor(t) = FALSE
               /\ Told(t) = {} /\ WatchOf(t) = "none"
    <3>1. t \in Tasks /\ t \notin Foreign
      BY DEF Plain
    <3>2. store[t] = "absent" /\ ProcessOf(t) = "none" /\ WatchOf(t) = "none"
      BY <3>1 DEF Init, ProcessOf, WatchOf
    <3>3. AskedFor(t) = FALSE
      BY <3>1 DEF Init, AskedFor, Accepted
    <3>4. log[t] = <<>>
      BY <3>1 DEF Init
    <3>5. Told(t) = {}
      BY <3>4 DEF Told, Heard
    <3> QED BY <3>2, <3>3, <3>5
  <2>2. up = TRUE
    BY DEF Init
  <2> QED BY <2>1, <2>2 DEF Contract!ContractInit
<1>2. ContractInv /\ [Next]_vars => [Contract!ContractNext]_Contract!contractVars
  <2> SUFFICES ASSUME ContractInv, [Next]_vars
               PROVE  Contract!ContractNext \/ UNCHANGED Contract!contractVars
    OBVIOUS
  <2> DEFINE Goal == Contract!ContractNext \/ UNCHANGED Contract!contractVars
  <2>1. ASSUME NEW u \in Tasks,
               Dispatch(u) \/ ChildExit(u) \/ Wait(u) \/ Graph(u) \/ FlushLog(u)
        PROVE  Goal
    <3>1. CASE u \notin Plain
      BY <2>1, <3>1, Silent
    <3>2. CASE u \in Plain
      <4>1. CASE Dispatch(u)
        BY <3>2, <4>1, DispatchRefines DEF Contract!ContractNext
      <4>2. CASE ChildExit(u)
        BY <3>2, <4>2, ExitRefines DEF Contract!ContractNext
      <4>3. CASE Wait(u)
        BY <3>2, <4>3, WaitRefines DEF Contract!ContractNext
      <4>4. CASE Graph(u)
        BY <3>2, <4>4, GraphRefines DEF Contract!ContractNext
      <4>5. CASE FlushLog(u)
        <5>1. UNCHANGED <<store, child, wpc, log>>
          BY <4>5 DEF FlushLog, storeVars, procVars, waitVars
        <5>2. ProcessOf(u)' = ProcessOf(u) /\ WatchOf(u)' = WatchOf(u)
          BY <5>1 DEF ProcessOf, WatchOf
        <5>3. ~WaitEmit(u)
          BY <5>1, <2>1 DEF WaitEmit, ContractInv, LifeInv, VerdictInv, TypeInv, TypeOK
        <5> QED BY <2>1, <4>5, <5>1, <5>2, <5>3, Silent
      <4> QED BY <2>1, <4>1, <4>2, <4>3, <4>4, <4>5
    <3> QED BY <3>1, <3>2
  <2>2. ASSUME NEW c \in Cancelers, Cancel(c) PROVE Goal
    BY <2>2, CancelRefines DEF Contract!ContractNext
  <2>3. CASE Crash
    BY <2>3, CrashRefines DEF Contract!ContractNext
  <2>4. CASE Restart
    BY <2>4, RestartRefines DEF Contract!ContractNext
  <2>5. CASE UNCHANGED vars
    <3>1. ASSUME NEW t \in Plain PROVE Same(t)
      BY <2>5 DEF vars, Same, ProcessOf, Told, AskedFor, WatchOf, storeVars, procVars,
         logVars, waitVars, cancelVars
    <3>2. up' = up
      BY <2>5 DEF vars, sysVars
    <3> QED BY <3>1, <3>2, Unseen
  <2> QED BY <2>1, <2>2, <2>3, <2>4, <2>5 DEF Next
<1> QED BY <1>1, <1>2, ContractInvHolds, PTL DEF Spec, KeepsTaskContract, Contract!ContractSpec

=============================================================================
