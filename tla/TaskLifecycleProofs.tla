------------------------ MODULE TaskLifecycleProofs ------------------------
(* Theorems about TaskLifecycle, for every set of tasks and requests, every *)
(* set of faults and every number of crashes.                               *)
EXTENDS TaskLifecycle, TLAPS, SequenceTheorems

\* One truncation of a log is a log again.
LEMMA TruncatedLog ==
    ASSUME NEW S, NEW s \in Seq(S), NEW k \in 0..Len(s)
    PROVE  /\ SubSeq(s, 1, k) \in Seq(S)
           /\ Len(SubSeq(s, 1, k)) = k
           /\ \A i \in 1..k : SubSeq(s, 1, k)[i] = s[i]
<1>1. \A i \in 1..k : s[i] \in S
  BY ElementOfSeq
<1> QED BY <1>1, SubSeqProperties

\* Appending an event keeps the type of the logs.
LEMMA AppendedLog ==
    ASSUME log \in [Tasks -> Seq(Events)], NEW t \in Tasks, NEW e \in Events
    PROVE  Appended(t, e) \in [Tasks -> Seq(Events)]
<1>1. Append(log[t], e) \in Seq(Events)
  BY AppendProperties
<1> QED BY <1>1 DEF Appended

\* The events the actions append.
LEMMA EventNames ==
    /\ Verdicts \subseteq Events
    /\ {"task.completed", "task.failed", "task.canceled", "task.canceled+sigkill"} = Verdicts
    /\ {"task.dispatched", "task.cancel_requested", "task.cancel_escalated",
        "popolad.recovered", "popolad.spawn_aborted"} \subseteq Events
  BY DEF Verdicts, Events

\* Sending a signal keeps the type of the signals.
LEMMA SignaledType ==
    ASSUME sig \in [Tasks -> {"none", "term", "kill"}], NEW t \in Tasks
    PROVE  /\ Signaled(t, "term") \in [Tasks -> {"none", "term", "kill"}]
           /\ Signaled(t, "kill") \in [Tasks -> {"none", "term", "kill"}]
<1>1. CASE child[t] = "running" /\ sig[t] # "kill"
  BY <1>1 DEF Signaled
<1>2. CASE ~(child[t] = "running" /\ sig[t] # "kill")
  BY <1>2 DEF Signaled
<1> QED BY <1>1, <1>2

\* What makes the types inductive: the terminal event the wait thread is about
\* to append has been chosen by then.
VerdictChosen ==
    \A t \in Tasks : wpc[t] = "resolved" => verdict[t] \in Verdicts

TypeInv == TypeOK /\ VerdictChosen

\* Every action keeps the types.
LEMMA TypeStep == TypeInv /\ [Next]_vars => TypeOK'
<1> SUFFICES ASSUME TypeOK, VerdictChosen, [Next]_vars PROVE TypeOK'
  BY DEF TypeInv
<1> USE TaskSetsAssumption, FaultsAssumption, CrashAssumption
<1> USE DEF TypeOK, sysVars, storeVars, dbVars, procVars, logVars, waitVars,
            cancelVars, Exits, Terminal, InCall, CancelPoints
<1>1. ASSUME NEW t \in Tasks, Dispatch(t) PROVE TypeOK'
  <2>1. CASE DispatchCreateRow(t) BY <2>1 DEF DispatchCreateRow
  <2>2. CASE DispatchRegister(t) BY <2>2, AppendedLog, EventNames DEF DispatchRegister
  <2>3. CASE DispatchSpawn(t) BY <2>3 DEF DispatchSpawn
  <2>4. CASE DispatchSpawnRaises(t) BY <2>4 DEF DispatchSpawnRaises
  <2>5. CASE DispatchSetPid(t) BY <2>5 DEF DispatchSetPid
  <2>6. CASE DispatchRecord(t) BY <2>6, ZenonT(60) DEF DispatchRecord
  <2> QED BY <1>1, <2>1, <2>2, <2>3, <2>4, <2>5, <2>6 DEF Dispatch
<1>2. ASSUME NEW t \in Tasks, ChildExit(t) PROVE TypeOK'
  <2>1. ExitsFor(sig[t]) \subseteq Exits
    BY DEF ExitsFor
  <2> QED BY <1>2, <2>1 DEF ChildExit
<1>3. ASSUME NEW t \in Tasks, Wait(t) PROVE TypeOK'
  <2>1. CASE WaitReap(t) BY <2>1 DEF WaitReap
  <2>2. CASE WaitRaises(t) BY <2>2 DEF WaitRaises
  <2>3. CASE WaitResolve(t) BY <2>3, EventNames DEF WaitResolve, ResolvedVerdict
  <2>4. CASE WaitEmit(t)
    <3>1. verdict[t] \in Verdicts
      BY <2>4 DEF WaitEmit, VerdictChosen
    <3> QED BY <2>4, <3>1, AppendedLog, EventNames DEF WaitEmit
  <2>5. CASE ExitRead(t) BY <2>5 DEF ExitRead
  <2>6. CASE ExitUpdate(t) BY <2>6 DEF ExitUpdate
  <2> QED BY <1>3, <2>1, <2>2, <2>3, <2>4, <2>5, <2>6 DEF Wait
<1>4. ASSUME NEW t \in Tasks, Graph(t) PROVE TypeOK'
  <2>1. CASE GraphEnd(t) BY <2>1 DEF GraphEnd
  <2>2. CASE GraphBlowsUp(t) BY <2>2 DEF GraphBlowsUp
  <2> QED BY <1>4, <2>1, <2>2 DEF Graph
<1>5. ASSUME NEW c \in Cancelers, Cancel(c) PROVE TypeOK'
  <2>1. CASE CancelCheck(c) 
    <3>1. PICK to \in CancelPoints : Goto(c, "idle", to)
      BY <2>1 DEF CancelCheck
    <3>2. cpc' \in [Cancelers -> CancelPoints]
      BY <3>1 DEF Goto
    <3> QED BY <2>1, <3>2 DEF CancelCheck
  <2>2. CASE CancelGraceTerminal(c) BY <2>2 DEF CancelGraceTerminal, Goto
  <2>3. CASE CancelGraceExpire(c) BY <2>3, AppendedLog, EventNames DEF CancelGraceExpire, Goto
  <2>4. CASE CancelSoftMark(c) BY <2>4 DEF CancelSoftMark, Goto
  <2>5. CASE CancelSoftPersist(c) BY <2>5, AppendedLog, EventNames DEF CancelSoftPersist, Goto
  <2>6. CASE CancelMark(c) BY <2>6 DEF CancelMark, Goto
  <2>7. CASE CancelTerm(c) 
    <3>0. PICK to \in CancelPoints : Goto(c, "marked", to)
      BY <2>7 DEF CancelTerm
    <3>1. cpc' \in [Cancelers -> CancelPoints]
      BY <3>0 DEF Goto
    <3>2. log' \in [Tasks -> Seq(Events)]
      BY <2>7, AppendedLog, EventNames DEF CancelTerm
    <3>3. sig' \in [Tasks -> {"none", "term", "kill"}]
      BY <2>7, SignaledType DEF CancelTerm
    <3> QED BY <2>7, <3>1, <3>2, <3>3 DEF CancelTerm
  <2>8. CASE CancelLog(c) BY <2>8, AppendedLog, EventNames DEF CancelLog, Goto
  <2>9. CASE CancelGone(c) BY <2>9 DEF CancelGone, Goto
  <2>10. CASE CancelExpire(c) BY <2>10 DEF CancelExpire, Goto
  <2>11. CASE CancelKill(c) 
    <3>1. PICK to \in CancelPoints : Goto(c, "escalating", to)
      BY <2>11 DEF CancelKill
    <3>2. cpc' \in [Cancelers -> CancelPoints]
      BY <3>1 DEF Goto
    <3>3. sig' \in [Tasks -> {"none", "term", "kill"}]
      BY <2>11, SignaledType DEF CancelKill
    <3>4. escalated' \in [Tasks -> BOOLEAN]
      BY <2>11 DEF CancelKill
    <3> QED BY <2>11, <3>2, <3>3, <3>4 DEF CancelKill
  <2>12. CASE CancelLogKill(c) BY <2>12, AppendedLog, EventNames DEF CancelLogKill, Goto
  <2>13. CASE CancelFinish(c) BY <2>13 DEF CancelFinish, Goto
  <2> QED BY <1>5, <2>1, <2>2, <2>3, <2>4, <2>5, <2>6, <2>7, <2>8, <2>9, <2>10,
             <2>11, <2>12, <2>13 DEF Cancel
<1>6. ASSUME NEW t \in Tasks, FlushLog(t) PROVE TypeOK'
  BY <1>6, LenProperties DEF FlushLog
<1>7. CASE Crash
  <2>1. PICK kept \in [Tasks -> UNION {durable[t]..Len(log[t]) : t \in Tasks}] :
            /\ \A t \in Tasks : kept[t] \in durable[t]..Len(log[t])
            /\ durable' = kept
            /\ log' = [t \in Tasks |-> SubSeq(log[t], 1, kept[t])]
    BY <1>7 DEF Crash
  <2>2. \A t \in Tasks : kept[t] \in 0..Len(log[t])
    BY <2>1, LenProperties
  <2>3. durable' \in [Tasks -> Nat]
    BY <2>1, <2>2, LenProperties
  <2>4. log' \in [Tasks -> Seq(Events)]
    BY <2>1, <2>2, TruncatedLog
  <2>5. crashes' \in 0..MaxCrashes
    BY <1>7 DEF Crash
  <2>6. dpc' \in [Tasks -> {"idle", "created", "registered", "spawned", "pid_set",
                            "returned", "raised", "lost"}]
    BY <1>7 DEF Crash
  <2>7. reaped' \in [Tasks -> BOOLEAN]
    BY <1>7 DEF Crash
  <2> QED BY <1>7, <2>3, <2>4, <2>5, <2>6, <2>7 DEF Crash
<1>8. CASE Restart
  <2>1. log' \in [Tasks -> Seq(Events)]
    <3> SUFFICES ASSUME NEW t \in Tasks
                 PROVE  /\ Append(log[t], "popolad.spawn_aborted") \in Seq(Events)
                        /\ Append(log[t], "popolad.recovered") \in Seq(Events)
                        /\ <<"popolad.recovered">> \in Seq(Events)
      BY <1>8 DEF Restart
    <3>1. "popolad.spawn_aborted" \in Events /\ "popolad.recovered" \in Events
      BY EventNames
    <3> QED BY <3>1, AppendProperties
  <2>2. durable' \in [Tasks -> Nat]
    BY <1>8, LenProperties DEF Restart
  <2> QED BY <1>8, <2>1, <2>2 DEF Restart
<1>9. CASE UNCHANGED vars
  BY <1>9 DEF vars
<1> QED BY <1>1, <1>2, <1>3, <1>4, <1>5, <1>6, <1>7, <1>8, <1>9 DEF Next

\* The wait thread reaches "resolved" with a verdict, and only it writes one.
LEMMA VerdictStep == TypeInv /\ [Next]_vars => VerdictChosen'
<1> SUFFICES ASSUME TypeOK, VerdictChosen, [Next]_vars, NEW u \in Tasks,
                    wpc'[u] = "resolved"
             PROVE  verdict'[u] \in Verdicts
  BY DEF TypeInv, VerdictChosen
<1> USE DEF TypeOK, waitVars
<1>1. CASE UNCHANGED waitVars
  BY <1>1 DEF VerdictChosen
<1>2. CASE UNCHANGED <<wpc, verdict>>
  BY <1>2 DEF VerdictChosen
<1>3. ASSUME NEW t \in Tasks, WaitResolve(t) PROVE verdict'[u] \in Verdicts
  <2>1. ResolvedVerdict(t, seen[t]) \in Verdicts
    BY EventNames DEF ResolvedVerdict
  <2> QED BY <1>3, <2>1 DEF WaitResolve, VerdictChosen
<1>4. ASSUME NEW t \in Tasks, Wait(t) PROVE verdict'[u] \in Verdicts
  <2>1. CASE WaitReap(t) BY <2>1 DEF WaitReap, VerdictChosen
  <2>2. CASE WaitRaises(t) BY <2>2 DEF WaitRaises, VerdictChosen
  <2>3. CASE WaitEmit(t) BY <2>3 DEF WaitEmit, VerdictChosen
  <2>4. CASE ExitRead(t) BY <2>4 DEF ExitRead, VerdictChosen
  <2>5. CASE ExitUpdate(t) BY <2>5 DEF ExitUpdate, VerdictChosen
  <2> QED BY <1>3, <1>4, <2>1, <2>2, <2>3, <2>4, <2>5 DEF Wait
<1>5. ASSUME NEW t \in Tasks, DispatchSpawn(t) PROVE verdict'[u] \in Verdicts
  BY <1>5 DEF DispatchSpawn, VerdictChosen
<1>6. CASE Crash
  BY <1>6 DEF Crash
<1>7. ASSUME NEW t \in Tasks, Dispatch(t), ~DispatchSpawn(t) PROVE UNCHANGED waitVars
  BY <1>7 DEF Dispatch, DispatchCreateRow, DispatchRegister, DispatchSpawnRaises,
              DispatchSetPid, DispatchRecord
<1>8. ASSUME NEW t \in Tasks, ChildExit(t) \/ Graph(t) \/ FlushLog(t)
      PROVE UNCHANGED waitVars
  BY <1>8 DEF ChildExit, Graph, GraphEnd, GraphBlowsUp, FlushLog
<1>9. ASSUME NEW c \in Cancelers, Cancel(c) PROVE UNCHANGED waitVars
  BY <1>9 DEF Cancel, CancelCheck, CancelGraceTerminal, CancelGraceExpire,
              CancelSoftMark, CancelSoftPersist, CancelMark, CancelTerm, CancelLog,
              CancelGone, CancelExpire, CancelKill, CancelLogKill, CancelFinish
<1>10. CASE Restart
  BY <1>1, <1>10 DEF Restart
<1> QED BY <1>1, <1>4, <1>5, <1>6, <1>7, <1>8, <1>9, <1>10 DEF Next, vars

\* The initial state has the types.
LEMMA TypeInit == Init => TypeInv
<1> SUFFICES ASSUME Init PROVE TypeInv
  OBVIOUS
<1>1. <<>> \in Seq(Events) /\ <<"popolad.recovered">> \in Seq(Events)
  <2>1. "popolad.recovered" \in Events
    BY EventNames
  <2> QED BY <2>1
<1>2. log \in [Tasks -> Seq(Events)] /\ durable \in [Tasks -> Nat]
  BY <1>1 DEF Init
<1>3. crashes \in 0..MaxCrashes /\ up \in BOOLEAN
  BY CrashAssumption DEF Init
<1>4. VerdictChosen
  BY DEF Init, VerdictChosen
<1> QED BY <1>2, <1>3, <1>4 DEF Init, TypeInv, TypeOK, Exits, Terminal, InCall,
           CancelPoints

\* Type correctness: every variable of the lifecycle keeps its range, however
\* dispatches, exits, cancels, crashes and restarts interleave.
THEOREM TypeCorrect == Spec => []TypeOK
<1>1. TypeInv /\ [Next]_vars => TypeInv'
  BY TypeStep, VerdictStep DEF TypeInv
<1>2. TypeInv => TypeOK
  BY DEF TypeInv
<1> QED BY <1>1, <1>2, TypeInit, PTL DEF Spec

-----------------------------------------------------------------------------
(* At most one terminal event.  The invariant behind it: the wait thread is  *)
(* started once, appends once and never steps back; a cancel request appends *)
(* a terminal event only to the logs of foreign rows and cursor- ids.        *)

\* The log of t has room for a verdict only before the wait thread's append.
VerdictIsOut(t) ==
    \/ wpc[t] \in {"emitted", "exit_read", "done"}
    \/ wpc[t] = "none" /\ dpc[t] \notin {"idle", "created", "registered"}

VerdictInv ==
    /\ TypeInv
    /\ OneVerdict
    /\ \A t \in Plain : HasVerdict(log[t]) => VerdictIsOut(t)
    /\ \A t \in Tasks : dpc[t] \in {"idle", "created", "registered"} => wpc[t] = "none"
    /\ \A c \in Cancelers : cpc[c] \in {"orphan", "orphan_marked"} => target[c] \in Foreign
    /\ \A c \in Cancelers : cpc[c] = "grace" => target[c] \in CursorIds

\* An event that is no verdict leaves the verdicts of a log alone.
LEMMA QuietAppend ==
    ASSUME NEW s \in Seq(Events), NEW e \in Events, e \notin Verdicts
    PROVE  /\ OneVerdictIn(s) => OneVerdictIn(Append(s, e))
           /\ HasVerdict(Append(s, e)) => HasVerdict(s)
<1>1. /\ Len(Append(s, e)) = Len(s) + 1 /\ Len(s) \in Nat
      /\ DOMAIN s = 1..Len(s) /\ DOMAIN Append(s, e) = 1..(Len(s) + 1)
      /\ \A i \in 1..Len(s) : Append(s, e)[i] = s[i]
      /\ Append(s, e)[Len(s) + 1] = e
  BY AppendProperties, LenProperties
<1> QED BY <1>1 DEF OneVerdictIn, HasVerdict

\* The first verdict of a log is its only one.
LEMMA FirstVerdict ==
    ASSUME NEW s \in Seq(Events), NEW e \in Events, ~HasVerdict(s)
    PROVE  OneVerdictIn(Append(s, e))
<1>1. /\ Len(s) \in Nat
      /\ DOMAIN s = 1..Len(s) /\ DOMAIN Append(s, e) = 1..(Len(s) + 1)
      /\ \A i \in 1..Len(s) : Append(s, e)[i] = s[i]
  BY AppendProperties, LenProperties
<1> QED BY <1>1 DEF OneVerdictIn, HasVerdict

\* Losing a suffix brings no verdict.
LEMMA LostSuffix ==
    ASSUME NEW s \in Seq(Events), NEW k \in 0..Len(s)
    PROVE  /\ OneVerdictIn(s) => OneVerdictIn(SubSeq(s, 1, k))
           /\ HasVerdict(SubSeq(s, 1, k)) => HasVerdict(s)
<1>1. /\ DOMAIN s = 1..Len(s) /\ DOMAIN SubSeq(s, 1, k) = 1..k
      /\ \A i \in 1..k : SubSeq(s, 1, k)[i] = s[i] /\ i \in 1..Len(s)
  BY TruncatedLog, LenProperties
<1> QED BY <1>1 DEF OneVerdictIn, HasVerdict

\* What a step may do to the log of a plain task: nothing, a quiet append, the
\* wait thread's append of its verdict, or the loss of a suffix.
LEMMA LogMoves ==
    ASSUME VerdictInv, [Next]_vars, NEW t \in Plain
    PROVE  \/ log'[t] = log[t]
           \/ \E e \in Events : e \notin Verdicts /\ log'[t] = Append(log[t], e)
           \/ WaitEmit(t)
           \/ Crash /\ \E k \in 0..Len(log[t]) : log'[t] = SubSeq(log[t], 1, k)
<1>t. t \in Tasks /\ t \notin Foreign /\ t \notin CursorIds
  BY DEF Plain
<1>log. log \in [Tasks -> Seq(Events)] /\ target \in [Cancelers -> Tasks]
  BY DEF VerdictInv, TypeInv, TypeOK
<1>quiet. \A e \in {"task.dispatched", "task.cancel_requested", "task.cancel_escalated",
                    "popolad.recovered", "popolad.spawn_aborted"} :
             e \in Events /\ e \notin Verdicts
  BY DEF Events, Verdicts
<1> DEFINE Quiet == \E e \in Events : e \notin Verdicts /\ log'[t] = Append(log[t], e)
<1>app. ASSUME NEW u \in Tasks, NEW e \in Events, e \notin Verdicts, log' = Appended(u, e)
        PROVE  log'[t] = log[t] \/ Quiet
  <2>1. CASE u = t BY <1>app, <1>t, <1>log, <2>1 DEF Appended
  <2>2. CASE u # t BY <1>app, <1>t, <1>log, <2>2 DEF Appended
  <2> QED BY <2>1, <2>2
<1>1. ASSUME NEW u \in Tasks, Dispatch(u) PROVE log'[t] = log[t] \/ Quiet
  <2>1. CASE DispatchRegister(u)
    BY <2>1, <1>quiet, <1>app DEF DispatchRegister
  <2>2. CASE UNCHANGED log
    BY <2>2
  <2> QED BY <1>1, <2>1, <2>2 DEF Dispatch, DispatchCreateRow, DispatchSpawn,
             DispatchSpawnRaises, DispatchSetPid, DispatchRecord, logVars
<1>2. ASSUME NEW u \in Tasks, ChildExit(u) \/ Graph(u) \/ FlushLog(u)
      PROVE  log'[t] = log[t]
  BY <1>2 DEF ChildExit, Graph, GraphEnd, GraphBlowsUp, FlushLog, logVars
<1>3. ASSUME NEW u \in Tasks, Wait(u) PROVE log'[t] = log[t] \/ WaitEmit(t)
  <2>1. CASE WaitEmit(u)
    <3>1. CASE u = t BY <2>1, <3>1
    <3>2. CASE u # t BY <2>1, <3>2, <1>t, <1>log DEF WaitEmit, Appended
    <3> QED BY <3>1, <3>2
  <2> QED BY <1>3, <2>1 DEF Wait, WaitReap, WaitRaises, WaitResolve, ExitRead,
             ExitUpdate, logVars
<1>4. ASSUME NEW c \in Cancelers, Cancel(c) PROVE log'[t] = log[t] \/ Quiet
  <2>1. CASE CancelGraceExpire(c)
    <3>1. target[c] \in CursorIds
      BY <2>1 DEF CancelGraceExpire, Goto, VerdictInv
    <3> QED BY <2>1, <3>1, <1>t, <1>log DEF CancelGraceExpire, Appended
  <2>2. CASE CancelSoftPersist(c)
    <3>1. target[c] \in Foreign
      BY <2>2 DEF CancelSoftPersist, Goto, VerdictInv
    <3> QED BY <2>2, <3>1, <1>t, <1>log DEF CancelSoftPersist, Appended
  <2>3. CASE CancelTerm(c)
    BY <2>3, <1>quiet, <1>app, <1>log DEF CancelTerm
  <2>4. CASE CancelLog(c)
    BY <2>4, <1>quiet, <1>app, <1>log DEF CancelLog
  <2>5. CASE CancelLogKill(c)
    BY <2>5, <1>quiet, <1>app, <1>log DEF CancelLogKill
  <2>6. CASE UNCHANGED log
    BY <2>6
  <2> QED BY <1>4, <2>1, <2>2, <2>3, <2>4, <2>5, <2>6 DEF Cancel, CancelCheck,
             CancelGraceTerminal, CancelSoftMark, CancelMark, CancelGone,
             CancelExpire, CancelKill, CancelFinish, logVars
<1>5. ASSUME Crash PROVE \E k \in 0..Len(log[t]) : log'[t] = SubSeq(log[t], 1, k)
  <2>1. PICK kept : /\ \A u \in Tasks : kept[u] \in durable[u]..Len(log[u])
                    /\ log' = [u \in Tasks |-> SubSeq(log[u], 1, kept[u])]
    BY <1>5 DEF Crash
  <2>2. durable[t] \in Nat /\ Len(log[t]) \in Nat
    BY <1>t, <1>log, LenProperties DEF VerdictInv, TypeInv, TypeOK
  <2>3. kept[t] \in 0..Len(log[t])
    BY <2>1, <2>2, <1>t
  <2> QED BY <2>1, <2>3, <1>t
<1>6. ASSUME Restart PROVE log'[t] = log[t] \/ Quiet
  BY <1>6, <1>t, <1>quiet DEF Restart
<1>7. CASE UNCHANGED vars
  BY <1>7 DEF vars, logVars
<1> QED BY <1>1, <1>2, <1>3, <1>4, <1>5, <1>6, <1>7 DEF Next

\* The wait thread starts at the spawn and never before it.
LEMMA WaitStartsAtSpawn ==
    ASSUME VerdictInv, [Next]_vars, NEW t \in Tasks,
           dpc'[t] \in {"idle", "created", "registered"}
    PROVE  wpc'[t] = "none"
<1> USE DEF VerdictInv, TypeInv, TypeOK, waitVars
<1>1. ASSUME NEW u \in Tasks, Dispatch(u) PROVE wpc'[t] = "none"
  <2>1. CASE DispatchSpawn(u)
    BY <2>1 DEF DispatchSpawn
  <2>2. CASE DispatchCreateRow(u) BY <2>2 DEF DispatchCreateRow
  <2>3. CASE DispatchRegister(u) BY <2>3 DEF DispatchRegister
  <2>4. CASE DispatchSpawnRaises(u) BY <2>4 DEF DispatchSpawnRaises
  <2>5. CASE DispatchSetPid(u) BY <2>5 DEF DispatchSetPid
  <2>6. CASE DispatchRecord(u) BY <2>6 DEF DispatchRecord
  <2> QED BY <1>1, <2>1, <2>2, <2>3, <2>4, <2>5, <2>6 DEF Dispatch
<1>2. ASSUME NEW u \in Tasks, Wait(u) PROVE wpc'[t] = "none"
  <2>1. UNCHANGED dpc /\ wpc[u] # "none"
    BY <1>2 DEF Wait, WaitReap, WaitRaises, WaitResolve, WaitEmit, ExitRead, ExitUpdate
  <2>2. \A v \in Tasks : v # u => wpc'[v] = wpc[v]
    BY <1>2 DEF Wait, WaitReap, WaitRaises, WaitResolve, WaitEmit, ExitRead, ExitUpdate
  <2> QED BY <2>1, <2>2
<1>3. ASSUME NEW u \in Tasks, ChildExit(u) \/ Graph(u) \/ FlushLog(u)
      PROVE  UNCHANGED <<dpc, wpc>>
  BY <1>3 DEF ChildExit, Graph, GraphEnd, GraphBlowsUp, FlushLog
<1>4. ASSUME NEW c \in Cancelers, Cancel(c) PROVE UNCHANGED <<dpc, wpc>>
  BY <1>4 DEF Cancel, CancelCheck, CancelGraceTerminal, CancelGraceExpire,
              CancelSoftMark, CancelSoftPersist, CancelMark, CancelTerm, CancelLog,
              CancelGone, CancelExpire, CancelKill, CancelLogKill, CancelFinish
<1>5. CASE Crash
  BY <1>5 DEF Crash
<1>6. CASE Restart
  BY <1>6 DEF Restart
<1>7. CASE UNCHANGED vars
  BY <1>7 DEF vars
<1> QED BY <1>1, <1>2, <1>3, <1>4, <1>5, <1>6, <1>7 DEF Next

\* Once the verdict is out the wait thread never gets ready to append again.
LEMMA VerdictStaysOut ==
    ASSUME VerdictInv, [Next]_vars, NEW t \in Tasks, VerdictIsOut(t)
    PROVE  VerdictIsOut(t)'
<1> USE DEF VerdictInv, TypeInv, TypeOK, waitVars, VerdictIsOut
<1>1. ASSUME NEW u \in Tasks, Dispatch(u) PROVE VerdictIsOut(t)'
  <2>1. CASE DispatchSpawn(u) BY <2>1 DEF DispatchSpawn
  <2>2. CASE DispatchCreateRow(u) BY <2>2 DEF DispatchCreateRow
  <2>3. CASE DispatchRegister(u) BY <2>3 DEF DispatchRegister
  <2>4. CASE DispatchSpawnRaises(u) BY <2>4 DEF DispatchSpawnRaises
  <2>5. CASE DispatchSetPid(u) BY <2>5 DEF DispatchSetPid
  <2>6. CASE DispatchRecord(u) BY <2>6 DEF DispatchRecord
  <2> QED BY <1>1, <2>1, <2>2, <2>3, <2>4, <2>5, <2>6 DEF Dispatch
<1>2. ASSUME NEW u \in Tasks, Wait(u) PROVE VerdictIsOut(t)'
  <2>1. CASE WaitReap(u) BY <2>1 DEF WaitReap
  <2>2. CASE WaitRaises(u) BY <2>2 DEF WaitRaises
  <2>3. CASE WaitResolve(u) BY <2>3 DEF WaitResolve
  <2>4. CASE WaitEmit(u) BY <2>4 DEF WaitEmit
  <2>5. CASE ExitRead(u) BY <2>5 DEF ExitRead
  <2>6. CASE ExitUpdate(u) BY <2>6 DEF ExitUpdate
  <2> QED BY <1>2, <2>1, <2>2, <2>3, <2>4, <2>5, <2>6 DEF Wait
<1>3. ASSUME NEW u \in Tasks, ChildExit(u) \/ Graph(u) \/ FlushLog(u)
      PROVE  UNCHANGED <<dpc, wpc>>
  BY <1>3 DEF ChildExit, Graph, GraphEnd, GraphBlowsUp, FlushLog
<1>4. ASSUME NEW c \in Cancelers, Cancel(c) PROVE UNCHANGED <<dpc, wpc>>
  BY <1>4 DEF Cancel, CancelCheck, CancelGraceTerminal, CancelGraceExpire,
              CancelSoftMark, CancelSoftPersist, CancelMark, CancelTerm, CancelLog,
              CancelGone, CancelExpire, CancelKill, CancelLogKill, CancelFinish
<1>5. CASE Crash
  <2>1. dpc[t] \notin {"idle", "created", "registered"}
    OBVIOUS
  <2> QED BY <1>5, <2>1 DEF Crash
<1>6. CASE Restart
  BY <1>6 DEF Restart
<1>7. CASE UNCHANGED vars
  BY <1>7 DEF vars
<1> QED BY <1>1, <1>2, <1>3, <1>4, <1>5, <1>6, <1>7 DEF Next

\* Only a foreign row is soft-canceled, only a cursor- id waits for a handle.
LEMMA CancelPaths ==
    ASSUME VerdictInv, [Next]_vars, NEW c \in Cancelers
    PROVE  /\ cpc'[c] \in {"orphan", "orphan_marked"} => target'[c] \in Foreign
           /\ cpc'[c] = "grace" => target'[c] \in CursorIds
<1> DEFINE Goal == /\ cpc'[c] \in {"orphan", "orphan_marked"} => target'[c] \in Foreign
                   /\ cpc'[c] = "grace" => target'[c] \in CursorIds
<1> USE DEF VerdictInv, TypeInv, TypeOK, cancelVars
<1>1. ASSUME NEW d \in Cancelers, Cancel(d) PROVE Goal
  <2>1. CASE CancelCheck(d) BY <2>1 DEF CancelCheck, Goto, NeedsCloudGrace
  <2>2. CASE CancelSoftMark(d) BY <2>2 DEF CancelSoftMark, Goto
  <2>3. ASSUME NEW p, NEW q \in CancelPoints \ {"orphan", "orphan_marked", "grace"},
               Goto(d, p, q), UNCHANGED target
        PROVE  Goal
    BY <2>3 DEF Goto
  <2>4. /\ "rejected" \in CancelPoints /\ "soft_canceled" \in CancelPoints
        /\ "already_gone" \in CancelPoints /\ "canceled" \in CancelPoints
        /\ {"marked", "signaled", "waiting", "escalating", "killed", "finishing"}
              \subseteq CancelPoints
    BY DEF CancelPoints, InCall
  <2>5. CASE CancelGraceTerminal(d) BY <2>3, <2>4, <2>5 DEF CancelGraceTerminal
  <2>6. CASE CancelGraceExpire(d) BY <2>3, <2>4, <2>6 DEF CancelGraceExpire
  <2>7. CASE CancelSoftPersist(d) BY <2>3, <2>4, <2>7 DEF CancelSoftPersist
  <2>8. CASE CancelMark(d) BY <2>3, <2>4, <2>8 DEF CancelMark
  <2>9. CASE CancelTerm(d) BY <2>3, <2>4, <2>9 DEF CancelTerm
  <2>10. CASE CancelLog(d) BY <2>3, <2>4, <2>10 DEF CancelLog
  <2>11. CASE CancelGone(d) BY <2>3, <2>4, <2>11 DEF CancelGone
  <2>12. CASE CancelExpire(d) BY <2>3, <2>4, <2>12 DEF CancelExpire
  <2>13. CASE CancelKill(d) BY <2>3, <2>4, <2>13 DEF CancelKill
  <2>14. CASE CancelLogKill(d) BY <2>3, <2>4, <2>14 DEF CancelLogKill
  <2>15. CASE CancelFinish(d) BY <2>3, <2>4, <2>15 DEF CancelFinish
  <2> QED BY <1>1, <2>1, <2>2, <2>5, <2>6, <2>7, <2>8, <2>9, <2>10, <2>11, <2>12,
             <2>13, <2>14, <2>15 DEF Cancel
<1>2. ASSUME NEW u \in Tasks,
             Dispatch(u) \/ ChildExit(u) \/ Wait(u) \/ Graph(u) \/ FlushLog(u)
      PROVE  UNCHANGED cancelVars
  BY <1>2 DEF Dispatch, DispatchCreateRow, DispatchRegister, DispatchSpawn,
       DispatchSpawnRaises, DispatchSetPid, DispatchRecord, ChildExit, Wait, WaitReap,
       WaitRaises, WaitResolve, WaitEmit, ExitRead, ExitUpdate, Graph, GraphEnd,
       GraphBlowsUp, FlushLog
<1>3. CASE Crash BY <1>3 DEF Crash
<1>4. CASE Restart BY <1>4 DEF Restart
<1>5. CASE UNCHANGED vars BY <1>5 DEF vars
<1> QED BY <1>1, <1>2, <1>3, <1>4, <1>5 DEF Next

\* The invariant is inductive.
LEMMA VerdictInvStep == VerdictInv /\ [Next]_vars => VerdictInv'
<1> SUFFICES ASSUME VerdictInv, [Next]_vars PROVE VerdictInv'
  OBVIOUS
<1>1. TypeInv'
  BY TypeStep, VerdictStep DEF VerdictInv, TypeInv
<1>2. ASSUME NEW t \in Plain
      PROVE  OneVerdictIn(log'[t]) /\ (HasVerdict(log'[t]) => VerdictIsOut(t)')
  <2>t. t \in Tasks /\ log[t] \in Seq(Events) /\ OneVerdictIn(log[t])
    BY DEF Plain, VerdictInv, OneVerdict, TypeInv, TypeOK
  <2>0. HasVerdict(log[t]) => VerdictIsOut(t)'
    BY <2>t, VerdictStaysOut DEF VerdictInv
  <2>1. CASE log'[t] = log[t]
    BY <2>0, <2>1, <2>t
  <2>2. ASSUME NEW e \in Events, e \notin Verdicts, log'[t] = Append(log[t], e)
        PROVE  OneVerdictIn(log'[t]) /\ (HasVerdict(log'[t]) => VerdictIsOut(t)')
    BY <2>0, <2>2, <2>t, QuietAppend
  <2>3. CASE WaitEmit(t)
    <3>1. ~VerdictIsOut(t) /\ verdict[t] \in Events
      BY <2>3, <2>t, EventNames
         DEF WaitEmit, VerdictIsOut, VerdictInv, TypeInv, VerdictChosen
    <3>2. ~HasVerdict(log[t])
      BY <3>1 DEF VerdictInv
    <3>3. log'[t] = Append(log[t], verdict[t])
      BY <2>3, <2>t DEF WaitEmit, Appended, VerdictInv, TypeInv, TypeOK
    <3>4. VerdictIsOut(t)'
      BY <2>3, <2>t DEF WaitEmit, VerdictIsOut, VerdictInv, TypeInv, TypeOK
    <3> QED BY <2>t, <3>1, <3>2, <3>3, <3>4, FirstVerdict
  <2>4. ASSUME NEW k \in 0..Len(log[t]), log'[t] = SubSeq(log[t], 1, k)
        PROVE  OneVerdictIn(log'[t]) /\ (HasVerdict(log'[t]) => VerdictIsOut(t)')
    BY <2>0, <2>4, <2>t, LostSuffix
  <2> QED BY <2>1, <2>2, <2>3, <2>4, LogMoves
<1>3. OneVerdict'
  BY <1>2 DEF OneVerdict
<1>4. \A t \in Tasks : dpc'[t] \in {"idle", "created", "registered"} => wpc'[t] = "none"
  BY WaitStartsAtSpawn
<1> QED BY <1>1, <1>2, <1>3, <1>4, CancelPaths DEF VerdictInv

\* At most one terminal event per log, for every number of tasks, of concurrent
\* cancel requests and of crashes, and whatever fails (server.py, supervisor.py).
THEOREM AtMostOneVerdict == Spec => []OneVerdict
<1>1. Init => VerdictInv
  <2> SUFFICES ASSUME Init PROVE VerdictInv
    OBVIOUS
  <2>1. \A t \in Plain : log[t] = <<>>
    BY DEF Init, Plain
  <2>2. OneVerdict /\ \A t \in Plain : ~HasVerdict(log[t])
    BY <2>1 DEF OneVerdict, OneVerdictIn, HasVerdict
  <2> QED BY <2>2, TypeInit DEF VerdictInv, Init
<1>2. VerdictInv => OneVerdict
  BY DEF VerdictInv
<1> QED BY <1>1, <1>2, VerdictInvStep, PTL DEF Spec
=============================================================================
