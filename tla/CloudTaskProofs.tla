-------------------------- MODULE CloudTaskProofs --------------------------
(***************************************************************************)
(* CloudTask: type correctness and the safety properties of a cloud task,   *)
(* for any set of cancel requests, any limits and any faults.               *)
(***************************************************************************)
EXTENDS CloudTask, TLAPS

-----------------------------------------------------------------------------
(* The inductive invariant *)

\* What each point of _spawn_cloud has done and what it keeps others from doing.
SpawnStage ==
    /\ runtime = "local" <=> spc = "registered"
    /\ agentId <=> spc \in {"seeded", "queued", "returned"}
    /\ agentId /\ path = "rest" => runId
    /\ ppc # "none" => spc = "returned" /\ path = "rest"
    /\ spc \in {"registered", "tagged"} => remote = "none"
    /\ state \in Terminal => spc \notin {"registered", "tagged", "created"}

\* The poll limit, and what an answer of the API says for good: a run that has
\* ended stays as it is.
PollStage ==
    /\ ppc \in {"none", "start", "started"} => polls = 0
    /\ ppc = "polling" => polls < MaxPolls
    /\ result # "none" <=> spc = "failed" \/ ppc \in {"ended", "bracketed", "done"}
    /\ body \in TerminalPhases => remote = body
    /\ result \in TerminalPhases => remote = result

\* From the end of the poll loop on, only cancel requests write beside the exit
\* callback, and they write CANCELED.
ExitStage ==
    /\ xpc # "none" <=> (spc = "failed" \/ ppc = "done")
    /\ spc = "failed" => result = "spawn_failed"
    /\ xpc = "read" /\ sawCanceled => state = "canceled"
    /\ result = "CANCELLED" => state = "canceled" /\ (xpc = "read" => sawCanceled)
    /\ spc = "failed" /\ xpc # "done" => state \notin Terminal
    /\ path = "jwt" /\ spc # "failed" => state \notin {"completed", "failed"}
    /\ StoreFollowsRun

\* A request that has left the grace window has its handle, and an accepted one
\* has ended the run.
PastGrace == {"cloud", "accepted", "conflict", "erred", "accepted_marked",
              "conflict_marked"}
Accepted  == {"accepted", "accepted_marked", "canceled"}

CancelStage ==
    \A c \in Cancelers :
        /\ cpc[c] \in PastGrace => agentId
        /\ cpc[c] = "no_handle" => path # "rest"
        /\ cpc[c] \in Accepted => remote = "CANCELLED"

\* The events of the run are in the log as far as the poll loop has come.
Before == {"none", "start", "started"}

LogStage ==
    /\ Positions("task.completed") # {} => remote = "FINISHED"
    /\ ppc \in Before <=> Positions("cloud.run_started") = {}
    /\ ppc \notin {"bracketed", "done"} => Positions("cloud.run_finished") = {}
    /\ RunBrackets

IInv == TypeOK /\ SpawnStage /\ PollStage /\ ExitStage /\ CancelStage /\ LogStage

-----------------------------------------------------------------------------
(* Lemmas *)

\* Appending an event to the log adds its position to those of its kind and
\* leaves the other kinds alone.
LEMMA AppendedEvent ==
    ASSUME log \in Seq(Events), NEW e \in Events, log' = Append(log, e)
    PROVE  /\ log' \in Seq(Events)
           /\ \A x : Positions(x) \subseteq 1..Len(log)
           /\ \A x : x # e => Positions(x)' = Positions(x)
           /\ Positions(e)' = Positions(e) \cup {Len(log) + 1}
<1>1. /\ Len(log) \in Nat /\ log' \in Seq(Events) /\ Len(log') = Len(log) + 1
      /\ \A i \in 1..Len(log) : log'[i] = log[i]
      /\ log'[Len(log) + 1] = e
  OBVIOUS
<1>2. DOMAIN log = 1..Len(log) /\ DOMAIN log' = 1..Len(log) + 1
  BY <1>1
<1>3. DOMAIN log' = DOMAIN log \cup {Len(log) + 1}
  BY <1>1, <1>2
<1> QED BY <1>1, <1>2, <1>3 DEF Positions

\* Every phase maps to a state of the store.
LEMMA MappedType ==
    \A p : Mapped(p) \in {"starting", "running", "completed", "canceled", "failed"}
  BY DEF Mapped

\* The events the actions append.
LEMMA EventNames ==
    Events = {"cloud.queued", "cloud.run_index_reconciled", "cloud.run_started",
              "cloud.run_finished", "task.completed", "task.failed", "task.canceled"}
  BY DEF Events

\* Only a finished run is reported completed.
LEMMA VerdictNames ==
    \A r \in {"none"} \cup Results :
        /\ VerdictOf(r) \in {"task.completed", "task.failed", "task.canceled"}
        /\ VerdictOf(r) = "task.completed" => r = "FINISHED"
  BY DEF VerdictOf

\* An action that leaves the log alone leaves the positions of every kind.
LEMMA KeptLog == UNCHANGED log => \A x : Positions(x)' = Positions(x)
  BY DEF Positions

\* Appending keeps the type of the log.
LEMMA AppendedType ==
    log \in Seq(Events) => \A e \in Events : Append(log, e) \in Seq(Events)
  OBVIOUS

-----------------------------------------------------------------------------
(* Every part of IInv is kept by every action *)

\* Every action keeps the types; the number of polls stays below the limit because
\* the loop gives up at it.
LEMMA TypeStep == IInv /\ Next => TypeOK'
<1> SUFFICES ASSUME IInv, Next PROVE TypeOK'
  OBVIOUS
<1> USE LimitsAssumption, PathsAssumption
<1> USE DEF IInv, TypeOK, handleVars, pollVars, exitVars, PollStage, Terminal,
            LivePhases, TerminalPhases, Results, InCall
<1>1. ASSUME Spawn PROVE TypeOK'
  <2>1. CASE SpawnTag BY <2>1 DEF SpawnTag
  <2>2. CASE SpawnFails BY <2>2, AppendedType, EventNames DEF SpawnFails
  <2>3. CASE SpawnCreate BY <2>3 DEF SpawnCreate
  <2>4. CASE SpawnSeed
    <3>1. runId' \in BOOLEAN
      BY <2>4 DEF SpawnSeed
    <3> QED BY <2>4, <3>1 DEF SpawnSeed
  <2>5. CASE SpawnQueue BY <2>5, AppendedType, EventNames DEF SpawnQueue
  <2>6. CASE SpawnReturn BY <2>6 DEF SpawnReturn
  <2> QED BY <1>1, <2>1, <2>2, <2>3, <2>4, <2>5, <2>6 DEF Spawn
<1>2. ASSUME Poll PROVE TypeOK'
  <2>1. CASE PollReconcile BY <2>1, AppendedType, EventNames DEF PollReconcile
  <2>2. CASE PollStart BY <2>2, AppendedType, EventNames DEF PollStart
  <2>3. CASE PollGet BY <2>3 DEF PollGet
  <2>4. CASE PollRetry BY <2>4 DEF PollRetry
  <2>5. CASE PollRaises BY <2>5 DEF PollRaises
  <2>6. CASE PollTerminal BY <2>6, MappedType DEF PollTerminal
  <2>7. CASE PollLive BY <2>7, MappedType DEF PollLive
  <2>8. CASE PollTimeout BY <2>8 DEF PollTimeout
  <2>9. CASE PollBracket BY <2>9, AppendedType, EventNames DEF PollBracket
  <2>10. CASE PollEmit BY <2>10, AppendedType, EventNames, VerdictNames DEF PollEmit
  <2> QED BY <1>2, <2>1, <2>2, <2>3, <2>4, <2>5, <2>6, <2>7, <2>8, <2>9, <2>10 DEF Poll
<1>3. ASSUME Exit PROVE TypeOK'
  <2>1. CASE ExitRead BY <2>1 DEF ExitRead
  <2>2. CASE ExitUpdate BY <2>2 DEF ExitUpdate
  <2> QED BY <1>3, <2>1, <2>2 DEF Exit
<1>4. ASSUME RemoteStep PROVE TypeOK'
  BY <1>4 DEF RemoteStep
<1>5. ASSUME NEW c \in Cancelers, Cancel(c) PROVE TypeOK'
  <2>1. CASE CancelCheck(c) BY <2>1 DEF CancelCheck, Goto
  <2>2. CASE CancelGraceTerminal(c) BY <2>2 DEF CancelGraceTerminal, Goto
  <2>3. CASE CancelGraceReady(c) BY <2>3 DEF CancelGraceReady, Goto
  <2>4. CASE CancelGraceExpire(c) BY <2>4, AppendedType, EventNames DEF
          CancelGraceExpire, Goto
  <2>5. CASE CancelNoHandle(c) BY <2>5, AppendedType, EventNames DEF CancelNoHandle,
          Goto
  <2>6. CASE CancelNoClient(c) BY <2>6 DEF CancelNoClient, Goto
  <2>7. CASE CancelPost(c) BY <2>7 DEF CancelPost, Goto
  <2>8. CASE CancelMark(c) BY <2>8 DEF CancelMark, Goto
  <2>9. CASE CancelEmit(c) BY <2>9, AppendedType, EventNames DEF CancelEmit, Goto
  <2>10. CASE CancelReport(c) BY <2>10, AppendedType, EventNames DEF CancelReport, Goto
  <2> QED BY <1>5, <2>1, <2>2, <2>3, <2>4, <2>5, <2>6, <2>7, <2>8, <2>9, <2>10 DEF
          Cancel
<1> QED BY <1>1, <1>2, <1>3, <1>4, <1>5 DEF Next

\* Nothing but the spawn writes the ids, and the poller and the requests that post
\* wait for it; so no result is in the store before the seed.
LEMMA SpawnStageStep == IInv /\ Next => SpawnStage'
<1> SUFFICES ASSUME IInv, Next PROVE SpawnStage'
  OBVIOUS
<1> USE LimitsAssumption, PathsAssumption
<1> USE DEF IInv, TypeOK, handleVars, pollVars, exitVars, SpawnStage, ExitStage,
            CancelStage, PastGrace, Populated, Mapped, Terminal, LivePhases,
            TerminalPhases
<1>1. ASSUME Spawn PROVE SpawnStage'
  <2>1. CASE SpawnTag BY <2>1 DEF SpawnTag
  <2>2. CASE SpawnFails BY <2>2 DEF SpawnFails
  <2>3. CASE SpawnCreate BY <2>3 DEF SpawnCreate
  <2>4. CASE SpawnSeed BY <2>4 DEF SpawnSeed
  <2>5. CASE SpawnQueue BY <2>5 DEF SpawnQueue
  <2>6. CASE SpawnReturn BY <2>6 DEF SpawnReturn
  <2> QED BY <1>1, <2>1, <2>2, <2>3, <2>4, <2>5, <2>6 DEF Spawn
<1>2. ASSUME Poll PROVE SpawnStage'
  <2>1. CASE PollReconcile BY <2>1 DEF PollReconcile
  <2>2. CASE PollStart BY <2>2 DEF PollStart
  <2>3. CASE PollGet BY <2>3 DEF PollGet
  <2>4. CASE PollRetry BY <2>4 DEF PollRetry
  <2>5. CASE PollRaises BY <2>5 DEF PollRaises
  <2>6. CASE PollTerminal BY <2>6 DEF PollTerminal
  <2>7. CASE PollLive BY <2>7 DEF PollLive
  <2>8. CASE PollTimeout BY <2>8 DEF PollTimeout
  <2>9. CASE PollBracket BY <2>9 DEF PollBracket
  <2>10. CASE PollEmit BY <2>10 DEF PollEmit
  <2> QED BY <1>2, <2>1, <2>2, <2>3, <2>4, <2>5, <2>6, <2>7, <2>8, <2>9, <2>10 DEF Poll
<1>3. ASSUME Exit PROVE SpawnStage'
  <2>1. CASE ExitRead BY <2>1 DEF ExitRead
  <2>2. CASE ExitUpdate BY <2>2 DEF ExitUpdate
  <2> QED BY <1>3, <2>1, <2>2 DEF Exit
<1>4. ASSUME RemoteStep PROVE SpawnStage'
  BY <1>4 DEF RemoteStep
<1>5. ASSUME NEW c \in Cancelers, Cancel(c) PROVE SpawnStage'
  <2>1. CASE CancelCheck(c) BY <2>1 DEF CancelCheck, Goto
  <2>2. CASE CancelGraceTerminal(c) BY <2>2 DEF CancelGraceTerminal, Goto
  <2>3. CASE CancelGraceReady(c) BY <2>3 DEF CancelGraceReady, Goto
  <2>4. CASE CancelGraceExpire(c) BY <2>4 DEF CancelGraceExpire, Goto
  <2>5. CASE CancelNoHandle(c) BY <2>5 DEF CancelNoHandle, Goto
  <2>6. CASE CancelNoClient(c) BY <2>6 DEF CancelNoClient, Goto
  <2>7. CASE CancelPost(c) BY <2>7 DEF CancelPost, Goto
  <2>8. CASE CancelMark(c) BY <2>8 DEF CancelMark, Goto
  <2>9. CASE CancelEmit(c) BY <2>9 DEF CancelEmit, Goto
  <2>10. CASE CancelReport(c) BY <2>10 DEF CancelReport, Goto
  <2> QED BY <1>5, <2>1, <2>2, <2>3, <2>4, <2>5, <2>6, <2>7, <2>8, <2>9, <2>10 DEF
          Cancel
<1> QED BY <1>1, <1>2, <1>3, <1>4, <1>5 DEF Next

\* The loop gives up at its limit and ends with a result; what a poll has read of a
\* run that ended stays true, as the run and the cancel post only change live runs.
LEMMA PollStageStep == IInv /\ Next => PollStage'
<1> SUFFICES ASSUME IInv, Next PROVE PollStage'
  OBVIOUS
<1> USE LimitsAssumption, PathsAssumption
<1> USE DEF IInv, TypeOK, handleVars, pollVars, exitVars, PollStage, SpawnStage,
            CancelStage, Terminal, LivePhases, TerminalPhases
<1>1. ASSUME Spawn PROVE PollStage'
  <2>1. CASE SpawnTag BY <2>1 DEF SpawnTag
  <2>2. CASE SpawnFails BY <2>2 DEF SpawnFails
  <2>3. CASE SpawnCreate BY <2>3 DEF SpawnCreate
  <2>4. CASE SpawnSeed BY <2>4 DEF SpawnSeed
  <2>5. CASE SpawnQueue BY <2>5 DEF SpawnQueue
  <2>6. CASE SpawnReturn BY <2>6 DEF SpawnReturn
  <2> QED BY <1>1, <2>1, <2>2, <2>3, <2>4, <2>5, <2>6 DEF Spawn
<1>2. ASSUME Poll PROVE PollStage'
  <2>1. CASE PollReconcile BY <2>1 DEF PollReconcile
  <2>2. CASE PollStart BY <2>2 DEF PollStart
  <2>3. CASE PollGet BY <2>3 DEF PollGet
  <2>4. CASE PollRetry BY <2>4 DEF PollRetry
  <2>5. CASE PollRaises BY <2>5 DEF PollRaises
  <2>6. CASE PollTerminal BY <2>6 DEF PollTerminal
  <2>7. CASE PollLive BY <2>7 DEF PollLive
  <2>8. CASE PollTimeout BY <2>8 DEF PollTimeout
  <2>9. CASE PollBracket BY <2>9 DEF PollBracket
  <2>10. CASE PollEmit BY <2>10 DEF PollEmit
  <2> QED BY <1>2, <2>1, <2>2, <2>3, <2>4, <2>5, <2>6, <2>7, <2>8, <2>9, <2>10 DEF Poll
<1>3. ASSUME Exit PROVE PollStage'
  <2>1. CASE ExitRead BY <2>1 DEF ExitRead
  <2>2. CASE ExitUpdate BY <2>2 DEF ExitUpdate
  <2> QED BY <1>3, <2>1, <2>2 DEF Exit
<1>4. ASSUME RemoteStep PROVE PollStage'
  BY <1>4 DEF RemoteStep
<1>5. ASSUME NEW c \in Cancelers, Cancel(c) PROVE PollStage'
  <2>1. CASE CancelCheck(c) BY <2>1 DEF CancelCheck, Goto
  <2>2. CASE CancelGraceTerminal(c) BY <2>2 DEF CancelGraceTerminal, Goto
  <2>3. CASE CancelGraceReady(c) BY <2>3 DEF CancelGraceReady, Goto
  <2>4. CASE CancelGraceExpire(c) BY <2>4 DEF CancelGraceExpire, Goto
  <2>5. CASE CancelNoHandle(c) BY <2>5 DEF CancelNoHandle, Goto
  <2>6. CASE CancelNoClient(c) BY <2>6 DEF CancelNoClient, Goto
  <2>7. CASE CancelPost(c) BY <2>7 DEF CancelPost, Goto
  <2>8. CASE CancelMark(c) BY <2>8 DEF CancelMark, Goto
  <2>9. CASE CancelEmit(c) BY <2>9 DEF CancelEmit, Goto
  <2>10. CASE CancelReport(c) BY <2>10 DEF CancelReport, Goto
  <2> QED BY <1>5, <2>1, <2>2, <2>3, <2>4, <2>5, <2>6, <2>7, <2>8, <2>9, <2>10 DEF
          Cancel
<1> QED BY <1>1, <1>2, <1>3, <1>4, <1>5 DEF Next

\* The end of the loop is in the store before the exit callback reads it, and what
\* the callback writes is overwritten by CANCELED only.
LEMMA ExitStageStep == IInv /\ Next => ExitStage'
<1> SUFFICES ASSUME IInv, Next PROVE ExitStage'
  OBVIOUS
<1> USE LimitsAssumption, PathsAssumption
<1> USE DEF IInv, TypeOK, handleVars, pollVars, exitVars, ExitStage, SpawnStage,
            PollStage, CancelStage, PastGrace, StoreFollowsRun, Mapped, Terminal,
            LivePhases, TerminalPhases, Results
<1>1. ASSUME Spawn PROVE ExitStage'
  <2>1. CASE SpawnTag BY <2>1 DEF SpawnTag
  <2>2. CASE SpawnFails BY <2>2 DEF SpawnFails
  <2>3. CASE SpawnCreate BY <2>3 DEF SpawnCreate
  <2>4. CASE SpawnSeed BY <2>4 DEF SpawnSeed
  <2>5. CASE SpawnQueue BY <2>5 DEF SpawnQueue
  <2>6. CASE SpawnReturn BY <2>6 DEF SpawnReturn
  <2> QED BY <1>1, <2>1, <2>2, <2>3, <2>4, <2>5, <2>6 DEF Spawn
<1>2. ASSUME Poll PROVE ExitStage'
  <2>1. CASE PollReconcile BY <2>1 DEF PollReconcile
  <2>2. CASE PollStart BY <2>2 DEF PollStart
  <2>3. CASE PollGet BY <2>3 DEF PollGet
  <2>4. CASE PollRetry BY <2>4 DEF PollRetry
  <2>5. CASE PollRaises BY <2>5 DEF PollRaises
  <2>6. CASE PollTerminal BY <2>6 DEF PollTerminal
  <2>7. CASE PollLive BY <2>7 DEF PollLive
  <2>8. CASE PollTimeout BY <2>8 DEF PollTimeout
  <2>9. CASE PollBracket BY <2>9 DEF PollBracket
  <2>10. CASE PollEmit BY <2>10 DEF PollEmit
  <2> QED BY <1>2, <2>1, <2>2, <2>3, <2>4, <2>5, <2>6, <2>7, <2>8, <2>9, <2>10 DEF Poll
<1>3. ASSUME Exit PROVE ExitStage'
  <2>1. CASE ExitRead BY <2>1 DEF ExitRead
  <2>2. CASE ExitUpdate BY <2>2 DEF ExitUpdate
  <2> QED BY <1>3, <2>1, <2>2 DEF Exit
<1>4. ASSUME RemoteStep PROVE ExitStage'
  BY <1>4 DEF RemoteStep
<1>5. ASSUME NEW c \in Cancelers, Cancel(c) PROVE ExitStage'
  <2>1. CASE CancelCheck(c) BY <2>1 DEF CancelCheck, Goto
  <2>2. CASE CancelGraceTerminal(c) BY <2>2 DEF CancelGraceTerminal, Goto
  <2>3. CASE CancelGraceReady(c) BY <2>3 DEF CancelGraceReady, Goto
  <2>4. CASE CancelGraceExpire(c) BY <2>4 DEF CancelGraceExpire, Goto
  <2>5. CASE CancelNoHandle(c) BY <2>5 DEF CancelNoHandle, Goto
  <2>6. CASE CancelNoClient(c) BY <2>6 DEF CancelNoClient, Goto
  <2>7. CASE CancelPost(c) BY <2>7 DEF CancelPost, Goto
  <2>8. CASE CancelMark(c) BY <2>8 DEF CancelMark, Goto
  <2>9. CASE CancelEmit(c) BY <2>9 DEF CancelEmit, Goto
  <2>10. CASE CancelReport(c) BY <2>10 DEF CancelReport, Goto
  <2> QED BY <1>5, <2>1, <2>2, <2>3, <2>4, <2>5, <2>6, <2>7, <2>8, <2>9, <2>10 DEF
          Cancel
<1> QED BY <1>1, <1>2, <1>3, <1>4, <1>5 DEF Next

\* A request posts only with a handle, and a post is accepted only while the run
\* lives, which it ends.
LEMMA CancelStageStep == IInv /\ Next => CancelStage'
<1> SUFFICES ASSUME IInv, Next PROVE CancelStage'
  OBVIOUS
<1> USE LimitsAssumption, PathsAssumption
<1> USE DEF IInv, TypeOK, handleVars, pollVars, exitVars, CancelStage, SpawnStage,
            PastGrace, Accepted, Populated, Terminal, LivePhases, TerminalPhases
<1>1. ASSUME Spawn PROVE CancelStage'
  <2>1. CASE SpawnTag BY <2>1 DEF SpawnTag
  <2>2. CASE SpawnFails BY <2>2 DEF SpawnFails
  <2>3. CASE SpawnCreate BY <2>3 DEF SpawnCreate
  <2>4. CASE SpawnSeed BY <2>4 DEF SpawnSeed
  <2>5. CASE SpawnQueue BY <2>5 DEF SpawnQueue
  <2>6. CASE SpawnReturn BY <2>6 DEF SpawnReturn
  <2> QED BY <1>1, <2>1, <2>2, <2>3, <2>4, <2>5, <2>6 DEF Spawn
<1>2. ASSUME Poll PROVE CancelStage'
  <2>1. CASE PollReconcile BY <2>1 DEF PollReconcile
  <2>2. CASE PollStart BY <2>2 DEF PollStart
  <2>3. CASE PollGet BY <2>3 DEF PollGet
  <2>4. CASE PollRetry BY <2>4 DEF PollRetry
  <2>5. CASE PollRaises BY <2>5 DEF PollRaises
  <2>6. CASE PollTerminal BY <2>6 DEF PollTerminal
  <2>7. CASE PollLive BY <2>7 DEF PollLive
  <2>8. CASE PollTimeout BY <2>8 DEF PollTimeout
  <2>9. CASE PollBracket BY <2>9 DEF PollBracket
  <2>10. CASE PollEmit BY <2>10 DEF PollEmit
  <2> QED BY <1>2, <2>1, <2>2, <2>3, <2>4, <2>5, <2>6, <2>7, <2>8, <2>9, <2>10 DEF Poll
<1>3. ASSUME Exit PROVE CancelStage'
  <2>1. CASE ExitRead BY <2>1 DEF ExitRead
  <2>2. CASE ExitUpdate BY <2>2 DEF ExitUpdate
  <2> QED BY <1>3, <2>1, <2>2 DEF Exit
<1>4. ASSUME RemoteStep PROVE CancelStage'
  BY <1>4 DEF RemoteStep
<1>5. ASSUME NEW c \in Cancelers, Cancel(c) PROVE CancelStage'
  <2>1. CASE CancelCheck(c) BY <2>1 DEF CancelCheck, Goto
  <2>2. CASE CancelGraceTerminal(c) BY <2>2 DEF CancelGraceTerminal, Goto
  <2>3. CASE CancelGraceReady(c) BY <2>3 DEF CancelGraceReady, Goto
  <2>4. CASE CancelGraceExpire(c) BY <2>4 DEF CancelGraceExpire, Goto
  <2>5. CASE CancelNoHandle(c) BY <2>5 DEF CancelNoHandle, Goto
  <2>6. CASE CancelNoClient(c) BY <2>6 DEF CancelNoClient, Goto
  <2>7. CASE CancelPost(c) BY <2>7 DEF CancelPost, Goto
  <2>8. CASE CancelMark(c) BY <2>8 DEF CancelMark, Goto
  <2>9. CASE CancelEmit(c) BY <2>9 DEF CancelEmit, Goto
  <2>10. CASE CancelReport(c) BY <2>10 DEF CancelReport, Goto
  <2> QED BY <1>5, <2>1, <2>2, <2>3, <2>4, <2>5, <2>6, <2>7, <2>8, <2>9, <2>10 DEF
          Cancel
<1> QED BY <1>1, <1>2, <1>3, <1>4, <1>5 DEF Next

\* The poll loop appends each bracket once, in its order, and task.completed only for
\* a run that has finished; no one else appends these.
LEMMA LogStageStep == IInv /\ Next => LogStage'
<1> SUFFICES ASSUME IInv, Next PROVE LogStage'
  OBVIOUS
<1> USE LimitsAssumption, PathsAssumption
<1> USE DEF IInv, TypeOK, handleVars, pollVars, exitVars, LogStage, RunBrackets,
            Before, PollStage, SpawnStage, ExitStage, Terminal, LivePhases,
            TerminalPhases
<1>1. ASSUME Spawn PROVE LogStage'
  <2>1. CASE SpawnTag BY <2>1, KeptLog DEF SpawnTag
  <2>2. CASE SpawnFails BY <2>2, AppendedEvent, EventNames DEF SpawnFails
  <2>3. CASE SpawnCreate BY <2>3, KeptLog DEF SpawnCreate
  <2>4. CASE SpawnSeed BY <2>4, KeptLog DEF SpawnSeed
  <2>5. CASE SpawnQueue BY <2>5, AppendedEvent, EventNames DEF SpawnQueue
  <2>6. CASE SpawnReturn BY <2>6, KeptLog DEF SpawnReturn
  <2> QED BY <1>1, <2>1, <2>2, <2>3, <2>4, <2>5, <2>6 DEF Spawn
<1>2. ASSUME Poll PROVE LogStage'
  <2>1. CASE PollReconcile BY <2>1, AppendedEvent, EventNames DEF PollReconcile
  <2>2. CASE PollStart BY <2>2, AppendedEvent, EventNames DEF PollStart
  <2>3. CASE PollGet BY <2>3, KeptLog DEF PollGet
  <2>4. CASE PollRetry BY <2>4, KeptLog DEF PollRetry
  <2>5. CASE PollRaises BY <2>5, KeptLog DEF PollRaises
  <2>6. CASE PollTerminal BY <2>6, KeptLog DEF PollTerminal
  <2>7. CASE PollLive BY <2>7, KeptLog DEF PollLive
  <2>8. CASE PollTimeout BY <2>8, KeptLog DEF PollTimeout
  <2>9. CASE PollBracket
    <3>1. /\ Positions("cloud.run_finished")' = {Len(log) + 1}
          /\ \A x : x # "cloud.run_finished" => Positions(x)' = Positions(x)
          /\ \A x : Positions(x) \subseteq 1..Len(log)
      BY <2>9, AppendedEvent, EventNames DEF PollBracket
    <3>2. Positions("cloud.run_started") # {} /\ Len(log) \in Nat
      BY <2>9 DEF PollBracket
    <3>3. \A j \in Positions("cloud.run_started") : j < Len(log) + 1
      BY <3>1, <3>2
    <3>4. /\ remote' = remote /\ ppc' = "bracketed"
          /\ Positions("task.completed")' = Positions("task.completed")
          /\ Positions("cloud.run_started")' = Positions("cloud.run_started")
      BY <2>9, <3>1 DEF PollBracket
    <3>5. RunBrackets'
      BY <3>1, <3>2, <3>3, <3>4
    <3> QED BY <2>9, <3>1, <3>2, <3>4, <3>5
  <2>10. CASE PollEmit
    <3> DEFINE v == VerdictOf(result)
    <3>1. /\ v \in {"task.completed", "task.failed", "task.canceled"}
          /\ v = "task.completed" => result = "FINISHED"
      BY VerdictNames
    <3>2. v \in Events /\ log' = Append(log, v)
      BY <2>10, <3>1, EventNames DEF PollEmit
    <3> HIDE DEF v
    <3>3. \A x : x # v => Positions(x)' = Positions(x)
      BY <3>2, AppendedEvent
    <3>4. /\ Positions("cloud.run_started")' = Positions("cloud.run_started")
          /\ Positions("cloud.run_finished")' = Positions("cloud.run_finished")
      BY <3>1, <3>3
    <3>5. result = "FINISHED" => remote = "FINISHED"
      OBVIOUS
    <3>6. Positions("task.completed")' # {} => remote = "FINISHED"
      BY <3>1, <3>3, <3>5
    <3> QED BY <2>10, <3>4, <3>6 DEF PollEmit
  <2> QED BY <1>2, <2>1, <2>2, <2>3, <2>4, <2>5, <2>6, <2>7, <2>8, <2>9, <2>10 DEF Poll
<1>3. ASSUME Exit PROVE LogStage'
  <2>1. CASE ExitRead BY <2>1, KeptLog DEF ExitRead
  <2>2. CASE ExitUpdate BY <2>2, KeptLog DEF ExitUpdate
  <2> QED BY <1>3, <2>1, <2>2 DEF Exit
<1>4. ASSUME RemoteStep PROVE LogStage'
  BY <1>4, KeptLog DEF RemoteStep
<1>5. ASSUME NEW c \in Cancelers, Cancel(c) PROVE LogStage'
  <2>1. CASE CancelCheck(c) BY <2>1, KeptLog DEF CancelCheck, Goto
  <2>2. CASE CancelGraceTerminal(c) BY <2>2, KeptLog DEF CancelGraceTerminal, Goto
  <2>3. CASE CancelGraceReady(c) BY <2>3, KeptLog DEF CancelGraceReady, Goto
  <2>4. CASE CancelGraceExpire(c) BY <2>4, AppendedEvent, EventNames DEF
          CancelGraceExpire, Goto
  <2>5. CASE CancelNoHandle(c) BY <2>5, AppendedEvent, EventNames DEF CancelNoHandle,
          Goto
  <2>6. CASE CancelNoClient(c) BY <2>6, KeptLog DEF CancelNoClient, Goto
  <2>7. CASE CancelPost(c) BY <2>7, KeptLog DEF CancelPost, Goto
  <2>8. CASE CancelMark(c) BY <2>8, KeptLog DEF CancelMark, Goto
  <2>9. CASE CancelEmit(c) BY <2>9, AppendedEvent, EventNames DEF CancelEmit, Goto
  <2>10. CASE CancelReport(c) BY <2>10, AppendedEvent, EventNames DEF CancelReport, Goto
  <2> QED BY <1>5, <2>1, <2>2, <2>3, <2>4, <2>5, <2>6, <2>7, <2>8, <2>9, <2>10 DEF
          Cancel
<1> QED BY <1>1, <1>2, <1>3, <1>4, <1>5 DEF Next

LEMMA InvInit == Init => IInv
<1> SUFFICES ASSUME Init PROVE IInv
  OBVIOUS
<1> USE LimitsAssumption DEF Init
<1>1. TypeOK
  <2>1. log \in Seq(Events)
    OBVIOUS
  <2>2. polls \in 0..MaxPolls /\ attempt \in 0..RetryMax - 1
    OBVIOUS
  <2>3. cpc \in [Cancelers -> InCall \cup {"idle", "canceled", "best_effort", "no_handle",
                                        "rejected"}]
    OBVIOUS
  <2>4. agentId \in BOOLEAN /\ runId \in BOOLEAN /\ sawCanceled \in BOOLEAN
    OBVIOUS
  <2> QED BY <2>1, <2>2, <2>3, <2>4 DEF TypeOK
<1>2. SpawnStage /\ PollStage /\ ExitStage /\ CancelStage
  BY DEF SpawnStage, PollStage, ExitStage, CancelStage, StoreFollowsRun, PastGrace,
         Accepted, Terminal, TerminalPhases
<1>3. \A e : Positions(e) = {}
  BY DEF Positions
<1>4. LogStage
  BY <1>3 DEF LogStage, RunBrackets, Before
<1> QED BY <1>1, <1>2, <1>4 DEF IInv

LEMMA InvStep == IInv /\ [Next]_vars => IInv'
<1> SUFFICES ASSUME IInv, [Next]_vars PROVE IInv'
  OBVIOUS
<1>1. CASE Next
  BY <1>1, TypeStep, SpawnStageStep, PollStageStep, ExitStageStep, CancelStageStep,
     LogStageStep DEF IInv
<1>2. CASE UNCHANGED vars
  <2>1. TypeOK' /\ SpawnStage' /\ PollStage' /\ ExitStage' /\ CancelStage'
    BY <1>2 DEF IInv, TypeOK, SpawnStage, PollStage, ExitStage, CancelStage,
                StoreFollowsRun, vars, handleVars, pollVars, exitVars
  <2>2. LogStage'
    BY <1>2, KeptLog DEF IInv, LogStage, RunBrackets, vars, pollVars
  <2> QED BY <2>1, <2>2 DEF IInv
<1> QED BY <1>1, <1>2

LEMMA Invariance == Spec => []IInv
  BY InvInit, InvStep, PTL DEF Spec

-----------------------------------------------------------------------------
(* Theorems *)

\* Every variable keeps its type; among others the number of polls never exceeds
\* max_polls and an attempt never reaches retry_max.
THEOREM CloudTypeCorrect == Spec => []TypeOK
<1>1. IInv => TypeOK
  BY DEF IInv
<1> QED BY <1>1, Invariance, PTL

\* The poll loop brackets the run, as I-10 of cloud_events.py asks: one
\* cloud.run_started, then at most one cloud.run_finished.
THEOREM RunIsBracketed == Spec => []RunBrackets
<1>1. IInv => RunBrackets
  BY DEF IInv, LogStage
<1> QED BY <1>1, Invariance, PTL

\* A cancel that the API accepted is never followed, or preceded, by a report
\* that the task completed: the accepted post has ended the run, task.completed
\* is for a run that has finished, and a run ends in one way.
THEOREM AcceptedCancelHolds == Spec => []AcceptedNeverCompletes
<1>1. IInv => AcceptedNeverCompletes
  BY DEF IInv, CancelStage, Accepted, LogStage, AcceptedNeverCompletes
<1> QED BY <1>1, Invariance, PTL

\* A cancel request of a REST task never fails for want of the ids: it leaves the
\* grace window after the seed, which writes both.
THEOREM GraceWaitsForSeed == Spec => []NoRequestLacksHandle
<1>1. IInv => NoRequestLacksHandle
  BY DEF IInv, CancelStage, NoRequestLacksHandle
<1> QED BY <1>1, Invariance, PTL

\* The seed, which resets the state of the handle, overwrites no result.
THEOREM SeedIsFirst == Spec => []SeedOverwritesNoResult
<1>1. IInv => SeedOverwritesNoResult
  BY DEF IInv, SpawnStage, SeedOverwritesNoResult
<1> QED BY <1>1, Invariance, PTL

\* Once the exit callback is through, the store says how the run ended, or that
\* a cancel has been recorded.
THEOREM StoreIsRight == Spec => []StoreFollowsRun
<1>1. IInv => StoreFollowsRun
  BY DEF IInv, ExitStage
<1> QED BY <1>1, Invariance, PTL

\* On Path-B, which has no poller, a terminal state is final: the exit callback
\* runs only after a failed spawn, when no cancel request is past the grace
\* window, and a cancel writes the state that is there.
LEMMA PathBStep == IInv /\ [Next]_vars => [path = "jwt" => Final]_vars
<1> SUFFICES ASSUME IInv, Next, path = "jwt", state \in Terminal PROVE state' = state
  BY DEF Final
<1> USE DEF IInv, SpawnStage, ExitStage, CancelStage, PastGrace, Terminal, handleVars,
            pollVars, exitVars
<1>1. ASSUME Spawn PROVE state' = state
  BY <1>1 DEF Spawn, SpawnTag, SpawnFails, SpawnCreate, SpawnSeed, SpawnQueue, SpawnReturn
<1>2. ASSUME Poll PROVE state' = state
  <2>1. ppc = "none"
    OBVIOUS
  <2> QED BY <1>2, <2>1 DEF Poll, PollReconcile, PollStart, PollGet, PollRetry, PollRaises,
                            PollTerminal, PollLive, PollTimeout, PollBracket, PollEmit
<1>3. ASSUME Exit PROVE state' = state
  BY <1>3 DEF Exit, ExitRead, ExitUpdate
<1>4. ASSUME RemoteStep PROVE state' = state
  BY <1>4 DEF RemoteStep
<1>5. ASSUME NEW c \in Cancelers, Cancel(c) PROVE state' = state
  <2>1. ASSUME CancelMark(c) PROVE state' = state
    <3>1. cpc[c] \in PastGrace
      BY <2>1 DEF CancelMark, Goto
    <3>2. agentId /\ spc # "failed"
      BY <3>1
    <3> QED BY <2>1, <3>2 DEF CancelMark
  <2>2. ASSUME ~CancelMark(c) PROVE state' = state
    BY <1>5, <2>2 DEF Cancel, CancelCheck, CancelGraceTerminal, CancelGraceReady,
       CancelGraceExpire, CancelNoHandle, CancelNoClient, CancelPost, CancelEmit,
       CancelReport
  <2> QED BY <2>1, <2>2
<1> QED BY <1>1, <1>2, <1>3, <1>4, <1>5 DEF Next

\* True of Path-B what state.py says of a terminal state.
THEOREM PathBIsFinal == Spec => PathBTerminalIsFinal
  BY Invariance, PathBStep, PTL DEF Spec, PathBTerminalIsFinal
=============================================================================
