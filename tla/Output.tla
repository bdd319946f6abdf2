------------------------------- MODULE Output -------------------------------
(***************************************************************************)
(* What a local task prints, from the pipes to its event log: the two drain *)
(* threads, the silence timer and the wait thread of Supervisor.spawn       *)
(* (daemon/supervisor.py).  The process may leave children behind that hold *)
(* its pipes open and go on writing.  A read of a drain may raise (a line    *)
(* that does not decode), and so may the wait for the process.  Left out: a  *)
(* log that cannot be written at all.                                       *)
(***************************************************************************)
EXTENDS Integers, Sequences

CONSTANT MaxLines       \* bound on the lines of a stream

ASSUME LinesAssumption == MaxLines \in Nat

VARIABLES
    proc,       \* the process: "running" or "exited"
    pipe,       \* stream s is open at the side of the writers
    wrote,      \* the lines written to s
    drainPc,    \* where the drain thread of s is
    read,       \* the lines it has appended
    timer,      \* the entry in _silence_state and what became of it
    waitPc,     \* where _wait_and_finalize is
    outLog      \* the events in the log: <<type, stream>>

writerVars == <<proc, pipe, wrote>>
drainVars  == <<drainPc, read>>
outputVars == <<writerVars, drainVars, timer, waitPc, outLog>>

Streams == {"stdout", "stderr"}

\* "verdict" is the terminal event, "blind" one that names the error of the wait;
\* "error" is process.stream_error, "note" the hint of the silence timer.
EventTypes == {"line", "error", "truncated", "verdict", "blind", "note"}

OutputTypeOK ==
    /\ proc \in {"running", "exited"} /\ pipe \in [Streams -> BOOLEAN]
    /\ wrote \in [Streams -> 0..MaxLines]
    /\ drainPc \in [Streams -> {"read", "logged", "closed", "failed", "dead"}]
    /\ read \in [Streams -> 0..MaxLines] /\ \A s \in Streams : read[s] <= wrote[s]
    /\ timer \in {"unregistered", "armed", "claimed", "gone"}
    /\ waitPc \in {"wait", "stdout", "stderr", "finalize", "gave_up", "done"}
    /\ outLog \in Seq(EventTypes \X (Streams \cup {""}))

Appended(type, s) == outLog' = Append(outLog, <<type, s>>)

\* _cancel_silence_timer finds nothing before the timer is registered.
CancelTimer == timer' = IF timer = "armed" THEN "gone" ELSE timer

-----------------------------------------------------------------------------
\* spawn has started the threads.
OutputInit ==
    /\ proc = "running" /\ pipe = [s \in Streams |-> TRUE]
    /\ wrote = [s \in Streams |-> 0]
    /\ drainPc = [s \in Streams |-> "read"] /\ read = [s \in Streams |-> 0]
    /\ timer = "unregistered" /\ waitPc = "wait" /\ outLog = <<>>

-----------------------------------------------------------------------------
(* The process and its children *)

Write(s) ==
    /\ pipe[s] /\ wrote[s] < MaxLines
    /\ wrote' = [wrote EXCEPT ![s] = @ + 1]
    /\ UNCHANGED <<proc, pipe, drainVars, timer, waitPc, outLog>>

ProcessExits ==
    /\ proc = "running" /\ proc' = "exited"
    /\ UNCHANGED <<pipe, wrote, drainVars, timer, waitPc, outLog>>

LastWriterCloses(s) ==
    /\ proc = "exited" /\ pipe[s] /\ pipe' = [pipe EXCEPT ![s] = FALSE]
    /\ UNCHANGED <<proc, wrote, drainVars, timer, waitPc, outLog>>

-----------------------------------------------------------------------------
(* _drain_stream: the line, then the timer *)

DrainLine(s) ==
    /\ drainPc[s] = "read" /\ read[s] < wrote[s]
    /\ drainPc' = [drainPc EXCEPT ![s] = "logged"]
    /\ read' = [read EXCEPT ![s] = @ + 1]
    /\ Appended("line", s)
    /\ UNCHANGED <<writerVars, timer, waitPc>>

DrainCancelsTimer(s) ==
    /\ drainPc[s] = "logged" /\ drainPc' = [drainPc EXCEPT ![s] = "read"]
    /\ CancelTimer
    /\ UNCHANGED <<writerVars, read, waitPc, outLog>>

DrainEof(s) ==
    /\ drainPc[s] = "read" /\ read[s] = wrote[s] /\ ~pipe[s]
    /\ drainPc' = [drainPc EXCEPT ![s] = "closed"]
    /\ UNCHANGED <<writerVars, read, timer, waitPc, outLog>>

\* The read or the append of a line raises.  What the stream still holds is never read.
DrainFails(s) ==
    /\ drainPc[s] = "read" /\ drainPc' = [drainPc EXCEPT ![s] = "failed"]
    /\ Appended("error", s)
    /\ UNCHANGED <<writerVars, read, timer, waitPc>>

\* It closes the stream and ends.
DrainDies(s) ==
    /\ drainPc[s] = "failed" /\ drainPc' = [drainPc EXCEPT ![s] = "dead"]
    /\ UNCHANGED <<writerVars, read, timer, waitPc, outLog>>

-----------------------------------------------------------------------------
(* The silence timer, registered by spawn after it has started the threads *)

RegisterTimer ==
    /\ timer = "unregistered" /\ timer' = "armed"
    /\ UNCHANGED <<writerVars, drainVars, waitPc, outLog>>

TimerFires ==
    /\ \/ timer = "armed" /\ timer' = "claimed" /\ UNCHANGED outLog
       \/ timer = "claimed" /\ timer' = "gone" /\ Appended("note", "")
    /\ UNCHANGED <<writerVars, drainVars, waitPc>>

-----------------------------------------------------------------------------
(* _wait_and_finalize *)

WaitExit ==
    /\ waitPc = "wait" /\ proc = "exited" /\ waitPc' = "stdout"
    /\ CancelTimer
    /\ UNCHANGED <<writerVars, drainVars, outLog>>

\* proc.wait raises, whether the process has exited or not: no join, and a terminal
\* event with the error.
WaitRaises ==
    /\ waitPc = "wait" /\ waitPc' = "gave_up"
    /\ CancelTimer
    /\ UNCHANGED <<writerVars, drainVars, outLog>>

GiveUp ==
    /\ waitPc = "gave_up" /\ waitPc' = "done"
    /\ Appended("blind", "")
    /\ UNCHANGED <<writerVars, drainVars, timer>>

\* Variant: a thread that is still alive after the join is not recorded.
Join_Silent(s, next) ==
    /\ waitPc = s /\ waitPc' = next
    /\ UNCHANGED <<writerVars, drainVars, timer, outLog>>

\* The join ends with the thread, or after 30 s with stream.truncated.
Join(s, next) ==
    /\ waitPc = s /\ waitPc' = next
    /\ IF drainPc[s] \in {"closed", "dead"} THEN UNCHANGED outLog ELSE Appended("truncated", s)
    /\ UNCHANGED <<writerVars, drainVars, timer>>

Finalize ==
    /\ waitPc = "finalize" /\ waitPc' = "done"
    /\ Appended("verdict", "")
    /\ UNCHANGED <<writerVars, drainVars, timer>>

-----------------------------------------------------------------------------
Drain(s) ==
    \/ DrainLine(s) \/ DrainCancelsTimer(s) \/ DrainEof(s)
    \/ DrainFails(s) \/ DrainDies(s)

OutputNext ==
    \/ ProcessExits \/ \E s \in Streams : Write(s) \/ LastWriterCloses(s) \/ Drain(s)
    \/ RegisterTimer \/ TimerFires
    \/ WaitExit \/ Join("stdout", "stderr") \/ Join("stderr", "finalize") \/ Finalize
    \/ WaitRaises \/ GiveUp

OutputSpec == OutputInit /\ [][OutputNext]_outputVars

-----------------------------------------------------------------------------
At(e) == {i \in DOMAIN outLog : outLog[i] = e}

\* Stream s holds nothing the log has not, and never will.
AllRead(s) == read[s] = wrote[s] /\ ~pipe[s]

\* An event before place i says that the lines of s are not complete.
CutBefore(s, i) == \E j \in At(<<"truncated", s>>) \cup At(<<"error", s>>) : j < i

\* The event at i follows every line of every stream that the log does not call cut.
FollowsOutput(i) ==
    \A s \in Streams : CutBefore(s, i) \/ (AllRead(s) /\ \A j \in At(<<"line", s>>) : j < i)

\* The terminal event of a task whose process was waited for comes after everything the
\* task has printed, and nothing of a stream follows it, unless the log says before it
\* that the stream was cut or could not be read (_wait_and_finalize, R-007).  One that
\* names the error of the wait itself promises nothing about the output.
TerminalAfterOutput == \A i \in At(<<"verdict", "">>) : FollowsOutput(i)

-----------------------------------------------------------------------------
(* What a comment claims and the code does not keep *)

\* _emit_stream_truncated: the terminal event must be the last of the file, or
\* stream.truncated says otherwise.  A wait that raises joins no drain.
EveryTerminalIsLast == \A i \in At(<<"verdict", "">>) \cup At(<<"blind", "">>) : FollowsOutput(i)
=============================================================================
