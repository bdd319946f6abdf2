------------------------------ MODULE EventLog ------------------------------
(***************************************************************************)
(* The event log of one task and the clients of attach_stream that read it  *)
(* (daemon/event_log.py, daemon/rpc.py): a buffered writer, the fsync       *)
(* worker, tail, the crash of the daemon or of the machine, and the next    *)
(* daemon, which opens the file again in append mode.                       *)
(*                                                                         *)
(* Events are numbered in the order of append.  The file is a sequence of   *)
(* lines and perhaps part of one more: a full buffer goes out in blocks     *)
(* that respect no line.  A part that lacks nothing but its newline is      *)
(* taken to be unreadable like any other.                                   *)
(***************************************************************************)
EXTENDS Integers, Sequences, FiniteSets

CONSTANTS
    Followers,      \* clients of attach_stream
    Starts,         \* the values of ?since they use
    MaxEvents,      \* bound on the events appended
    MaxCrashes      \* bound on the crashes

ASSUME BoundsAssumption ==
    Starts \subseteq Nat /\ MaxEvents \in Nat /\ MaxCrashes \in Nat

VARIABLES
    lines,      \* the complete lines of the file
    half,       \* what follows them: part of a line of this daemon ("live"), of
                \* a dead one ("dead"), or nothing
    buf,        \* events whose line has not reached the file completely
    synced,     \* how many lines fsync has put on disk
    last,       \* the number of events appended
    terminal,   \* the handle of the task is terminal
    mark,       \* the number of events appended when it became so
    crashes,    \* how often the daemon or the machine has crashed
    fpc,        \* where the stream of client f is
    since,      \* the index it started from
    cursor,     \* its cursor
    got         \* the events sent to it

fileVars   == <<lines, half, buf, synced>>
taskVars   == <<last, terminal, mark>>
followerVars == <<fpc, since, cursor, got>>
logVars == <<fileVars, taskVars, crashes, followerVars>>

-----------------------------------------------------------------------------
(* Types *)

Torn  == 0          \* a line that is not JSON
Event == 1..MaxEvents

\* Between two reads of a stream and within one (flushed, but not yet read).
Polling   == {"poll", "poll_flushed", "delivered"}
Finishing == {"final", "final_flushed"}

LogTypeOK ==
    /\ lines \in Seq(Event \cup {Torn}) /\ half \in {"none", "live", "dead"}
    /\ buf \in Seq(Event) /\ synced \in 0..Len(lines)
    /\ last \in 0..MaxEvents /\ terminal \in BOOLEAN /\ mark \in 0..last
    /\ crashes \in 0..MaxCrashes
    /\ fpc \in [Followers -> {"off", "gone", "ended"} \cup Polling \cup Finishing]
    /\ since \in [Followers -> Nat] /\ cursor \in [Followers -> Nat]
    /\ got \in [Followers -> Seq(Event)]
    /\ half = "live" => buf # <<>>

-----------------------------------------------------------------------------
(* Helpers *)

Elems(s) == {s[i] : i \in DOMAIN s}

\* The lines that the events of s make, written after what the file ends in: the
\* first one is glued to the part that a dead daemon has left.
Written(s) ==
    IF s # <<>> /\ half = "dead" THEN lines \o <<Torn>> \o Tail(s) ELSE lines \o s

\* The first k events of b get into the file, and perhaps part of the next.
Spilled(b, k, part) ==
    /\ lines' = Written(SubSeq(b, 1, k))
    /\ buf' = SubSeq(b, k + 1, Len(b))
    /\ half' = IF k = 0 /\ half # "none" THEN half ELSE IF part THEN "live" ELSE "none"

\* Everything appended gets into the file (flush).
Flushed ==
    /\ lines' = Written(buf) /\ buf' = <<>>
    /\ half' = IF buf = <<>> THEN half ELSE "none"

\* The lines of s that can be parsed, collected one by one.
Readable(s) ==
    LET kept[i \in 0..Len(s)] ==
            IF i = 0 THEN <<>>
            ELSE IF s[i] = Torn THEN kept[i - 1] ELSE Append(kept[i - 1], s[i])
    IN  kept[Len(s)]

\* Variant: the index counts from one.
Read_SkipsAhead(i) == Readable(SubSeq(lines, i + 2, Len(lines)))

\* tail(i): the readable lines from index i on.
Read(i) == Readable(SubSeq(lines, i + 1, Len(lines)))

-----------------------------------------------------------------------------
LogInit ==
    /\ lines = <<>> /\ half = "none" /\ buf = <<>> /\ synced = 0
    /\ last = 0 /\ terminal = FALSE /\ mark = 0 /\ crashes = 0
    /\ fpc = [f \in Followers |-> "off"]
    /\ since = [f \in Followers |-> 0] /\ cursor = [f \in Followers |-> 0]
    /\ got = [f \in Followers |-> <<>>]

-----------------------------------------------------------------------------
(* The writer *)

\* append: into the buffer; a full buffer overflows into the file.
AppendEvent ==
    /\ last < MaxEvents /\ last' = last + 1
    /\ LET b == Append(buf, last + 1)
       IN \E k \in 0..Len(b), part \in BOOLEAN :
            /\ part => k < Len(b)
            /\ Spilled(b, k, part)
    /\ UNCHANGED <<synced, terminal, mark, crashes, followerVars>>

\* Variant: the worker looks for something to flush before it syncs.
FsyncWorker_IfDirty ==
    /\ buf # <<>>
    /\ Flushed /\ synced' = Len(lines')
    /\ UNCHANGED <<taskVars, crashes, followerVars>>

\* _fsync_worker: flush and os.fsync under the lock.
FsyncWorker ==
    /\ Flushed /\ synced' = Len(lines')
    /\ UNCHANGED <<taskVars, crashes, followerVars>>

\* Some thread of the daemon makes the handle terminal; others may go on
\* appending.
SetTerminal ==
    /\ ~terminal /\ terminal' = TRUE /\ mark' = last
    /\ UNCHANGED <<fileVars, last, crashes, followerVars>>

\* The daemon dies, and with it the buffer and all streams; if the machine does,
\* whatever was not synced may be cut off anywhere.  The next daemon has the
\* task RUNNING again and opens the file with "a".
Crash ==
    /\ crashes < MaxCrashes /\ crashes' = crashes + 1
    /\ \/ /\ UNCHANGED lines
          /\ half' = IF half = "none" THEN "none" ELSE "dead"
       \/ \E k \in synced..Len(lines) :
            /\ lines' = SubSeq(lines, 1, k)
            /\ half' \in {"none"} \cup {h \in {"dead"} : k < Len(lines)}
    /\ buf' = <<>> /\ terminal' = FALSE /\ mark' = 0
    /\ fpc' = [f \in Followers |-> "off"]
    /\ UNCHANGED <<synced, last, since, cursor, got>>

-----------------------------------------------------------------------------
(* producer of attach_stream, for client f *)

StreamGoto(f, from, to) == fpc[f] = from /\ fpc' = [fpc EXCEPT ![f] = to]

Attach(f) ==
    /\ StreamGoto(f, "off", "poll")
    /\ \E s \in Starts : since' = [since EXCEPT ![f] = s] /\ cursor' = [cursor EXCEPT ![f] = s]
    /\ got' = [got EXCEPT ![f] = <<>>]
    /\ UNCHANGED <<fileVars, taskVars, crashes>>

\* The client leaves; or tail raises, because the file was cut within a character
\* (it skips what is no JSON, but not what is no UTF-8), and breaks the stream.
Disconnect(f) ==
    /\ fpc[f] \in Polling \cup Finishing
    /\ fpc' = [fpc EXCEPT ![f] = "gone"]
    /\ UNCHANGED <<fileVars, taskVars, crashes, since, cursor, got>>

\* tail, first the flush under the lock ...
TailFlush(f) ==
    /\ \/ StreamGoto(f, "poll", "poll_flushed")
       \/ StreamGoto(f, "final", "final_flushed")
    /\ Flushed
    /\ UNCHANGED <<synced, taskVars, crashes, since, cursor, got>>

\* Variant: the cursor is only moved by the final read.
TailRead_KeepsCursor(f) ==
    /\ \/ StreamGoto(f, "poll_flushed", "delivered")
       \/ StreamGoto(f, "final_flushed", "ended")
    /\ got' = [got EXCEPT ![f] = @ \o Read(cursor[f])]
    /\ cursor' = [cursor EXCEPT ![f] = IF fpc[f] = "final_flushed"
                                     THEN @ + Len(Read(cursor[f])) ELSE @]
    /\ UNCHANGED <<fileVars, taskVars, crashes, since>>

\* ... then the file without it; the cursor counts the events that were sent.
TailRead(f) ==
    /\ \/ StreamGoto(f, "poll_flushed", "delivered")
       \/ StreamGoto(f, "final_flushed", "ended")
    /\ got' = [got EXCEPT ![f] = @ \o Read(cursor[f])]
    /\ cursor' = [cursor EXCEPT ![f] = @ + Len(Read(cursor[f]))]
    /\ UNCHANGED <<fileVars, taskVars, crashes, since>>

\* Variant: the stream ends at once when the handle is terminal.
CheckHandle_NoFinalRead(f) ==
    /\ StreamGoto(f, "delivered", IF terminal THEN "ended" ELSE "poll")
    /\ UNCHANGED <<fileVars, taskVars, crashes, since, cursor, got>>

\* A terminal handle calls for one more read; otherwise the stream sleeps.
CheckHandle(f) ==
    /\ StreamGoto(f, "delivered", IF terminal THEN "final" ELSE "poll")
    /\ UNCHANGED <<fileVars, taskVars, crashes, since, cursor, got>>

-----------------------------------------------------------------------------
(* The specification *)

Stream(f) == TailFlush(f) \/ TailRead(f) \/ CheckHandle(f)

LogNext ==
    \/ AppendEvent \/ FsyncWorker \/ SetTerminal \/ Crash
    \/ \E f \in Followers : Attach(f) \/ Disconnect(f) \/ Stream(f)

LogSpec == LogInit /\ [][LogNext]_logVars

\* The worker thread wakes up every second, and the streams of the event loop go on.
LogFairSpec == LogSpec /\ WF_logVars(FsyncWorker) /\ \A f \in Followers : WF_logVars(Stream(f))

-----------------------------------------------------------------------------
(* Properties the code has *)

\* The lines a client that starts at index s may expect.
Expected(s) == {i \in DOMAIN lines : i > s /\ lines[i] # Torn}

\* Every readable line behind the cursor has been sent: whatever the file went
\* through, no event is skipped.  A file that no crash has damaged is sent as it is,
\* in order and once.
SentAsWritten ==
    \A f \in Followers : fpc[f] # "off" =>
        /\ \A i \in Expected(since[f]) : i <= cursor[f] => lines[i] \in Elems(got[f])
        /\ Torn \notin Elems(lines) => got[f] = SubSeq(lines, since[f] + 1, cursor[f])

\* A stream that the daemon ends has sent every readable event that was
\* appended before the handle became terminal.  So the verdict of a task that
\* ends by itself is never missed (VerdictBeforeState of TaskLifecycle).
EndedSawAll ==
    \A f \in Followers : fpc[f] = "ended" =>
        /\ \A i \in Expected(since[f]) : lines[i] <= mark => lines[i] \in Elems(got[f])
        /\ \A e \in Elems(buf) : e > mark

\* An event is on disk within finite time, unless a crash has taken it.
Unsynced(e) == e \in Elems(buf) \/ \E i \in DOMAIN lines : i > synced /\ lines[i] = e

SyncedInTheEnd == \A e \in Event : Unsynced(e) ~> ~Unsynced(e)

-----------------------------------------------------------------------------
(* What a docstring claims and the code does not keep *)

\* tail: "len(prev) = incremental polling".  The index counts all lines and the
\* length only those that could be parsed.
NoEventTwice ==
    \A f \in Followers : \A i, j \in DOMAIN got[f] : got[f][i] = got[f][j] => i = j
=============================================================================
