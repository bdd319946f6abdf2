----------------------------- MODULE CloudStream -----------------------------
(***************************************************************************)
(* "popola attach --follow" on a cloud task (cli/main.py): the main thread   *)
(* prints the daemon's event stream until the task ends, a second thread     *)
(* prints Cursor's own stream of the run next to it (SSEReader of            *)
(* adapters/cursor_cloud.py).  Cursor may send a frame again; the reader     *)
(* drops those it has seen among the last LruMax distinct ones.              *)
(***************************************************************************)
EXTENDS Integers, Sequences, FiniteSets

CONSTANTS
    FrameIds,       \* the ids Cursor gives its frames
    LruMax,         \* SSEReader.LRU_MAX
    FlushEvery,     \* SSEReader.DEDUP_DROP_FLUSH_EVERY
    MaxFrames       \* bound: frames Cursor sends

ASSUME StreamAssumption ==
    LruMax \in Nat \ {0} /\ FlushEvery \in Nat \ {0} /\ MaxFrames \in Nat

VARIABLES
    attachPc,       \* the main thread
    taskEnded,      \* the daemon has ended the stream
    stopSet,        \* stop_event
    pump,           \* the second thread
    received,       \* ids of the frames it has read, in order
    lru,            \* ids remembered, the oldest first
    drops,          \* frames dropped since the last summary
    printed         \* what it has printed: [at |-> index in received, kind]

attachVars == <<attachPc, taskEnded, stopSet>>
pumpVars   == <<pump, received, lru, drops, printed>>
streamVars == <<attachVars, pumpVars>>

NoId == "no id"

PumpEnds == {"stream_ended", "invalid_last_event_id", "network_error", "cursor_error"}

StreamTypeOK ==
    /\ attachPc \in {"status", "reading", "joining", "left"}
    /\ taskEnded \in BOOLEAN /\ stopSet \in BOOLEAN
    /\ pump \in {"none", "reading", "over"} \cup PumpEnds
    /\ received \in Seq(FrameIds \cup {NoId}) /\ Len(received) <= MaxFrames
    /\ lru \in Seq(FrameIds) /\ Len(lru) <= LruMax
    /\ drops \in 0..(FlushEvery - 1)
    /\ \A i \in DOMAIN printed :
         printed[i].kind \in {"frame", "parse_error", "stream_cut",
                              "dedup_drop", "fallback_to_poll"}

StreamInit ==
    /\ attachPc = "status" /\ taskEnded = FALSE /\ stopSet = FALSE
    /\ pump = "none" /\ received = <<>> /\ lru = <<>> /\ drops = 0 /\ printed = <<>>

-----------------------------------------------------------------------------
(* The main thread *)

\* An unknown task, a daemon that is away, or the two streams; the second only
\* for a cloud task with its ids, and with a key.
AttachStarts ==
    /\ attachPc = "status"
    /\ \/ attachPc' = "left" /\ UNCHANGED pump
       \/ attachPc' = "reading" /\ pump' \in {"none", "reading"}
    /\ UNCHANGED <<taskEnded, stopSet, received, lru, drops, printed>>

\* The task ends: after the events before it the last one is on its way.
TaskEnds ==
    /\ ~taskEnded /\ attachPc = "reading"
    /\ taskEnded' = TRUE
    /\ UNCHANGED <<attachPc, stopSet, pumpVars>>

\* The terminal event or end-of-stream, a broken connection, or Ctrl-C.
ReadingStops ==
    /\ attachPc = "reading"
    /\ attachPc' = "joining" /\ stopSet' = TRUE
    /\ UNCHANGED <<taskEnded, pumpVars>>

\* Variant: it waits for the second thread.
Joins_Waits ==
    /\ attachPc = "joining" /\ pump \in {"none", "over"}
    /\ attachPc' = "left"
    /\ UNCHANGED <<taskEnded, stopSet, pumpVars>>

\* join(timeout=2): the second thread, a daemon thread, may go on reading.
Joins ==
    /\ attachPc = "joining"
    /\ attachPc' = "left"
    /\ UNCHANGED <<taskEnded, stopSet, pumpVars>>

-----------------------------------------------------------------------------
(* The second thread *)

Line(kind, at) == [kind |-> kind, at |-> at]

\* The summary of the frames dropped, if any.
Summary(n) == IF n = 0 THEN <<>> ELSE <<Line("dedup_drop", n)>>

\* move_to_end for what is at index i.
MovedToEnd(s, i) ==
    [j \in DOMAIN s |-> IF j < i THEN s[j] ELSE IF j < Len(s) THEN s[j + 1] ELSE s[i]]

\* A new frame becomes the newest, and the oldest is forgotten when there are too many.
Added(id) ==
    LET s == Append(lru, id) IN IF Len(s) > LruMax THEN Tail(s) ELSE s

Seen(id) == \E i \in DOMAIN lru : lru[i] = id

\* Variant: a frame seen again keeps its place.
Remembered_Fifo(id) == IF Seen(id) THEN lru ELSE Added(id)

\* A frame seen again becomes the newest, too.
Remembered(id) ==
    IF Seen(id) THEN MovedToEnd(lru, CHOOSE i \in DOMAIN lru : lru[i] = id) ELSE Added(id)

FrameComes(id) ==
    /\ pump = "reading" /\ attachPc # "left" /\ ~stopSet
    /\ Len(received) < MaxFrames
    /\ received' = Append(received, id)
    /\ UNCHANGED <<attachVars, pump>>

PumpFrame(id) ==
    /\ FrameComes(id)
    /\ IF id = NoId
       THEN /\ printed' = Append(printed, Line("frame", Len(received')))
            /\ UNCHANGED <<lru, drops>>
       ELSE /\ lru' = Remembered(id)
            /\ IF Seen(id)
               THEN /\ drops' = (drops + 1) % FlushEvery
                    /\ printed' = printed \o Summary(IF drops' = 0 THEN FlushEvery ELSE 0)
               ELSE /\ printed' = Append(printed, Line("frame", Len(received')))
                    /\ UNCHANGED drops

\* A frame whose data is not JSON is reported; its id is not remembered.
BadFrame ==
    /\ FrameComes(NoId)
    /\ printed' = Append(printed, Line("parse_error", Len(received')))
    /\ UNCHANGED <<lru, drops>>

\* The first frame after stop_event was set ends the reading.
SeesStop ==
    /\ pump = "reading" /\ attachPc # "left" /\ stopSet
    /\ printed' = printed \o Summary(drops) /\ drops' = 0
    /\ pump' = "stream_ended"
    /\ UNCHANGED <<attachVars, received, lru>>

\* The stream ends, or is cut (it has expired, or the connection breaks), which a
\* line says; other errors leave the summary out.
StreamOver ==
    /\ pump = "reading" /\ attachPc # "left"
    /\ \/ /\ \E last \in {<<>>, <<Line("stream_cut", 0)>>} :
               printed' = printed \o last \o Summary(drops)
          /\ drops' = 0 /\ pump' = "stream_ended"
       \/ pump' \in PumpEnds \ {"stream_ended"} /\ UNCHANGED <<printed, drops>>
    /\ UNCHANGED <<attachVars, received, lru>>

\* The end of the thread says so unless it was told to stop.
PumpLeaves ==
    /\ pump \in PumpEnds /\ attachPc # "left"
    /\ pump' = "over"
    /\ printed' = IF stopSet THEN printed ELSE Append(printed, Line("fallback_to_poll", 0))
    /\ UNCHANGED <<attachVars, received, lru, drops>>

Attached == attachPc = "left" /\ UNCHANGED streamVars

StreamNext ==
    \/ AttachStarts \/ TaskEnds \/ ReadingStops \/ Joins
    \/ (\E id \in FrameIds \cup {NoId} : PumpFrame(id)) \/ BadFrame
    \/ SeesStop \/ StreamOver \/ PumpLeaves \/ Attached

StreamSpec == StreamInit /\ [][StreamNext]_streamVars

-----------------------------------------------------------------------------
(* Properties *)

Between(i, j) == {received[k] : k \in (i + 1)..(j - 1)} \ {NoId, received[i]}

\* A frame that Cursor sends again is not printed again while fewer than LruMax
\* other frames came in between, however often it was dropped before.
SeenFramesAreDropped ==
    \A p \in DOMAIN printed :
        printed[p].kind = "frame" =>
            LET j == printed[p].at
            IN  \A i \in 1..(j - 1) :
                   (received[j] # NoId /\ received[i] = received[j])
                       => Cardinality(Between(i, j)) >= LruMax

\* "popola attach" leaves once the task has ended, though Cursor's stream may keep
\* silent for ever.
AttachLeaves == taskEnded ~> attachPc = "left"
=============================================================================
