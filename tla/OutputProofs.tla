---------------------------- MODULE OutputProofs ----------------------------
(* Proofs about Output, for any bound on the lines.  The inductive invariant: *)
(* a drain that has closed has read everything and nothing can follow; a join *)
(* that is over has found its stream closed, or the log says that it is cut;  *)
(* a drain that has failed has said so; and the terminal event is the last    *)
(* thing the wait thread does.                                                *)
EXTENDS Output, SequenceTheorems, TLAPS

\* A closed drain has read all that was ever written.
ClosedIsRead == \A s \in Streams : drainPc[s] = "closed" => read[s] = wrote[s] /\ ~pipe[s]

\* The log says that stream s was cut or could not be read.
Cut(s) == At(<<"truncated", s>>) \cup At(<<"error", s>>) # {}

FailuresAreSaid == \A s \in Streams : drainPc[s] \in {"failed", "dead"} => At(<<"error", s>>) # {}

Joined(s) == drainPc[s] = "closed" \/ Cut(s)

JoinsAreOver ==
    /\ waitPc \in {"stderr", "finalize"} => Joined("stdout")
    /\ waitPc = "finalize" => Joined("stderr")

OneTerminal == waitPc # "done" => At(<<"verdict", "">>) = {}

OutputInv ==
    /\ OutputTypeOK /\ ClosedIsRead /\ FailuresAreSaid /\ JoinsAreOver /\ OneTerminal
    /\ TerminalAfterOutput

LogEvents == EventTypes \X (Streams \cup {""})

-----------------------------------------------------------------------------
\* The places of a value in a sequence, and those that an append adds.
EventPlaces(q, e) == {i \in DOMAIN q : q[i] = e}

LEMMA PlacesBound ==
    ASSUME NEW S, NEW q \in Seq(S), NEW e
    PROVE  EventPlaces(q, e) \subseteq 1..Len(q)
  BY LenProperties DEF EventPlaces

LEMMA PlacesOfAppend ==
    ASSUME NEW S, NEW q \in Seq(S), NEW x \in S, NEW e, NEW i
    PROVE  i \in EventPlaces(Append(q, x), e) <=> i \in EventPlaces(q, e) \/ (i = Len(q) + 1 /\ e = x)
PROOF
<1> DEFINE n == Len(q) r == Append(q, x)
<1>1. n \in Nat /\ DOMAIN q = 1..n
  BY LenProperties
<1>2. /\ r \in Seq(S) /\ Len(r) = n + 1 /\ r[n + 1] = x
      /\ \A j \in 1..n : r[j] = q[j]
  BY AppendProperties
<1>3. DOMAIN r = 1..(n + 1)
  BY <1>2, LenProperties
<1> HIDE DEF n, r
<1>4. i \in EventPlaces(r, e) <=> i \in EventPlaces(q, e) \/ (i = n + 1 /\ e = x)
  BY <1>1, <1>2, <1>3 DEF EventPlaces
<1> QED
  BY <1>4 DEF n, r

\* What an event that is appended does to the places of the events.
LEMMA AppendedAt ==
    ASSUME OutputTypeOK, NEW type \in {"line", "error", "truncated", "verdict", "blind", "note"},
           NEW s \in Streams \cup {""}, Appended(type, s)
    PROVE  /\ outLog' \in Seq(LogEvents) /\ Len(outLog) \in Nat
           /\ \A e : At(e) \subseteq 1..Len(outLog)
           /\ \A e : e # <<type, s>> => At(e)' = At(e)
           /\ At(<<type, s>>)' = At(<<type, s>>) \cup {Len(outLog) + 1}
PROOF
<1>1. outLog \in Seq(LogEvents) /\ <<type, s>> \in LogEvents
  BY DEF OutputTypeOK, LogEvents, EventTypes
<1>2. outLog' = Append(outLog, <<type, s>>)
  BY DEF Appended
<1>3. \A e : At(e) = EventPlaces(outLog, e) /\ At(e)' = EventPlaces(outLog', e)
  BY DEF At, EventPlaces
<1>4. outLog' \in Seq(LogEvents) /\ Len(outLog) \in Nat
  BY <1>1, <1>2, AppendProperties, LenProperties
<1>5. \A e : At(e) \subseteq 1..Len(outLog)
  BY <1>1, <1>3, PlacesBound
<1>6. ASSUME NEW e, NEW i
      PROVE  i \in At(e)' <=> i \in At(e) \/ (i = Len(outLog) + 1 /\ e = <<type, s>>)
  <2>1. i \in EventPlaces(Append(outLog, <<type, s>>), e)
            <=> i \in EventPlaces(outLog, e) \/ (i = Len(outLog) + 1 /\ e = <<type, s>>)
    BY <1>1, PlacesOfAppend, ZenonT(60)
  <2> QED
    BY <1>2, <1>3, <2>1, Zenon
<1>7. ASSUME NEW e, e # <<type, s>> PROVE At(e)' = At(e)
  <2>1. \A i : i \in At(e)' <=> i \in At(e)
    BY <1>6, <1>7
  <2> QED
    BY <2>1, Zenon DEF At
<1>8. At(<<type, s>>)' = At(<<type, s>>) \cup {Len(outLog) + 1}
  <2>1. \A i : i \in At(<<type, s>>)' <=> i \in At(<<type, s>>) \/ i = Len(outLog) + 1
    BY <1>6
  <2> QED
    BY <2>1
<1> QED
  BY <1>4, <1>5, <1>7, <1>8

LEMMA OutputInitHolds == OutputInit => OutputInv
PROOF
<1> SUFFICES ASSUME OutputInit PROVE OutputInv
  OBVIOUS
<1>1. \A e : At(e) = {}
  BY DEF OutputInit, At
<1>2. OutputTypeOK
  BY LinesAssumption, EmptySeq DEF OutputInit, OutputTypeOK
<1> QED
  BY <1>1, <1>2
  DEF OutputInit, OutputInv, ClosedIsRead, JoinsAreOver, FailuresAreSaid, OneTerminal, TerminalAfterOutput

\* One more of what is counted for stream s.
LEMMA Counted ==
    ASSUME NEW f \in [Streams -> 0..MaxLines], NEW s \in Streams, f[s] < MaxLines
    PROVE  /\ [f EXCEPT ![s] = @ + 1] \in [Streams -> 0..MaxLines]
           /\ [f EXCEPT ![s] = @ + 1][s] = f[s] + 1
           /\ \A u \in Streams \ {s} : [f EXCEPT ![s] = @ + 1][u] = f[u]
PROOF
<1>1. MaxLines \in Nat /\ f[s] \in 0..MaxLines
  BY LinesAssumption
<1>2. f[s] + 1 \in 0..MaxLines
  BY <1>1
<1> QED
  BY <1>2

-----------------------------------------------------------------------------
\* What a step leaves of the marks of a stream that was cut, and of one that has ended.
MarksStay == \A s \in Streams : /\ At(<<"truncated", s>>) \subseteq At(<<"truncated", s>>)'
                                /\ At(<<"error", s>>) \subseteq At(<<"error", s>>)'

EndsStay == \A s \in Streams : AllRead(s) => /\ AllRead(s)'
                                            /\ At(<<"line", s>>)' = At(<<"line", s>>)

\* Such a step does not disturb a verdict that is in the log.
LEMMA VerdictStays ==
    ASSUME TerminalAfterOutput, At(<<"verdict", "">>)' = At(<<"verdict", "">>), MarksStay, EndsStay
    PROVE  TerminalAfterOutput'
PROOF
<1> SUFFICES ASSUME NEW i \in At(<<"verdict", "">>), NEW s \in Streams
             PROVE  \/ \E j \in (At(<<"truncated", s>>) \cup At(<<"error", s>>))' : j < i
                    \/ AllRead(s)' /\ \A j \in At(<<"line", s>>)' : j < i
  BY DEF TerminalAfterOutput, FollowsOutput, CutBefore
<1>1. CASE \E j \in At(<<"truncated", s>>) \cup At(<<"error", s>>) : j < i
  BY <1>1 DEF MarksStay
<1>2. CASE AllRead(s) /\ \A j \in At(<<"line", s>>) : j < i
  BY <1>2 DEF EndsStay
<1> QED
  BY <1>1, <1>2 DEF TerminalAfterOutput, FollowsOutput, CutBefore

\* Steps that append nothing ask only that a stream which has ended stays so.
LEMMA SilentKeeps ==
    ASSUME OutputInv, UNCHANGED outLog, waitPc # "done" <=> waitPc' # "done",
           \A s \in Streams : AllRead(s) => AllRead(s)'
    PROVE  /\ \A e : At(e)' = At(e)
           /\ OneTerminal' /\ TerminalAfterOutput'
PROOF
<1>1. \A e : At(e)' = At(e)
  BY DEF At
<1>2. OneTerminal'
  BY <1>1 DEF OutputInv, OneTerminal
<1>3. TerminalAfterOutput /\ At(<<"verdict", "">>)' = At(<<"verdict", "">>)
  BY <1>1 DEF OutputInv
<1>4. MarksStay /\ EndsStay
  BY <1>1 DEF MarksStay, EndsStay
<1> QED
  BY <1>1, <1>2, <1>3, <1>4, VerdictStays

LEMMA WritersKeep ==
    ASSUME OutputInv,
           ProcessExits \/ \E s \in Streams : Write(s) \/ LastWriterCloses(s)
    PROVE  OutputInv'
PROOF
<1> USE DEF OutputInv, ProcessExits, Write, LastWriterCloses, drainVars
<1>1. OutputTypeOK'
  <2>1. CASE ProcessExits
    BY <2>1 DEF OutputTypeOK
  <2>2. ASSUME NEW s \in Streams, Write(s) PROVE OutputTypeOK'
    <3>1. /\ wrote \in [Streams -> 0..MaxLines] /\ read \in [Streams -> 0..MaxLines]
          /\ \A u \in Streams : read[u] <= wrote[u]
      BY DEF OutputTypeOK
    <3>2. wrote[s] < MaxLines /\ wrote' = [wrote EXCEPT ![s] = @ + 1]
      BY <2>2
    <3>3. /\ wrote' \in [Streams -> 0..MaxLines] /\ wrote'[s] = wrote[s] + 1
          /\ \A u \in Streams \ {s} : wrote'[u] = wrote[u]
      BY <3>1, <3>2, Counted, Zenon
    <3>4. read[s] \in Int /\ wrote[s] \in Int /\ read[s] <= wrote[s]
      BY <3>1
    <3>5. read[s] <= wrote'[s]
      BY <3>3, <3>4
    <3>6. \A u \in Streams : read[u] <= wrote'[u]
      BY <3>1, <3>3, <3>5
    <3> QED
      BY <2>2, <3>3, <3>6 DEF OutputTypeOK
  <2>3. ASSUME NEW s \in Streams, LastWriterCloses(s) PROVE OutputTypeOK'
    BY <2>3 DEF OutputTypeOK
  <2> QED
    BY <2>1, <2>2, <2>3
<1>2. \A s \in Streams : AllRead(s) => AllRead(s)'
  BY DEF OutputTypeOK, AllRead
<1>3. ClosedIsRead'
  BY DEF ClosedIsRead, OutputTypeOK
<1>4. (\A e : At(e)' = At(e)) /\ OneTerminal' /\ TerminalAfterOutput'
  BY <1>2, SilentKeeps
<1>5. JoinsAreOver' /\ FailuresAreSaid'
  BY <1>4 DEF JoinsAreOver, FailuresAreSaid, Joined, Cut
<1> QED
  BY <1>1, <1>3, <1>4, <1>5

\* A line of s is appended while s is being read, so that no terminal event was to be
\* the last of what s holds.
LEMMA DrainLineKeeps ==
    ASSUME OutputInv, NEW s \in Streams, DrainLine(s) PROVE OutputInv'
PROOF
<1> USE DEF OutputInv, DrainLine, writerVars
<1>1. OutputTypeOK /\ Appended("line", s) /\ read[s] < wrote[s]
  OBVIOUS
<1>0. read[s] # wrote[s]
  <2>1. read[s] \in 0..MaxLines /\ wrote[s] \in 0..MaxLines /\ MaxLines \in Nat
    BY LinesAssumption DEF OutputTypeOK
  <2> HIDE DEF OutputInv, DrainLine
  <2> QED
    BY <1>1, <2>1
<1>2. /\ outLog' \in Seq(LogEvents) /\ \A e : e # <<"line", s>> => At(e)' = At(e)
  BY <1>1, AppendedAt
<1>3. OutputTypeOK'
  <2>1. /\ read \in [Streams -> 0..MaxLines] /\ wrote \in [Streams -> 0..MaxLines]
        /\ \A u \in Streams : read[u] <= wrote[u]
        /\ read' = [read EXCEPT ![s] = @ + 1]
    BY DEF OutputTypeOK
  <2>2. MaxLines \in Nat /\ read[s] \in 0..MaxLines /\ wrote[s] \in 0..MaxLines
    BY <2>1, LinesAssumption
  <2>3. read[s] < MaxLines /\ read[s] + 1 <= wrote[s]
    BY <1>1, <2>2
  <2>4. /\ read' \in [Streams -> 0..MaxLines] /\ read'[s] = read[s] + 1
        /\ \A u \in Streams \ {s} : read'[u] = read[u]
    <3>1. read \in [Streams -> 0..MaxLines]
      BY <2>1
    <3>2. read[s] < MaxLines
      BY <2>3
    <3>3. read' = [read EXCEPT ![s] = @ + 1]
      BY <2>1
    <3> HIDE DEF OutputInv, DrainLine
    <3> QED
      BY <3>1, <3>2, <3>3, Counted, Zenon
  <2>5. \A u \in Streams : read'[u] <= wrote[u]
    BY <2>1, <2>3, <2>4
  <2> QED
    BY <1>2, <2>4, <2>5 DEF OutputTypeOK, LogEvents
<1>4. ClosedIsRead'
  BY DEF ClosedIsRead, OutputTypeOK
<1>5. /\ At(<<"verdict", "">>)' = At(<<"verdict", "">>)
      /\ \A u \in Streams : At(<<"truncated", u>>)' = At(<<"truncated", u>>)
      /\ \A u \in Streams \ {s} : At(<<"line", u>>)' = At(<<"line", u>>)
  BY <1>2
<1>6. JoinsAreOver' /\ FailuresAreSaid' /\ OneTerminal'
  <2>1. /\ At(<<"error", "stdout">>)' = At(<<"error", "stdout">>)
        /\ At(<<"error", "stderr">>)' = At(<<"error", "stderr">>)
    BY <1>2
  <2>2. \A u \in Streams : drainPc[u] \in {"closed", "failed", "dead"} <=> drainPc'[u] \in {"closed", "failed", "dead"}
    BY DEF OutputTypeOK
  <2>3. \A u \in Streams : drainPc'[u] \in {"closed", "failed", "dead"} => drainPc'[u] = drainPc[u]
    BY DEF OutputTypeOK
  <2>4. \A u \in Streams : Joined(u) => Joined(u)'
    BY <1>5, <2>1, <2>2, <2>3 DEF Joined, Cut, Streams
  <2> QED
    BY <1>5, <2>1, <2>2, <2>3, <2>4 DEF JoinsAreOver, FailuresAreSaid, OneTerminal, Streams
<1>7. TerminalAfterOutput'
  <2>1. MarksStay
    BY <1>2 DEF MarksStay
  <2>2. EndsStay
    <3>1. ~AllRead(s)
      BY <1>0 DEF AllRead
    <3>2. \A u \in Streams \ {s} : AllRead(u) => AllRead(u)'
      BY DEF AllRead, OutputTypeOK
    <3> QED
      BY <1>5, <3>1, <3>2 DEF EndsStay
  <2>3. TerminalAfterOutput
    OBVIOUS
  <2> QED
    BY <1>5, <2>1, <2>2, <2>3, VerdictStays
<1> QED
  BY <1>3, <1>4, <1>6, <1>7

LEMMA DrainEndsKeep ==
    ASSUME OutputInv, NEW s \in Streams, DrainCancelsTimer(s) \/ DrainEof(s) \/ DrainDies(s)
    PROVE  OutputInv'
PROOF
<1> USE DEF OutputInv, DrainCancelsTimer, DrainEof, DrainDies, CancelTimer, writerVars
<1>1. OutputTypeOK'
  BY DEF OutputTypeOK
<1>2. ClosedIsRead'
  BY DEF ClosedIsRead, OutputTypeOK
<1>3. (\A e : At(e)' = At(e)) /\ OneTerminal' /\ TerminalAfterOutput'
  <2>1. \A u \in Streams : AllRead(u) => AllRead(u)'
    BY DEF AllRead
  <2> QED
    BY <2>1, SilentKeeps
<1>4. \A u \in Streams : /\ drainPc[u] = "closed" => drainPc'[u] = "closed"
                         /\ drainPc'[u] \in {"failed", "dead"} => drainPc[u] \in {"failed", "dead"}
  BY DEF OutputTypeOK
<1>5. JoinsAreOver' /\ FailuresAreSaid'
  BY <1>3, <1>4 DEF JoinsAreOver, FailuresAreSaid, Joined, Cut, Streams
<1> QED
  BY <1>1, <1>2, <1>3, <1>5

\* What a step that appends an event which is neither line nor verdict leaves as it was.
LEMMA AppendKeeps ==
    ASSUME OutputInv, NEW type \in {"error", "truncated", "blind", "note"},
           NEW s \in Streams \cup {""}, Appended(type, s), UNCHANGED writerVars, UNCHANGED read
    PROVE  /\ outLog' \in Seq(LogEvents) /\ MarksStay /\ TerminalAfterOutput'
           /\ At(<<"verdict", "">>)' = At(<<"verdict", "">>)
           /\ At(<<type, s>>)' # {}
           /\ type # "error" => \A u \in Streams : At(<<"error", u>>)' = At(<<"error", u>>)
PROOF
<1>1. OutputTypeOK /\ TerminalAfterOutput
  BY DEF OutputInv
<1>2. /\ outLog' \in Seq(LogEvents)
      /\ \A e : e # <<type, s>> => At(e)' = At(e)
      /\ At(<<type, s>>)' = At(<<type, s>>) \cup {Len(outLog) + 1}
  BY <1>1, AppendedAt, ZenonT(60)
<1>3. MarksStay
  BY <1>2 DEF MarksStay
<1>4. /\ At(<<"verdict", "">>)' = At(<<"verdict", "">>)
      /\ \A u \in Streams : At(<<"line", u>>)' = At(<<"line", u>>)
  BY <1>2
<1>5. EndsStay
  BY <1>4 DEF EndsStay, AllRead, writerVars
<1>6. TerminalAfterOutput'
  BY <1>1, <1>3, <1>4, <1>5, VerdictStays
<1> QED
  BY <1>2, <1>3, <1>4, <1>6

LEMMA DrainFailsKeeps ==
    ASSUME OutputInv, NEW s \in Streams, DrainFails(s) PROVE OutputInv'
PROOF
<1>1. /\ OutputInv /\ Appended("error", s) /\ UNCHANGED writerVars /\ UNCHANGED read
      /\ UNCHANGED <<timer, waitPc>>
      /\ drainPc[s] = "read" /\ drainPc' = [drainPc EXCEPT ![s] = "failed"]
  BY DEF DrainFails
<1>2. /\ outLog' \in Seq(LogEvents) /\ MarksStay /\ TerminalAfterOutput'
      /\ At(<<"verdict", "">>)' = At(<<"verdict", "">>) /\ At(<<"error", s>>)' # {}
  BY <1>1, AppendKeeps
<1>3. OutputTypeOK'
  BY <1>1, <1>2 DEF OutputInv, OutputTypeOK, LogEvents, writerVars
<1>4. ClosedIsRead'
  BY <1>1 DEF OutputInv, ClosedIsRead, OutputTypeOK, writerVars
<1>5. \A u \in Streams : drainPc'[u] # drainPc[u] => u = s /\ drainPc'[u] = "failed"
  BY <1>1 DEF OutputInv, OutputTypeOK
<1>6. FailuresAreSaid'
  BY <1>1, <1>2, <1>5 DEF OutputInv, FailuresAreSaid, MarksStay
<1>7. \A u \in Streams : Joined(u) => Joined(u)'
  BY <1>1, <1>2, <1>5 DEF Joined, Cut, MarksStay
<1>8. JoinsAreOver' /\ OneTerminal'
  BY <1>1, <1>2, <1>7 DEF OutputInv, JoinsAreOver, OneTerminal, Streams
<1> QED
  BY <1>2, <1>3, <1>4, <1>6, <1>8 DEF OutputInv

LEMMA TimerKeeps ==
    ASSUME OutputInv, RegisterTimer \/ TimerFires PROVE OutputInv'
PROOF
<1>1. CASE UNCHANGED outLog
  <2>1. /\ UNCHANGED <<writerVars, drainVars, waitPc, outLog>>
        /\ timer' \in {"unregistered", "armed", "claimed", "gone"}
    BY <1>1 DEF RegisterTimer, TimerFires
  <2>2. (\A e : At(e)' = At(e)) /\ OneTerminal' /\ TerminalAfterOutput'
    <3>1. \A s \in Streams : AllRead(s) => AllRead(s)'
      BY <2>1 DEF AllRead, writerVars, drainVars
    <3> QED
      BY <2>1, <3>1, SilentKeeps
  <2> QED
    BY <2>1, <2>2
    DEF OutputInv, OutputTypeOK, ClosedIsRead, FailuresAreSaid, JoinsAreOver, Joined, Cut,
        writerVars, drainVars
<1>2. CASE timer' = "gone" /\ Appended("note", "")
  <2>1. UNCHANGED <<writerVars, drainVars, waitPc>>
    BY DEF RegisterTimer, TimerFires
  <2>2. UNCHANGED writerVars /\ UNCHANGED read
    BY <2>1 DEF drainVars
  <2>3. /\ outLog' \in Seq(LogEvents) /\ MarksStay /\ TerminalAfterOutput'
        /\ At(<<"verdict", "">>)' = At(<<"verdict", "">>)
        /\ \A u \in Streams : At(<<"error", u>>)' = At(<<"error", u>>)
    BY <1>2, <2>2, AppendKeeps
  <2>4. OutputTypeOK' /\ ClosedIsRead'
    BY <1>2, <2>1, <2>3
    DEF OutputInv, OutputTypeOK, ClosedIsRead, LogEvents, writerVars, drainVars
  <2>5. \A u \in Streams : Joined(u) => Joined(u)'
    BY <2>1, <2>3 DEF Joined, Cut, MarksStay, drainVars
  <2>6. JoinsAreOver' /\ FailuresAreSaid' /\ OneTerminal'
    BY <2>1, <2>3, <2>5
    DEF OutputInv, JoinsAreOver, FailuresAreSaid, OneTerminal, Streams, drainVars
  <2> QED
    BY <2>3, <2>4, <2>6 DEF OutputInv
<1> QED
  BY <1>1, <1>2 DEF RegisterTimer, TimerFires

LEMMA WaitEndsKeep == ASSUME OutputInv, WaitExit \/ WaitRaises PROVE OutputInv'
PROOF
<1> USE DEF OutputInv, WaitExit, WaitRaises, CancelTimer, writerVars, drainVars
<1>1. OutputTypeOK' /\ ClosedIsRead'
  BY DEF OutputTypeOK, ClosedIsRead
<1>2. (\A e : At(e)' = At(e)) /\ OneTerminal' /\ TerminalAfterOutput'
  <2>1. \A s \in Streams : AllRead(s) => AllRead(s)'
    BY DEF AllRead
  <2> QED
    BY <2>1, SilentKeeps
<1> QED
  BY <1>1, <1>2 DEF JoinsAreOver, FailuresAreSaid

\* A wait that has given up adds a terminal event, but no verdict.
LEMMA GiveUpKeeps == ASSUME OutputInv, GiveUp PROVE OutputInv'
PROOF
<1>1. /\ OutputInv /\ Appended("blind", "") /\ UNCHANGED writerVars /\ UNCHANGED read
      /\ UNCHANGED drainPc /\ UNCHANGED timer /\ waitPc' = "done" /\ waitPc = "gave_up"
  BY DEF GiveUp, drainVars
<1>2. /\ outLog' \in Seq(LogEvents) /\ TerminalAfterOutput'
      /\ \A u \in Streams : At(<<"error", u>>)' = At(<<"error", u>>)
  BY <1>1, AppendKeeps
<1>3. OutputTypeOK' /\ ClosedIsRead'
  BY <1>1, <1>2 DEF OutputInv, OutputTypeOK, ClosedIsRead, LogEvents, writerVars
<1>4. JoinsAreOver' /\ FailuresAreSaid' /\ OneTerminal'
  BY <1>1, <1>2 DEF OutputInv, JoinsAreOver, FailuresAreSaid, OneTerminal
<1> QED
  BY <1>2, <1>3, <1>4 DEF OutputInv

JoinOrder(s, next) == \/ s = "stdout" /\ next = "stderr"
                      \/ s = "stderr" /\ next = "finalize"

\* A join that is over has found the stream closed, or has put its mark.
LEMMA JoinKeeps ==
    ASSUME OutputInv,
           NEW s \in Streams, NEW next \in {"stderr", "finalize"},
           Join(s, next), JoinOrder(s, next)
    PROVE  OutputInv'
PROOF
<1>1. /\ OutputInv /\ UNCHANGED writerVars /\ UNCHANGED read /\ UNCHANGED drainPc
      /\ UNCHANGED timer /\ waitPc = s /\ waitPc' = next
  BY DEF Join, drainVars
<1>2. /\ outLog' \in Seq(LogEvents) /\ MarksStay /\ TerminalAfterOutput'
      /\ At(<<"verdict", "">>)' = At(<<"verdict", "">>)
      /\ \A u \in Streams : At(<<"error", u>>)' = At(<<"error", u>>)
      /\ Joined(s)'
  <2>1. CASE drainPc[s] \in {"closed", "dead"}
    <3>1. UNCHANGED outLog
      BY <2>1 DEF Join
    <3>2. waitPc # "done" /\ waitPc' # "done"
      BY <1>1 DEF JoinOrder
    <3>3. \A u \in Streams : AllRead(u) => AllRead(u)'
      BY <1>1 DEF AllRead, writerVars
    <3>4. (\A e : At(e)' = At(e)) /\ TerminalAfterOutput'
      BY <1>1, <3>1, <3>2, <3>3, SilentKeeps
    <3>5. Joined(s)'
      BY <1>1, <2>1, <3>4 DEF OutputInv, FailuresAreSaid, Joined, Cut
    <3> QED
      BY <1>1, <3>1, <3>4, <3>5 DEF OutputInv, OutputTypeOK, LogEvents, MarksStay
  <2>2. CASE ~(drainPc[s] \in {"closed", "dead"})
    <3>1. Appended("truncated", s)
      BY <2>2 DEF Join
    <3> QED
      BY <1>1, <3>1, AppendKeeps DEF Joined, Cut
  <2> QED
    BY <2>1, <2>2
<1>3. OutputTypeOK' /\ ClosedIsRead'
  BY <1>1, <1>2 DEF OutputInv, OutputTypeOK, LogEvents, ClosedIsRead, writerVars
<1>4. OneTerminal' /\ FailuresAreSaid'
  BY <1>1, <1>2 DEF OutputInv, OneTerminal, FailuresAreSaid, JoinOrder
<1>5. JoinsAreOver'
  <2>1. \A u \in Streams : Joined(u) => Joined(u)'
    BY <1>1, <1>2 DEF Joined, Cut, MarksStay
  <2> QED
    BY <1>1, <1>2, <2>1 DEF OutputInv, JoinsAreOver, JoinOrder, Streams
<1> QED
  BY <1>2, <1>3, <1>4, <1>5 DEF OutputInv

\* The terminal event comes after both joins, at the end of the log.
LEMMA FinalizeKeeps == ASSUME OutputInv, Finalize PROVE OutputInv'
PROOF
<1> USE DEF OutputInv, Finalize, writerVars, drainVars
<1>1. OutputTypeOK /\ Appended("verdict", "")
  OBVIOUS
<1>2. /\ outLog' \in Seq(LogEvents) /\ Len(outLog) \in Nat
      /\ \A e : At(e) \subseteq 1..Len(outLog)
      /\ \A e : e # <<"verdict", "">> => At(e)' = At(e)
      /\ At(<<"verdict", "">>)' = At(<<"verdict", "">>) \cup {Len(outLog) + 1}
  BY <1>1, AppendedAt
<1>3. OutputTypeOK' /\ ClosedIsRead' /\ OneTerminal'
  BY <1>2 DEF OutputTypeOK, LogEvents, ClosedIsRead, OneTerminal
<1>4. \A u \in Streams : /\ At(<<"truncated", u>>)' = At(<<"truncated", u>>)
                         /\ At(<<"error", u>>)' = At(<<"error", u>>)
                         /\ At(<<"line", u>>)' = At(<<"line", u>>)
  BY <1>2
<1>5. JoinsAreOver' /\ FailuresAreSaid'
  BY <1>4 DEF JoinsAreOver, FailuresAreSaid
<1>6. TerminalAfterOutput'
  <2> SUFFICES ASSUME NEW u \in Streams
               PROVE  \/ \E j \in At(<<"truncated", u>>) \cup At(<<"error", u>>) : j < Len(outLog) + 1
                      \/ AllRead(u) /\ \A j \in At(<<"line", u>>) : j < Len(outLog) + 1
    <3>1. At(<<"verdict", "">>)' = {Len(outLog) + 1}
      BY <1>2 DEF OneTerminal
    <3>2. \A v \in Streams : AllRead(v)' <=> AllRead(v)
      BY DEF AllRead
    <3> QED
      BY <1>4, <3>1, <3>2 DEF TerminalAfterOutput, FollowsOutput, CutBefore, AllRead
  <2>1. ASSUME NEW e, NEW j \in At(e) PROVE j < Len(outLog) + 1
    <3>1. j \in 1..Len(outLog)
      BY <1>2
    <3>2. Len(outLog) \in Nat
      BY <1>2
    <3> HIDE DEF OutputInv, Finalize
    <3> QED
      BY <3>1, <3>2
  <2>2. Joined(u)
    BY DEF JoinsAreOver, Streams
  <2> QED
    BY <2>1, <2>2 DEF Joined, Cut, ClosedIsRead, AllRead
<1> QED
  BY <1>3, <1>5, <1>6

-----------------------------------------------------------------------------
LEMMA StepKeeps == OutputInv /\ [OutputNext]_outputVars => OutputInv'
PROOF
<1> SUFFICES ASSUME OutputInv, [OutputNext]_outputVars PROVE OutputInv'
  OBVIOUS
<1>0. OutputInv
  OBVIOUS
<1>1. CASE ProcessExits \/ \E s \in Streams : Write(s) \/ LastWriterCloses(s)
  BY <1>1, WritersKeep
<1>2. CASE \E s \in Streams : Drain(s)
  BY <1>2, DrainLineKeeps, DrainEndsKeep, DrainFailsKeeps DEF Drain
<1>3. CASE RegisterTimer \/ TimerFires
  BY <1>3, TimerKeeps
<1>4. CASE WaitExit \/ WaitRaises \/ GiveUp \/ Finalize
  BY <1>4, WaitEndsKeep, GiveUpKeeps, FinalizeKeeps
<1>5. CASE Join("stdout", "stderr") \/ Join("stderr", "finalize")
  <2>1. PICK s \in Streams, next \in {"stderr", "finalize"} :
            Join(s, next) /\ JoinOrder(s, next)
    BY <1>5 DEF Streams, JoinOrder
  <2> QED
    BY <1>0, <2>1, JoinKeeps
<1>6. CASE UNCHANGED outputVars
  <2>1. \A e : At(e)' = At(e)
    BY <1>6 DEF At, outputVars
  <2> QED
    BY <1>6, <2>1
    DEF outputVars, writerVars, drainVars, OutputInv, OutputTypeOK, ClosedIsRead, JoinsAreOver,
        Joined, Cut, FailuresAreSaid, OneTerminal, TerminalAfterOutput, FollowsOutput, CutBefore,
        AllRead
<1> QED
  BY <1>1, <1>2, <1>3, <1>4, <1>5, <1>6 DEF OutputNext

\* Every variable of Output keeps its type, and a drain appends no more lines than were
\* written (Supervisor._drain_stream).
THEOREM OutputTypeCorrect == OutputSpec => []OutputTypeOK
PROOF
<1>1. OutputInv => OutputTypeOK
  BY DEF OutputInv
<1> QED
  BY OutputInitHolds, StepKeeps, <1>1, PTL DEF OutputSpec

\* Whatever children hold the pipes, whenever the joins time out and whichever drain fails,
\* the terminal event of a process that was waited for follows all output of each stream,
\* or an event that says the stream was cut or could not be read
\* (Supervisor._wait_and_finalize).
THEOREM VerdictIsLast == OutputSpec => []TerminalAfterOutput
PROOF
<1>1. OutputInv => TerminalAfterOutput
  BY DEF OutputInv
<1> QED
  BY OutputInitHolds, StepKeeps, <1>1, PTL DEF OutputSpec
=============================================================================
